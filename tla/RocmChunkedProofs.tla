-------------------------- MODULE RocmChunkedProofs --------------------------
(***************************************************************************)
(* What the arithmetic of Sizes computes, for any width, granularity and   *)
(* chunk size: a request is covered, the margin is left, the chunks of     *)
(* ROCm 6.x tile the range.  From it the inductive invariant of            *)
(* RocmChunked, for any number of threads, addresses, units and buffers    *)
(* and any requests, and from that the implementation of PauseableMemory   *)
(* for clients that free active tensors only.                              *)
(***************************************************************************)
EXTENDS RocmChunkedInv, FiniteSetTheorems, TLAPS

------------------------------------------------------------------------------
(* Sizes *)

\* Division of naturals.
LEMMA Division ==
    ASSUME NEW a \in Nat, NEW g \in Nat \ {0}
    PROVE  /\ a \div g \in Nat /\ a % g \in 0 .. g - 1
           /\ a = g * (a \div g) + (a % g)
  OBVIOUS

\* Multiples, and what lies between them.
LEMMA Multiples ==
    ASSUME NEW k \in Nat, NEW g \in Nat \ {0}
    PROVE  /\ k * g \in Nat /\ (k * g) % g = 0
           /\ \A r \in 0 .. g - 1 : (k * g + r) \div g = k
  OBVIOUS

\* A number that fits is not changed by the width.
LEMMA WrapFits ==
    ASSUME NEW n \in Size
    PROVE  Wrap(n) = n
  BY SizesAssumption DEF Size, Wrap

LEMMA WrapType ==
    ASSUME NEW n \in Nat
    PROVE  Wrap(n) \in Size
  BY SizesAssumption, Division DEF Size, Wrap

\* Whatever wraps, the result of RoundUp is a multiple of g that fits, and if
\* nothing wraps it is the smallest one that is not below n (utils.h:137).
LEMMA RoundUpCorrect ==
    ASSUME NEW n \in Size, NEW g \in 1 .. Limit - 1
    PROVE  /\ RoundUp(n, g) \in Size
           /\ \E k \in Nat : RoundUp(n, g) = k * g
           /\ n + g - 1 < Limit => n <= RoundUp(n, g) /\ RoundUp(n, g) < n + g
  <1> DEFINE a == Wrap(n + g - 1)
             k == a \div g
  <1>1. n \in Nat /\ g \in Nat \ {0} /\ Limit \in Nat /\ n + g - 1 \in Nat
    BY SizesAssumption DEF Size
  <1>2. a \in Size /\ a \in Nat
    BY <1>1, WrapType DEF Size
  <1>3. k \in Nat /\ a % g \in 0 .. g - 1 /\ a = g * k + (a % g)
    BY <1>1, <1>2, Division
  <1> HIDE DEF k
  <1>4. k * g \in Nat /\ g * k = k * g
    BY <1>1, <1>3
  <1>5. k * g <= a /\ a < k * g + g
    BY <1>1, <1>2, <1>3, <1>4
  <1>6. k * g \in Size
    BY <1>2, <1>4, <1>5, SizesAssumption DEF Size
  <1>7. RoundUp(n, g) = k * g
    BY <1>6, WrapFits DEF RoundUp, k
  <1>8. ASSUME n + g - 1 < Limit PROVE n <= k * g /\ k * g < n + g
    <2>1. a = n + g - 1
      BY <1>1, <1>8, WrapFits DEF Size
    <2>2. QED
      BY <1>1, <1>4, <1>5, <2>1
  <1>9. QED
    BY <1>3, <1>6, <1>7, <1>8

\* The number of chunks of a multiple of the chunk size.
LEMMA NumChunksOfMultiple ==
    ASSUME NEW k \in Nat, k * Chunk \in Size
    PROVE  NumChunks(k * Chunk) = k
  <1>1. Chunk \in Nat \ {0} /\ Limit \in Nat /\ k * Chunk \in Nat
    BY SizesAssumption DEF Size
  <1>2. Limit % Chunk = 0 /\ Limit = Chunk * (Limit \div Chunk) /\ Limit \div Chunk \in Nat
    BY <1>1, Division, SizesAssumption
  <1> DEFINE m == Limit \div Chunk
  <1>3. m \in Nat /\ Limit = m * Chunk
    BY <1>1, <1>2
  <1> HIDE DEF m
  <1>4. k < m
    <2>1. k * Chunk < m * Chunk
      BY <1>3 DEF Size
    <2>2. CASE m <= k
      <3>1. m * Chunk <= k * Chunk
        BY <1>1, <1>3, <2>2
      <3>2. QED
        BY <1>1, <1>3, <2>1, <3>1
    <2>3. QED
      BY <1>3, <2>2
  <1>5. (k + 1) * Chunk <= m * Chunk /\ (k + 1) * Chunk = k * Chunk + Chunk
    BY <1>1, <1>3, <1>4
  <1>6. k * Chunk + Chunk - 1 \in Size
    BY <1>1, <1>3, <1>5 DEF Size
  <1>7. NumChunks(k * Chunk) = (k * Chunk + (Chunk - 1)) \div Chunk
    BY <1>1, <1>6, WrapFits DEF NumChunks
  <1>8. QED
    BY <1>1, <1>7, Multiples

------------------------------------------------------------------------------

\* A request on CUDA that is not refused gets the smallest multiple of the
\* granularity that holds it; none is cut short by an overflow (utils.h:128-138;
\* test/examples/cuda_vmm_granularity.py).
THEOREM RequestsCovered ==
    ASSUME NEW raw \in Size, NEW g \in 1 .. Limit - 1, ~TooLarge(raw, g)
    PROVE  LET size == RoundUp(raw, g)
           IN  size \in Size /\ raw <= size /\ size < raw + g /\ size % g = 0
  <1> DEFINE size == RoundUp(raw, g)
  <1>1. raw + g - 1 < Limit
    BY SizesAssumption DEF TooLarge, Size
  <1>2. size \in Size /\ raw <= size /\ size < raw + g
    BY <1>1, RoundUpCorrect
  <1>3. PICK k \in Nat : size = k * g
    BY RoundUpCorrect
  <1>4. g \in Nat \ {0}
    BY SizesAssumption
  <1>5. size % g = 0
    BY <1>3, <1>4, Multiples
  <1>6. QED
    BY <1>2, <1>5

\* A malloc that passes the test of the margin leaves the margin, if the sum of
\* the two fits 64 bits, and one that fails it would not (core.cpp:103-115).
THEOREM MarginIsLeft ==
    ASSUME NEW margin \in Size, NEW size \in Size, NEW free \in Size, margin > 0
    PROVE  /\ ~Exceeds(margin, size, free) /\ margin + size < Limit => margin <= free - size
           /\ Exceeds(margin, size, free) => margin > free - size
  <1>1. margin + size \in Nat /\ Limit \in Nat \ {0}
    BY SizesAssumption DEF Size
  <1>2. margin + size < Limit => Wrap(margin + size) = margin + size
    BY <1>1, WrapFits DEF Size
  <1>3. Wrap(margin + size) \in Size /\ Wrap(margin + size) <= margin + size
    <2> DEFINE q == (margin + size) \div Limit
    <2>1. q \in Nat /\ margin + size = Limit * q + Wrap(margin + size)
      BY <1>1, Division DEF Wrap
    <2> HIDE DEF q
    <2>2. Limit * q \in Nat
      BY <1>1, <2>1
    <2>3. QED
      BY <1>1, <2>1, <2>2, WrapType DEF Size
  <1>4. QED
    BY <1>2, <1>3 DEF Exceeds, Size

\* On ROCm 6.x an aligned size is cut into whole chunks that tile the range,
\* and the range holds the request unless its rounding wraps
\* (hardware_amd_support.cpp:61-91, 149-154).
THEOREM ChunksTile ==
    ASSUME NEW raw \in Size, NEW g \in Granularities
    PROVE  LET aligned == AlignedSize(raw, g)
           IN  /\ aligned \in Size /\ NumChunks(aligned) \in Nat
               /\ NumChunks(aligned) * Chunk = aligned
               /\ \A i \in 0 .. NumChunks(aligned) - 1 : ChunkSize(aligned, i) = Chunk
               /\ raw + g + Chunk < Limit => raw <= aligned
  <1> DEFINE r == RoundUp(raw, g)
             aligned == RoundUp(r, Chunk)
  <1>1. g \in 1 .. Limit - 1 /\ Chunk \in 1 .. Limit - 1 /\ Chunk \in Nat /\ g \in Nat /\ Limit \in Nat
    BY SizesAssumption
  <1>2. r \in Size /\ (raw + g - 1 < Limit => raw <= r /\ r < raw + g)
    BY <1>1, RoundUpCorrect
  <1> HIDE DEF r
  <1>3. /\ aligned \in Size
        /\ \E k \in Nat : aligned = k * Chunk
        /\ r + Chunk - 1 < Limit => r <= aligned
    BY <1>1, <1>2, RoundUpCorrect
  <1> HIDE DEF aligned
  <1>4. AlignedSize(raw, g) = aligned
    BY DEF AlignedSize, aligned, r
  <1>5. PICK k \in Nat : aligned = k * Chunk
    BY <1>3
  <1>6. NumChunks(aligned) = k
    BY <1>3, <1>5, NumChunksOfMultiple
  <1>7. ASSUME NEW i \in 0 .. k - 1
        PROVE  ChunkSize(aligned, i) = Chunk
    <2>1. (i + 1) * Chunk <= k * Chunk /\ (i + 1) * Chunk = i * Chunk + Chunk
      BY <1>1
    <2>2. i * Chunk \in Nat /\ k * Chunk \in Nat
      BY <1>1
    <2>3. ~(aligned - i * Chunk < Chunk)
      BY <1>1, <1>5, <2>1, <2>2
    <2>4. QED
      BY <2>3 DEF ChunkSize
  <1>8. raw + g + Chunk < Limit => raw <= aligned
    BY <1>1, <1>2, <1>3 DEF Size
  <1>9. QED
    BY <1>3, <1>4, <1>5, <1>6, <1>7, <1>8
------------------------------------------------------------------------------
(* Entries and their chunks *)

\* A request gets chunks that hold it.
LEMMA RequestChunks ==
  ASSUME NEW raw \in Requests, NEW g \in Granularities
  PROVE  /\ AlignedSize(raw, g) \in AlignedSizes
         /\ NumChunks(AlignedSize(raw, g)) \in Nat \ {0}
         /\ raw <= NumChunks(AlignedSize(raw, g)) * Chunk
<1> DEFINE n == AlignedSize(raw, g)
<1>1. raw \in Nat \ {0} /\ raw + g + Chunk < Limit /\ g \in Nat /\ Chunk \in Nat /\ Limit \in Nat
  BY RequestsAssumption, SizesAssumption
<1>2. raw \in Size
  BY <1>1 DEF Size
<1>3. n \in Size /\ NumChunks(n) \in Nat /\ NumChunks(n) * Chunk = n /\ raw <= n
  BY <1>1, <1>2, ChunksTile
<1> HIDE DEF n
<1>4. NumChunks(n) # 0
  BY <1>1, <1>3
<1>5. n \in AlignedSizes
  BY DEF n, AlignedSizes
<1> QED
  BY <1>3, <1>4, <1>5 DEF n

\* An allocation has at least one chunk.
LEMMA ChunkCountTypes ==
  /\ \A n \in AlignedSizes : NumChunks(n) \in ChunkCounts /\ NumChunks(n) \in Nat \ {0}
  /\ \A k \in ChunkCounts \cup {1} : k \in Nat \ {0}
<1>1. \A n \in AlignedSizes : NumChunks(n) \in Nat \ {0}
  BY RequestChunks DEF AlignedSizes
<1> QED
  BY <1>1 DEF ChunkCounts

\* As many values as positions: no value twice.
LEMMA NewUnitsDiffer ==
  ASSUME NEW n \in ChunkCounts \cup {1}, NEW handles \in NewUnits(n)
  PROVE  \A i, j \in DOMAIN handles : handles[i] = handles[j] => i = j
<1>1. handles \in [1 .. n -> Unused] /\ Cardinality(RangeOf(handles)) = n /\ n \in Nat \ {0}
  BY ChunkCountTypes DEF NewUnits
<1>2. IsFiniteSet(1 .. n) /\ Cardinality(1 .. n) = n
  BY <1>1, FS_Interval
<1>3. handles \in Surjection(1 .. n, RangeOf(handles))
  BY <1>1 DEF Surjection, RangeOf
<1>4. handles \in Injection(1 .. n, RangeOf(handles))
  BY <1>1, <1>2, <1>3, FS_Surjection
<1> QED
  BY <1>1, <1>4 DEF Injection, IsInjective

\* The chunks of a range.
LEMMA UnitTypes ==
  ASSUME NEW s \in Units
  PROVE  /\ \E n \in Nat \ {0} : s \in [1 .. n -> Handles]
         /\ s # <<>> /\ RangeOf(s) \subseteq Handles
         /\ DOMAIN s = 1 .. Len(s) /\ Len(s) \in Nat \ {0} /\ s \in [1 .. Len(s) -> Handles]
<1>1. PICK n \in ChunkCounts \cup {1} : s \in [1 .. n -> Handles]
  BY DEF Units
<1>2. n \in Nat \ {0}
  BY ChunkCountTypes
<1>3. Len(s) = n /\ DOMAIN s = 1 .. n /\ 1 \in DOMAIN s
  BY <1>1, <1>2
<1>4. s # <<>> /\ RangeOf(s) \subseteq Handles
  BY <1>1, <1>3 DEF RangeOf
<1> QED
  BY <1>1, <1>2, <1>3, <1>4

\* New units for a range are as many as its chunks, and not in use.
LEMMA NewUnitTypes ==
  ASSUME NEW n \in ChunkCounts \cup {1}, NEW handles \in NewUnits(n)
  PROVE  /\ handles \in [1 .. n -> Handles] /\ handles \in Units /\ n \in Nat \ {0}
         /\ Len(handles) = n /\ handles # <<>>
         /\ \A i \in DOMAIN handles : handles[i] \in Handles /\ handles[i] \notin phys
<1>1. handles \in [1 .. n -> Handles] /\ \A i \in 1 .. n : handles[i] \notin phys
  BY DEF NewUnits, Unused
<1>2. handles \in Units
  BY <1>1 DEF Units
<1>3. n \in Nat \ {0}
  BY ChunkCountTypes
<1>4. Len(handles) = n
  BY <1>1, <1>3
<1> QED
  BY <1>1, <1>2, <1>3, <1>4, UnitTypes

\* A call that has an address or an entry has one of the right kind.
LEMMA HeldTypes ==
  ASSUME CoreInv, NEW t \in Threads
  PROVE  /\ pc[t] \in {"m_register", "f_lookup", "f_device"} =>
                ptr[t] \in Ptrs /\ ptr[t] \in reserved /\ ptr[t] \notin owned
         /\ pc[t] \in {"m_register", "f_device"} => meta[ptr[t]] = Null
         /\ pc[t] \in {"m_register", "f_device", "f_backup"} =>
                md[t] \in Metadata /\ EntryShape(md[t])
<1>1. pc[t] \in {"m_register", "f_lookup", "f_device"} =>
          ptr[t] \in Ptrs /\ ptr[t] \in reserved /\ ptr[t] \notin owned
  BY DEF CoreInv, TypeOK, RangesInv, Alone
<1>2. pc[t] \in {"m_register", "f_device"} => meta[ptr[t]] = Null
  BY <1>1 DEF CoreInv, RangesInv, Holding, Tracked
<1>3. pc[t] \in {"m_register", "f_device", "f_backup"} => md[t] \in Metadata /\ EntryShape(md[t])
  BY DEF CoreInv, TypeOK, RangesInv
<1> QED
  BY <1>1, <1>2, <1>3

\* A range whose units are given back leaves the other ranges theirs.
LEMMA UnitsFreed ==
  ASSUME CoreInv, NEW p0 \in Ptrs, phys' = phys \ RangeOf(mapping[p0]), mapping'[p0] = <<>>,
         \A p \in Ptrs : p # p0 => mapping'[p] = mapping[p]
  PROVE  UnitsInv'
<1>1. \A h \in Handles : h \in phys' <=>
         \E p \in Ptrs : p # p0 /\ \E i \in DOMAIN mapping[p] : mapping[p][i] = h
  BY DEF CoreInv, UnitsInv, RangeOf
<1>2. \A h \in Handles : h \in phys' <=>
         \E p \in Ptrs : \E i \in DOMAIN mapping'[p] : mapping'[p][i] = h
  BY <1>1
<1>3. \A p, q \in Ptrs : \A i \in DOMAIN mapping'[p], j \in DOMAIN mapping'[q] :
         mapping'[p][i] = mapping'[q][j] => p = q /\ i = j
  BY DEF CoreInv, UnitsInv
<1> QED
  BY <1>2, <1>3 DEF UnitsInv

\* A range that gets new units shares them with no other.
LEMMA UnitsMapped ==
  ASSUME CoreInv, NEW p0 \in Ptrs, mapping[p0] = <<>>, NEW n \in ChunkCounts \cup {1},
         NEW handles \in NewUnits(n), MapChunks(p0, handles)
  PROVE  UnitsInv' /\ mapping' \in [Ptrs -> Units \cup {<<>>}] /\ phys' \subseteq Handles
<1>1. /\ handles \in Units /\ RangeOf(handles) \subseteq Handles
      /\ \A i \in DOMAIN handles : handles[i] \in Handles /\ handles[i] \notin phys
  BY NewUnitTypes, UnitTypes
<1>2. \A i, j \in DOMAIN handles : handles[i] = handles[j] => i = j
  BY NewUnitsDiffer
<1>3. /\ phys' = phys \cup RangeOf(handles) /\ mapping' = [mapping EXCEPT ![p0] = handles]
      /\ mapping'[p0] = handles /\ \A p \in Ptrs : p # p0 => mapping'[p] = mapping[p]
  BY DEF MapChunks, CoreInv, TypeOK
<1>4. \A p \in Ptrs : \A i \in DOMAIN mapping[p] : mapping[p][i] \in phys
  <2> SUFFICES ASSUME NEW p \in Ptrs, NEW i \in DOMAIN mapping[p] PROVE mapping[p][i] \in phys
    OBVIOUS
  <2>1. mapping[p] \in Units
    BY DEF CoreInv, TypeOK
  <2>2. mapping[p][i] \in Handles
    BY <2>1, UnitTypes
  <2> QED
    BY <2>2 DEF CoreInv, UnitsInv
<1>5. \A h \in Handles : h \in phys' <=>
         \E p \in Ptrs : \E i \in DOMAIN mapping'[p] : mapping'[p][i] = h
  <2> SUFFICES ASSUME NEW h \in Handles
               PROVE  h \in phys' <=> \E p \in Ptrs : \E i \in DOMAIN mapping'[p] : mapping'[p][i] = h
    OBVIOUS
  <2>1. h \in phys' <=> h \in phys \/ \E i \in DOMAIN handles : handles[i] = h
    BY <1>3 DEF RangeOf
  <2>2. h \in phys <=> \E p \in Ptrs : p # p0 /\ \E i \in DOMAIN mapping[p] : mapping[p][i] = h
    BY DEF CoreInv, UnitsInv
  <2> QED
    BY <1>3, <2>1, <2>2
<1>6. \A p, q \in Ptrs : \A i \in DOMAIN mapping'[p], j \in DOMAIN mapping'[q] :
         mapping'[p][i] = mapping'[q][j] => p = q /\ i = j
  BY <1>1, <1>2, <1>3, <1>4 DEF CoreInv, UnitsInv
<1>7. mapping' \in [Ptrs -> Units \cup {<<>>}] /\ phys' \subseteq Handles
  BY <1>1, <1>3 DEF CoreInv, TypeOK
<1> QED
  BY <1>5, <1>6, <1>7 DEF UnitsInv

------------------------------------------------------------------------------
(* Steps *)

\* The process ends: nothing else changes.
LEMMA ExitStep ==
  ASSUME CoreInv, NEW reason \in {"check", "failed", "not_active", "not_paused", "not_allocated"},
         Exit(reason)
  PROVE  CoreInv'
<1>1. TypeOK'
  BY DEF CoreInv, TypeOK, Exit, device, lock, local
<1>2. LockInv'
  BY DEF CoreInv, TypeOK, LockInv, Tracked, Matches, Exit, device, lock, local
<1>3. RangesInv'
  BY DEF CoreInv, TypeOK, RangesInv, Tracked, Alone, Holding, MappingOf, EntryShape, Exit, device,
     lock, local
<1>4. UnitsInv'
  BY DEF CoreInv, TypeOK, UnitsInv, Exit, device, lock, local
<1>5. BuffersInv'
  BY DEF CoreInv, TypeOK, BuffersInv, Tracked, Freeing, HasBackup, Exit, device, lock, local
<1>6. ClientInv'
  BY DEF CoreInv, TypeOK, ClientInv, Tracked, Pausing, InCall, Matches, NoDriverError, Exit,
     device, lock, local
<1> QED
  BY <1>1, <1>2, <1>3, <1>4, <1>5, <1>6 DEF CoreInv

\* malloc makes its entry.
LEMMA RegisterStep ==
  ASSUME CoreInv, NEW t \in Threads, MallocRegister(t)
  PROVE  CoreInv'
<1>1. TypeOK'
  BY NullAssumption, HeldTypes DEF CoreInv, TypeOK, MallocRegister, Return, Goto, device, lock, local
<1>2. LockInv'
  BY NullAssumption, HeldTypes DEF CoreInv, TypeOK, LockInv, Tracked, Matches, MallocRegister,
     Return, Goto, device, lock, local
<1>3. RangesInv'
  BY NullAssumption, HeldTypes DEF CoreInv, TypeOK, RangesInv, Tracked, Alone, Holding, MappingOf,
     EntryShape, MallocRegister, Return, Goto, device, lock, local
<1>4. UnitsInv'
  BY NullAssumption, HeldTypes DEF CoreInv, TypeOK, UnitsInv, MallocRegister, Return, Goto,
     device, lock, local
<1>5. BuffersInv'
  <2> DEFINE p0 == ptr[t]
  <2>1. p0 \in Ptrs /\ md[t] \in Metadata /\ md[t] # Null /\ md[t].cpu_backup = Null
    BY HeldTypes, NullAssumption DEF CoreInv, RangesInv, MallocRegister
  <2>2. md[t].state = "ACTIVE" /\ meta[p0] = Null
    BY HeldTypes DEF CoreInv, RangesInv, MallocRegister
  <2>3. /\ meta' = [meta EXCEPT ![p0] = md[t]] /\ owned' = owned \cup {p0} /\ hostData' = hostData
        /\ meta'[p0] = md[t] /\ \A p \in Ptrs : p # p0 => meta'[p] = meta[p]
    BY <2>1 DEF CoreInv, TypeOK, MallocRegister
  <2>4. Tracked' = Tracked \cup {p0} /\ p0 \notin Tracked
    BY <2>1, <2>2, <2>3 DEF Tracked
  <2>5. /\ Freeing' = Freeing /\ \A u \in Freeing : md'[u] = md[u]
        /\ \A u \in Threads : pc'[u] = "q_read" =>
              pc[u] = "q_read" /\ ptr'[u] = ptr[u] /\ view'[u] = view[u]
    BY DEF CoreInv, TypeOK, Freeing, MallocRegister, Return, Goto
  <2> HIDE DEF p0
  <2> QED
    BY <2>1, <2>2, <2>3, <2>4, <2>5 DEF CoreInv, BuffersInv, HasBackup
<1>6. ClientInv'
  <2>1. ptr[t] \in Ptrs /\ \A u \in Threads : pc[u] = "f_lookup" => ptr[u] # ptr[t]
    BY HeldTypes DEF CoreInv, RangesInv, Alone, MallocRegister
  <2> QED
    BY <2>1 DEF CoreInv, TypeOK, ClientInv, Tracked, Pausing, InCall, Matches, NoDriverError,
                MallocRegister, Return, Goto, device
<1> QED
  BY <1>1, <1>2, <1>3, <1>4, <1>5, <1>6 DEF CoreInv

\* A client frees what it owns.
LEMMA FreeCallStep ==
  ASSUME CoreInv, NEW t \in Threads, NEW p \in Ptrs, FreeCall(t, p)
  PROVE  CoreInv'
<1>1. TypeOK'
  BY NullAssumption DEF CoreInv, TypeOK, FreeCall, Freeable, Goto, device, lock, local
<1>2. LockInv'
  BY NullAssumption DEF CoreInv, TypeOK, LockInv, Tracked, Matches, FreeCall, Freeable, Goto,
     device, lock, local
<1>3. RangesInv'
  BY NullAssumption DEF CoreInv, TypeOK, RangesInv, Tracked, Alone, Holding, MappingOf,
     EntryShape, FreeCall, Freeable, Goto, device, lock, local
<1>4. UnitsInv'
  BY NullAssumption DEF CoreInv, TypeOK, UnitsInv, FreeCall, Freeable, Goto, device, lock, local
<1>5. BuffersInv'
  BY NullAssumption DEF CoreInv, TypeOK, BuffersInv, Tracked, Freeing, HasBackup, FreeCall,
     Freeable, Goto, device, lock, local
<1>6. ClientInv'
  BY NullAssumption DEF CoreInv, TypeOK, ClientInv, Tracked, Pausing, InCall, Matches,
     NoDriverError, FreeCall, Freeable, Goto, device, lock, local
<1> QED
  BY <1>1, <1>2, <1>3, <1>4, <1>5, <1>6 DEF CoreInv

\* free takes the entry over.
LEMMA FreeLookupStep ==
  ASSUME CoreInv, NEW t \in Threads, FreeLookup(t)
  PROVE  CoreInv'
<1>1. TypeOK'
  BY NullAssumption, HeldTypes DEF CoreInv, TypeOK, FreeLookup, Goto, device, lock, local
<1>2. LockInv'
  BY NullAssumption, HeldTypes DEF CoreInv, TypeOK, LockInv, Tracked, Matches, FreeLookup, Goto,
     device, lock, local
<1>3. RangesInv'
  BY NullAssumption, HeldTypes DEF CoreInv, TypeOK, RangesInv, Tracked, Alone, Holding, MappingOf,
     EntryShape, FreeLookup, Goto, device, lock, local
<1>4. UnitsInv'
  BY NullAssumption, HeldTypes DEF CoreInv, TypeOK, UnitsInv, FreeLookup, Goto, device, lock, local
<1>5. BuffersInv'
  <2> DEFINE p0 == ptr[t]
  <2>1. p0 \in Ptrs /\ p0 \in Tracked /\ meta[p0] \in Metadata /\ meta[p0] # Null /\ p0 \notin owned
    BY HeldTypes DEF CoreInv, TypeOK, Tracked, FreeLookup
  <2>2. /\ meta'[p0] = Null /\ \A p \in Ptrs : p # p0 => meta'[p] = meta[p]
        /\ owned' = owned /\ hostData' = hostData
    BY <2>1 DEF CoreInv, TypeOK, FreeLookup
  <2>3. Tracked' = Tracked \ {p0}
    BY <2>1, <2>2 DEF Tracked
  <2>4. /\ Freeing' = Freeing \cup {t} /\ t \notin Freeing
        /\ md'[t] = meta[p0] /\ \A u \in Freeing : md'[u] = md[u]
    BY DEF CoreInv, TypeOK, Freeing, FreeLookup, Goto
  <2>5. \A u \in Threads : pc'[u] = "q_read" =>
            pc[u] = "q_read" /\ ptr'[u] = ptr[u] /\ view'[u] = view[u]
    BY DEF CoreInv, TypeOK, FreeLookup, Goto
  <2> HIDE DEF p0
  <2>6. \A b \in Bufs : hostData'[b] # Null =>
           \/ \E p \in Tracked' : meta'[p].cpu_backup = b
           \/ \E u \in Freeing' : md'[u].cpu_backup = b
    <3> SUFFICES ASSUME NEW b \in Bufs, hostData[b] # Null
                 PROVE  \/ \E p \in Tracked' : meta'[p].cpu_backup = b
                        \/ \E u \in Freeing' : md'[u].cpu_backup = b
      BY <2>2
    <3>1. CASE \E u \in Freeing : md[u].cpu_backup = b
      BY <3>1, <2>4
    <3>2. CASE \E p \in Tracked : meta[p].cpu_backup = b
      <4>1. PICK p \in Tracked : meta[p].cpu_backup = b
        BY <3>2
      <4>2. CASE p = p0
        BY <4>1, <4>2, <2>4
      <4>3. CASE p # p0
        BY <4>1, <4>3, <2>2, <2>3 DEF Tracked
      <4> QED
        BY <4>2, <4>3
    <3> QED
      BY <3>1, <3>2 DEF CoreInv, BuffersInv
  <2>7. /\ \A p \in Tracked' : p \in Tracked /\ p # p0 /\ meta'[p] = meta[p]
        /\ \A p \in Tracked : p # p0 => p \in Tracked' /\ meta'[p] = meta[p]
    BY <2>2, <2>3 DEF Tracked
  <2>8. \A p \in Tracked' : HasBackup(meta[p])' /\ HasBackup(meta[p])
    BY <2>2, <2>7 DEF CoreInv, BuffersInv, HasBackup
  <2>9. \A u \in Freeing' : HasBackup(md[u])'
    BY <2>1, <2>2, <2>4 DEF CoreInv, BuffersInv, HasBackup
  <2>10. \A u \in Freeing' : \A p \in Tracked' :
            md'[u].cpu_backup # Null => md'[u].cpu_backup # meta'[p].cpu_backup
    BY <2>1, <2>4, <2>7 DEF CoreInv, BuffersInv
  <2>11. \A u, v \in Freeing' :
            md'[u].cpu_backup # Null /\ md'[u].cpu_backup = md'[v].cpu_backup => u = v
    BY <2>1, <2>4 DEF CoreInv, BuffersInv
  <2>12. \A u \in Threads : pc'[u] = "q_read" =>
            ptr'[u] \in Tracked' \cap owned' /\ view'[u] = meta'[ptr'[u]].cpu_backup /\ view'[u] # Null
    BY <2>1, <2>2, <2>5, <2>7 DEF CoreInv, BuffersInv
  <2> QED
    BY <2>6, <2>7, <2>8, <2>9, <2>10, <2>11, <2>12 DEF CoreInv, BuffersInv
<1>6. ClientInv'
  <2>1. ptr[t] \in Ptrs /\ ptr[t] \in Tracked /\ md'[t] = meta[ptr[t]]
    BY HeldTypes DEF CoreInv, TypeOK, Tracked, FreeLookup
  <2>2. "paused" \notin ClientMay => md'[t].state = "ACTIVE"
    BY <2>1 DEF CoreInv, ClientInv, FreeLookup
  <2>3. \A u \in Threads : pc[u] = "f_lookup" /\ u # t => ptr[u] # ptr[t]
    BY DEF CoreInv, RangesInv, Alone, FreeLookup
  <2>4. \A p \in Ptrs : p # ptr[t] => meta'[p] = meta[p]
    BY <2>1 DEF CoreInv, TypeOK, FreeLookup
  <2> QED
    BY <2>2, <2>3, <2>4, HeldTypes
    DEF CoreInv, TypeOK, ClientInv, Tracked, Pausing, InCall, Matches, NoDriverError, FreeLookup,
        Goto, device
<1> QED
  BY <1>1, <1>2, <1>3, <1>4, <1>5, <1>6 DEF CoreInv

\* free gives chunks and address back.
LEMMA FreeDeviceStep ==
  ASSUME CoreInv, NEW t \in Threads, FreeDevice(t)
  PROVE  CoreInv'
<1>1. TypeOK'
  <2>1. ptr[t] \in Ptrs /\ content' \in [Handles -> Data] /\ phys' \subseteq Handles
    BY HeldTypes DEF CoreInv, TypeOK, FreeDevice, UnmapChunks, Unmap, Data
  <2> QED
    BY <2>1 DEF CoreInv, TypeOK, FreeDevice, UnmapChunks, Unmap, Goto, lock, local
<1>2. LockInv'
  BY NullAssumption, HeldTypes DEF CoreInv, TypeOK, LockInv, Tracked, Matches, FreeDevice, Unmap,
     UnmapChunks, RangeOf, Goto, device, lock, local
<1>3. RangesInv'
  BY NullAssumption, HeldTypes DEF CoreInv, TypeOK, RangesInv, Tracked, Alone, Holding, MappingOf,
     EntryShape, FreeDevice, Unmap, UnmapChunks, RangeOf, Goto, device, lock, local
<1>4. UnitsInv'
  <2>1. CASE mapping[ptr[t]] = md[t].allocHandles
    <3>1. ptr[t] \in Ptrs /\ phys' = phys \ RangeOf(mapping[ptr[t]])
      BY <2>1, HeldTypes DEF FreeDevice, UnmapChunks, Unmap
    <3>2. mapping'[ptr[t]] = <<>> /\ \A p \in Ptrs : p # ptr[t] => mapping'[p] = mapping[p]
      BY <2>1, <3>1 DEF CoreInv, TypeOK, FreeDevice, UnmapChunks, Unmap
    <3> QED
      BY <3>1, <3>2, UnitsFreed DEF CoreInv
  <2>2. CASE mapping[ptr[t]] # md[t].allocHandles
    BY <2>2 DEF CoreInv, UnitsInv, FreeDevice, UnmapChunks, Unmap
  <2> QED
    BY <2>1, <2>2
<1>5. BuffersInv'
  BY NullAssumption, HeldTypes DEF CoreInv, TypeOK, BuffersInv, Tracked, Freeing, HasBackup,
     FreeDevice, Unmap, UnmapChunks, RangeOf, Goto, device, lock, local
<1>6. ClientInv'
  <2>1. "paused" \notin ClientMay => mapping[ptr[t]] = md[t].allocHandles
    BY DEF CoreInv, ClientInv, RangesInv, Holding, MappingOf, FreeDevice
  <2> QED
    BY <2>1 DEF CoreInv, TypeOK, ClientInv, Tracked, Pausing, InCall, Matches, NoDriverError,
                FreeDevice, UnmapChunks, Unmap, Goto, lock, local
<1> QED
  BY <1>1, <1>2, <1>3, <1>4, <1>5, <1>6 DEF CoreInv

\* free gives the host buffer back.
LEMMA FreeBackupStep ==
  ASSUME CoreInv, NEW t \in Threads, FreeBackup(t)
  PROVE  CoreInv'
<1>1. TypeOK'
  BY NullAssumption, HeldTypes DEF CoreInv, TypeOK, FreeBackup, Return, Goto, device, lock, local
<1>2. LockInv'
  BY NullAssumption, HeldTypes DEF CoreInv, TypeOK, LockInv, Tracked, Matches, FreeBackup, Return,
     Goto, device, lock, local
<1>3. RangesInv'
  BY NullAssumption, HeldTypes DEF CoreInv, TypeOK, RangesInv, Tracked, Alone, Holding, MappingOf,
     EntryShape, FreeBackup, Return, Goto, device, lock, local
<1>4. UnitsInv'
  BY NullAssumption, HeldTypes DEF CoreInv, TypeOK, UnitsInv, FreeBackup, Return, Goto, device,
     lock, local
<1>5. BuffersInv'
  <2> DEFINE b0 == md[t].cpu_backup
  <2>1. /\ Tracked' = Tracked /\ meta' = meta /\ owned' = owned
        /\ Freeing' = Freeing \ {t} /\ t \in Freeing
        /\ \A u \in Freeing : u # t => md'[u] = md[u]
        /\ \A u \in Threads : pc'[u] = "q_read" =>
              pc[u] = "q_read" /\ ptr'[u] = ptr[u] /\ view'[u] = view[u]
    BY DEF CoreInv, TypeOK, Tracked, Freeing, FreeBackup, Return, Goto
  <2>2. \A b \in Bufs : hostData'[b] = IF b = b0 THEN Null ELSE hostData[b]
    BY DEF FreeBackup
  <2>3. /\ \A p \in Tracked : b0 # Null => meta[p].cpu_backup # b0
        /\ \A u \in Freeing : u # t /\ b0 # Null => md[u].cpu_backup # b0
    BY <2>1 DEF CoreInv, BuffersInv
  <2>4. /\ \A p \in Tracked : meta[p].cpu_backup \in Bufs \cup {Null}
        /\ \A u \in Freeing : md[u].cpu_backup \in Bufs \cup {Null}
    BY HeldTypes DEF CoreInv, TypeOK, Tracked, Freeing, Metadata
  <2>5. Null \notin Bufs
    BY NullAssumption
  <2> HIDE DEF b0
  <2>6. \A p \in Tracked : HasBackup(meta[p])'
    BY <2>1, <2>2, <2>3, <2>4, <2>5 DEF CoreInv, BuffersInv, HasBackup
  <2>7. \A u \in Freeing : u # t => HasBackup(md[u])'
    BY <2>1, <2>2, <2>3, <2>4, <2>5 DEF CoreInv, BuffersInv, HasBackup
  <2>8. \A b \in Bufs : hostData'[b] # Null =>
           \/ \E p \in Tracked : meta[p].cpu_backup = b
           \/ \E u \in Freeing \ {t} : md[u].cpu_backup = b
    BY <2>1, <2>2 DEF CoreInv, BuffersInv, b0
  <2> QED
    BY <2>1, <2>6, <2>7, <2>8 DEF CoreInv, BuffersInv
<1>6. ClientInv'
  BY NullAssumption, HeldTypes DEF CoreInv, TypeOK, ClientInv, Tracked, Pausing, InCall, Matches,
     NoDriverError, FreeBackup, Return, Goto, device, lock, local
<1> QED
  BY <1>1, <1>2, <1>3, <1>4, <1>5, <1>6 DEF CoreInv

\* A pause begins.
LEMMA PauseCallStep ==
  ASSUME CoreInv, NEW t \in Threads, NEW tagFilter \in Tags \cup {Null}, PauseCall(t, tagFilter)
  PROVE  CoreInv'
<1>1. TypeOK'
  BY NullAssumption DEF CoreInv, TypeOK, PauseCall, Goto, device, lock, local
<1>2. LockInv'
  BY NullAssumption DEF CoreInv, TypeOK, LockInv, Tracked, Matches, PauseCall, Goto, device, lock,
     local
<1>3. RangesInv'
  BY NullAssumption DEF CoreInv, TypeOK, RangesInv, Tracked, Alone, Holding, MappingOf,
     EntryShape, PauseCall, Goto, device, lock, local
<1>4. UnitsInv'
  BY NullAssumption DEF CoreInv, TypeOK, UnitsInv, PauseCall, Goto, device, lock, local
<1>5. BuffersInv'
  BY NullAssumption DEF CoreInv, TypeOK, BuffersInv, Tracked, Freeing, HasBackup, PauseCall, Goto,
     device, lock, local
<1>6. ClientInv'
  BY NullAssumption DEF CoreInv, TypeOK, ClientInv, Tracked, Pausing, InCall, Matches,
     NoDriverError, PauseCall, Goto, device, lock, local
<1> QED
  BY <1>1, <1>2, <1>3, <1>4, <1>5, <1>6 DEF CoreInv

\* A resume begins.
LEMMA ResumeCallStep ==
  ASSUME CoreInv, NEW t \in Threads, NEW tagFilter \in Tags \cup {Null}, ResumeCall(t, tagFilter)
  PROVE  CoreInv'
<1>1. TypeOK'
  BY NullAssumption DEF CoreInv, TypeOK, ResumeCall, Goto, device, lock, local
<1>2. LockInv'
  BY NullAssumption DEF CoreInv, TypeOK, LockInv, Tracked, Matches, ResumeCall, Goto, device,
     lock, local
<1>3. RangesInv'
  BY NullAssumption DEF CoreInv, TypeOK, RangesInv, Tracked, Alone, Holding, MappingOf,
     EntryShape, ResumeCall, Goto, device, lock, local
<1>4. UnitsInv'
  BY NullAssumption DEF CoreInv, TypeOK, UnitsInv, ResumeCall, Goto, device, lock, local
<1>5. BuffersInv'
  BY NullAssumption DEF CoreInv, TypeOK, BuffersInv, Tracked, Freeing, HasBackup, ResumeCall,
     Goto, device, lock, local
<1>6. ClientInv'
  BY NullAssumption DEF CoreInv, TypeOK, ClientInv, Tracked, Pausing, InCall, Matches,
     NoDriverError, ResumeCall, Goto, device, lock, local
<1> QED
  BY <1>1, <1>2, <1>3, <1>4, <1>5, <1>6 DEF CoreInv

\* A pause gets the lock.
LEMMA EnterPauseStep ==
  ASSUME CoreInv, NEW t \in Threads, EnterLoop(t, "p_lock", "p_loop")
  PROVE  CoreInv'
<1>1. TypeOK'
  BY NullAssumption DEF CoreInv, TypeOK, Tracked, EnterLoop, Goto, device, lock, local
<1>2. LockInv'
  BY NullAssumption DEF CoreInv, TypeOK, LockInv, Tracked, Matches, EnterLoop, Goto, device, lock,
     local
<1>3. RangesInv'
  BY NullAssumption DEF CoreInv, TypeOK, RangesInv, Tracked, Alone, Holding, MappingOf,
     EntryShape, EnterLoop, Goto, device, lock, local
<1>4. UnitsInv'
  BY NullAssumption DEF CoreInv, TypeOK, UnitsInv, EnterLoop, Goto, device, lock, local
<1>5. BuffersInv'
  BY NullAssumption DEF CoreInv, TypeOK, BuffersInv, Tracked, Freeing, HasBackup, EnterLoop, Goto,
     device, lock, local
<1>6. ClientInv'
  BY NullAssumption DEF CoreInv, TypeOK, ClientInv, Tracked, Pausing, InCall, Matches,
     NoDriverError, EnterLoop, Goto, device, lock, local
<1> QED
  BY <1>1, <1>2, <1>3, <1>4, <1>5, <1>6 DEF CoreInv

\* A resume gets the lock.
LEMMA EnterResumeStep ==
  ASSUME CoreInv, NEW t \in Threads, EnterLoop(t, "r_lock", "r_loop")
  PROVE  CoreInv'
<1>1. TypeOK'
  BY NullAssumption DEF CoreInv, TypeOK, Tracked, EnterLoop, Goto, device, lock, local
<1>2. LockInv'
  BY NullAssumption DEF CoreInv, TypeOK, LockInv, Tracked, Matches, EnterLoop, Goto, device, lock,
     local
<1>3. RangesInv'
  BY NullAssumption DEF CoreInv, TypeOK, RangesInv, Tracked, Alone, Holding, MappingOf,
     EntryShape, EnterLoop, Goto, device, lock, local
<1>4. UnitsInv'
  BY NullAssumption DEF CoreInv, TypeOK, UnitsInv, EnterLoop, Goto, device, lock, local
<1>5. BuffersInv'
  BY NullAssumption DEF CoreInv, TypeOK, BuffersInv, Tracked, Freeing, HasBackup, EnterLoop, Goto,
     device, lock, local
<1>6. ClientInv'
  BY NullAssumption DEF CoreInv, TypeOK, ClientInv, Tracked, Pausing, InCall, Matches,
     NoDriverError, EnterLoop, Goto, device, lock, local
<1> QED
  BY <1>1, <1>2, <1>3, <1>4, <1>5, <1>6 DEF CoreInv

\* A loop ends.
LEMMA LeaveStep ==
  ASSUME CoreInv, NEW t \in Threads, NEW from \in {"p_loop", "r_loop"}, LeaveLoop(t, from)
  PROVE  CoreInv'
<1>1. TypeOK'
  BY NullAssumption DEF CoreInv, TypeOK, LeaveLoop, Return, Goto, device, lock, local
<1>2. LockInv'
  BY NullAssumption DEF CoreInv, TypeOK, LockInv, Tracked, Matches, LeaveLoop, Return, Goto,
     device, lock, local
<1>3. RangesInv'
  BY NullAssumption DEF CoreInv, TypeOK, RangesInv, Tracked, Alone, Holding, MappingOf,
     EntryShape, LeaveLoop, Return, Goto, device, lock, local
<1>4. UnitsInv'
  BY NullAssumption DEF CoreInv, TypeOK, UnitsInv, LeaveLoop, Return, Goto, device, lock, local
<1>5. BuffersInv'
  BY NullAssumption DEF CoreInv, TypeOK, BuffersInv, Tracked, Freeing, HasBackup, LeaveLoop,
     Return, Goto, device, lock, local
<1>6. ClientInv'
  BY NullAssumption DEF CoreInv, TypeOK, ClientInv, Tracked, Pausing, InCall, Matches,
     NoDriverError, LeaveLoop, Return, Goto, device, lock, local
<1> QED
  BY <1>1, <1>2, <1>3, <1>4, <1>5, <1>6 DEF CoreInv

\* A client asks for a backup.
LEMMA QueryStep ==
  ASSUME CoreInv, NEW t \in Threads, NEW p \in Ptrs, QueryFound(t, p)
  PROVE  CoreInv'
<1>1. TypeOK'
  BY NullAssumption DEF CoreInv, TypeOK, Tracked, Metadata, QueryFound, Goto, device, lock, local
<1>2. LockInv'
  BY NullAssumption DEF CoreInv, TypeOK, LockInv, Tracked, Matches, QueryFound, Goto, device,
     lock, local
<1>3. RangesInv'
  BY NullAssumption DEF CoreInv, TypeOK, RangesInv, Tracked, Alone, Holding, MappingOf,
     EntryShape, QueryFound, Goto, device, lock, local
<1>4. UnitsInv'
  BY NullAssumption DEF CoreInv, TypeOK, UnitsInv, QueryFound, Goto, device, lock, local
<1>5. BuffersInv'
  BY NullAssumption DEF CoreInv, TypeOK, BuffersInv, Tracked, Freeing, HasBackup, QueryFound,
     Goto, device, lock, local
<1>6. ClientInv'
  BY NullAssumption DEF CoreInv, TypeOK, ClientInv, Tracked, Pausing, InCall, Matches,
     NoDriverError, QueryFound, Goto, device, lock, local
<1> QED
  BY <1>1, <1>2, <1>3, <1>4, <1>5, <1>6 DEF CoreInv

\* The client has read it.
LEMMA QueryDoneStep ==
  ASSUME CoreInv, NEW t \in Threads, QueryDone(t)
  PROVE  CoreInv'
<1>1. TypeOK'
  BY NullAssumption DEF CoreInv, TypeOK, QueryDone, Return, Goto, device, lock, local
<1>2. LockInv'
  BY NullAssumption DEF CoreInv, TypeOK, LockInv, Tracked, Matches, QueryDone, Return, Goto,
     device, lock, local
<1>3. RangesInv'
  BY NullAssumption DEF CoreInv, TypeOK, RangesInv, Tracked, Alone, Holding, MappingOf,
     EntryShape, QueryDone, Return, Goto, device, lock, local
<1>4. UnitsInv'
  BY NullAssumption DEF CoreInv, TypeOK, UnitsInv, QueryDone, Return, Goto, device, lock, local
<1>5. BuffersInv'
  BY NullAssumption DEF CoreInv, TypeOK, BuffersInv, Tracked, Freeing, HasBackup, QueryDone,
     Return, Goto, device, lock, local
<1>6. ClientInv'
  BY NullAssumption DEF CoreInv, TypeOK, ClientInv, Tracked, Pausing, InCall, Matches,
     NoDriverError, QueryDone, Return, Goto, device, lock, local
<1> QED
  BY <1>1, <1>2, <1>3, <1>4, <1>5, <1>6 DEF CoreInv

\* malloc makes the chunks.
LEMMA CreateStep ==
  ASSUME CoreInv, NEW t \in Threads, NEW tag \in Tags, NEW backup \in Backups, NEW raw \in Requests,
         NEW g \in Granularities, MallocCreate(t, tag, backup, raw, AlignedSize(raw, g))
  PROVE  CoreInv'
<1> DEFINE n == AlignedSize(raw, g)
<1>a. n \in AlignedSizes /\ NumChunks(n) \in ChunkCounts /\ raw <= NumChunks(n) * Chunk
  BY RequestChunks, ChunkCountTypes
<1> HIDE DEF n
<1>b. PICK p \in Ptrs \ reserved, handles \in NewUnits(NumChunks(n)) :
         /\ MapChunks(p, handles) /\ reserved' = reserved \cup {p}
         /\ md' = [md EXCEPT ![t] = [tag |-> tag, state |-> "ACTIVE", backup |-> backup,
                                     raw_size |-> raw, aligned_size |-> n,
                                     cpu_backup |-> Null, allocHandles |-> handles]]
         /\ ptr' = [ptr EXCEPT ![t] = p]
  BY DEF MallocCreate, n
<1>c. /\ handles \in [1 .. NumChunks(n) -> Handles] /\ handles \in Units /\ handles # <<>>
      /\ Len(handles) = NumChunks(n)
  BY <1>a, NewUnitTypes
<1>d. /\ mapping[p] = <<>> /\ meta[p] = Null /\ p \notin owned
      /\ mapping'[p] = handles /\ \A q \in Ptrs : q # p => mapping'[q] = mapping[q]
      /\ md'[t] \in Metadata /\ EntryShape(md'[t])
  BY <1>a, <1>b, <1>c DEF CoreInv, TypeOK, RangesInv, Tracked, MapChunks, Metadata, EntryShape
<1>e. UnitsInv' /\ mapping' \in [Ptrs -> Units \cup {<<>>}] /\ phys' \subseteq Handles
  BY <1>a, <1>b, <1>d, UnitsMapped
<1>1. TypeOK'
  BY <1>b, <1>d, <1>e DEF CoreInv, TypeOK, MallocCreate, Goto, lock
<1>2. LockInv'
  BY NullAssumption, <1>a, <1>b, <1>c, <1>d DEF CoreInv, TypeOK, LockInv, Tracked, Matches,
     MallocCreate, Goto, device, lock, local
<1>3. RangesInv'
  BY NullAssumption, <1>a, <1>b, <1>c, <1>d DEF CoreInv, TypeOK, RangesInv, Tracked, Alone,
     Holding, MappingOf, EntryShape, MallocCreate, Goto, device, lock, local
<1>4. UnitsInv'
  BY <1>e
<1>5. BuffersInv'
  BY NullAssumption, <1>a, <1>b, <1>c, <1>d DEF CoreInv, TypeOK, BuffersInv, Tracked, Freeing,
     HasBackup, MallocCreate, Goto, device, lock, local
<1>6. ClientInv'
  BY NullAssumption, <1>a, <1>b, <1>c, <1>d DEF CoreInv, TypeOK, ClientInv, Tracked, Pausing,
     InCall, Matches, NoDriverError, MallocCreate, Goto, device, lock, local
<1> QED
  BY <1>1, <1>2, <1>3, <1>4, <1>5, <1>6 DEF CoreInv

\* Memory that is not tracked.
LEMMA UntrackedStep ==
  ASSUME CoreInv, NEW t \in Threads, UntrackedMalloc(t)
  PROVE  CoreInv'
<1>b. PICK p \in Ptrs \ reserved, handles \in NewUnits(1) :
         MapChunks(p, handles) /\ reserved' = reserved \cup {p} /\ owned' = owned \cup {p}
  BY DEF UntrackedMalloc
<1>d. /\ mapping[p] = <<>> /\ meta[p] = Null /\ p \notin owned
      /\ mapping'[p] = handles /\ \A q \in Ptrs : q # p => mapping'[q] = mapping[q]
  BY <1>b DEF CoreInv, TypeOK, RangesInv, Tracked, MapChunks
<1>e. UnitsInv' /\ mapping' \in [Ptrs -> Units \cup {<<>>}] /\ phys' \subseteq Handles
  BY <1>b, <1>d, UnitsMapped
<1>1. TypeOK'
  BY <1>b, <1>d, <1>e DEF CoreInv, TypeOK, UntrackedMalloc, lock, local
<1>2. LockInv'
  BY NullAssumption, <1>b, <1>d DEF CoreInv, TypeOK, LockInv, Tracked, Matches, UntrackedMalloc,
     device, lock, local
<1>3. RangesInv'
  BY NullAssumption, <1>b, <1>d DEF CoreInv, TypeOK, RangesInv, Tracked, Alone, Holding,
     MappingOf, EntryShape, UntrackedMalloc, device, lock, local
<1>4. UnitsInv'
  BY <1>e
<1>5. BuffersInv'
  BY NullAssumption, <1>b, <1>d DEF CoreInv, TypeOK, BuffersInv, Tracked, Freeing, HasBackup,
     UntrackedMalloc, device, lock, local
<1>6. ClientInv'
  BY NullAssumption, <1>b, <1>d DEF CoreInv, TypeOK, ClientInv, Tracked, Pausing, InCall, Matches,
     NoDriverError, UntrackedMalloc, device, lock, local
<1> QED
  BY <1>1, <1>2, <1>3, <1>4, <1>5, <1>6 DEF CoreInv

\* A client writes.
LEMMA WriteStep ==
  ASSUME CoreInv, NEW p \in Ptrs, NEW v \in Values, NEW i \in DOMAIN mapping[p], Write(p, i, v)
  PROVE  CoreInv'
<1>1. TypeOK'
  BY DEF CoreInv, TypeOK, Data, Write, lock, local
<1>2. LockInv'
  BY DEF CoreInv, TypeOK, LockInv, Tracked, Matches, Write, lock, local
<1>3. RangesInv'
  BY DEF CoreInv, TypeOK, RangesInv, Tracked, Alone, Holding, MappingOf, EntryShape, Write, lock,
     local
<1>4. UnitsInv'
  BY DEF CoreInv, TypeOK, UnitsInv, Write, lock, local
<1>5. BuffersInv'
  BY DEF CoreInv, TypeOK, BuffersInv, Tracked, Freeing, HasBackup, Write, lock, local
<1>6. ClientInv'
  BY DEF CoreInv, TypeOK, ClientInv, Tracked, Pausing, InCall, Matches, NoDriverError, Write,
     lock, local
<1> QED
  BY <1>1, <1>2, <1>3, <1>4, <1>5, <1>6 DEF CoreInv

\* What a loop looks at is an entry that its filter selects.
LEMMA VisitedTypes ==
  ASSUME CoreInv, NEW t \in Threads, pc[t] \in {"p_loop", "r_loop"}, NEW p \in todo
  PROVE  /\ p \in Ptrs /\ p \in Tracked /\ meta[p] \in Metadata /\ mutex = t
         /\ EntryShape(meta[p]) /\ mapping[p] = MappingOf(meta[p]) /\ HasBackup(meta[p])
         /\ Matches(meta[p], filter[t]) /\ p \in reserved
<1>1. mutex = t /\ p \in Tracked /\ Matches(meta[p], filter[t])
  BY DEF CoreInv, LockInv
<1>2. EntryShape(meta[p]) /\ mapping[p] = MappingOf(meta[p]) /\ p \in reserved
  BY <1>1 DEF CoreInv, RangesInv
<1>3. HasBackup(meta[p]) /\ p \in Ptrs /\ meta[p] \in Metadata
  BY <1>1 DEF CoreInv, TypeOK, BuffersInv, Tracked
<1> QED
  BY <1>1, <1>2, <1>3

\* A host buffer that an entry has is in use.
LEMMA BackupNotNull ==
  ASSUME NEW m \in Metadata, HasBackup(m), m.cpu_backup # Null
  PROVE  hostData[m.cpu_backup] # Null
<1>1. NumChunks(m.aligned_size) \in ChunkCounts
  BY ChunkCountTypes DEF Metadata
<1>2. hostData[m.cpu_backup] \in Contents
  BY <1>1 DEF HasBackup, Contents
<1> QED
  BY <1>2, NullAssumption

\* What the chunks of a range hold is what its host buffer has room for.
LEMMA ContainedTypes ==
  ASSUME CoreInv, NEW m \in Metadata, EntryShape(m)
  PROVE  /\ Contained(m.allocHandles) \in [1 .. NumChunks(m.aligned_size) -> Data]
         /\ Contained(m.allocHandles) \in Contents
<1>1. m.allocHandles \in [1 .. NumChunks(m.aligned_size) -> Handles]
  BY DEF EntryShape
<1>2. NumChunks(m.aligned_size) \in ChunkCounts
  BY ChunkCountTypes DEF Metadata
<1>3. Contained(m.allocHandles) \in [1 .. NumChunks(m.aligned_size) -> Data]
  BY <1>1 DEF Contained, CoreInv, TypeOK
<1> QED
  BY <1>2, <1>3 DEF Contents

\* What pause does to one entry.
LEMMA PauseEntryEffect ==
  ASSUME CoreInv, NEW t \in Threads, NEW p \in todo, PauseEntry(t, p)
  PROVE  /\ p \in Ptrs /\ p \in Tracked /\ meta[p] \in Metadata /\ mutex = t
         /\ meta[p].state = "ACTIVE" /\ EntryShape(meta[p]) /\ mapping[p] = meta[p].allocHandles
         /\ HasBackup(meta[p]) /\ Matches(meta[p], filter[t]) /\ meta[p] # Null
         /\ phys' = phys \ RangeOf(mapping[p]) /\ mapping' = [mapping EXCEPT ![p] = <<>>]
         /\ mapping'[p] = <<>> /\ \A q \in Ptrs : q # p => mapping'[q] = mapping[q]
         /\ content' = [h \in Handles |-> IF h \in RangeOf(mapping[p]) THEN Junk ELSE content[h]]
         /\ exited' = exited
         /\ meta'[p] \in Metadata /\ \A q \in Ptrs : q # p => meta'[q] = meta[q]
         /\ meta' \in [Ptrs -> Metadata \cup {Null}] /\ meta'[p] # Null
         /\ meta'[p].state = "PAUSED" /\ meta'[p].tag = meta[p].tag
         /\ meta'[p].backup = meta[p].backup
         /\ meta'[p].raw_size = meta[p].raw_size /\ meta'[p].aligned_size = meta[p].aligned_size
         /\ meta'[p].allocHandles = meta[p].allocHandles
         /\ meta[p].backup # "cpu" => meta'[p].cpu_backup = meta[p].cpu_backup /\ hostData' = hostData
         /\ Tracked' = Tracked /\ todo' = todo \ {p}
         /\ UNCHANGED <<reserved, mutex, pc, filter, ptr, md, view, owned>>
<1> DEFINE m == meta[p]
<1>a. /\ p \in Ptrs /\ p \in Tracked /\ m \in Metadata /\ mutex = t /\ m.state = "ACTIVE"
      /\ EntryShape(m) /\ mapping[p] = m.allocHandles /\ HasBackup(m) /\ Matches(m, filter[t])
      /\ m # Null
  BY VisitedTypes, NullAssumption DEF PauseEntry, MappingOf
<1>b. /\ phys' = phys \ RangeOf(mapping[p]) /\ mapping' = [mapping EXCEPT ![p] = <<>>]
      /\ mapping'[p] = <<>> /\ \A q \in Ptrs : q # p => mapping'[q] = mapping[q]
      /\ content' = [h \in Handles |-> IF h \in RangeOf(mapping[p]) THEN Junk ELSE content[h]]
      /\ exited' = exited
  BY <1>a DEF CoreInv, TypeOK, PauseEntry, UnmapChunks, Unmap
<1>c. /\ meta'[p] \in Metadata /\ \A q \in Ptrs : q # p => meta'[q] = meta[q]
      /\ meta' \in [Ptrs -> Metadata \cup {Null}] /\ meta'[p] # Null
      /\ meta'[p].state = "PAUSED" /\ meta'[p].tag = m.tag /\ meta'[p].backup = m.backup
      /\ meta'[p].raw_size = m.raw_size /\ meta'[p].aligned_size = m.aligned_size
      /\ meta'[p].allocHandles = m.allocHandles
      /\ m.backup # "cpu" => meta'[p].cpu_backup = m.cpu_backup /\ hostData' = hostData
  <2>1. CASE m.backup = "cpu"
    <3>1. PICK b \in BufferFor(m) : meta' = [meta EXCEPT ![p].cpu_backup = b, ![p].state = "PAUSED"]
      BY <2>1 DEF PauseEntry
    <3>2. b \in Bufs
      BY <1>a DEF BufferFor, Metadata
    <3>3. meta'[p] = [m EXCEPT !.cpu_backup = b, !.state = "PAUSED"]
      BY <3>1, <1>a DEF CoreInv, TypeOK
    <3>4. meta'[p] \in Metadata
      BY <3>2, <3>3, <1>a DEF Metadata
    <3> HIDE DEF m
    <3> QED
      BY <2>1, <3>1, <3>3, <3>4, <1>a, NullAssumption DEF CoreInv, TypeOK, Metadata
  <2>2. CASE m.backup # "cpu"
    <3>1. meta' = [meta EXCEPT ![p].state = "PAUSED"]
      BY <2>2 DEF PauseEntry
    <3>2. meta'[p] = [m EXCEPT !.state = "PAUSED"]
      BY <3>1, <1>a DEF CoreInv, TypeOK
    <3>3. meta'[p] \in Metadata
      BY <3>2, <1>a DEF Metadata
    <3> HIDE DEF m
    <3>4. hostData' = hostData
      BY <2>2 DEF PauseEntry, m
    <3> QED
      BY <3>1, <3>2, <3>3, <3>4, <1>a, NullAssumption DEF CoreInv, TypeOK, Metadata
  <2> QED
    BY <2>1, <2>2
<1>d. /\ Tracked' = Tracked /\ todo' = todo \ {p}
      /\ UNCHANGED <<reserved, mutex, pc, filter, ptr, md, view, owned>>
  BY <1>a, <1>c DEF Tracked, PauseEntry, local
<1> QED
  BY <1>a, <1>b, <1>c, <1>d

\* pause takes the memory of one entry.
LEMMA PauseEntryStep ==
  ASSUME CoreInv, NEW t \in Threads, NEW p \in todo, PauseEntry(t, p)
  PROVE  CoreInv'
<1> DEFINE m == meta[p]
<1>a. /\ p \in Ptrs /\ p \in Tracked /\ m \in Metadata /\ mutex = t /\ m.state = "ACTIVE"
      /\ EntryShape(m) /\ mapping[p] = m.allocHandles /\ HasBackup(m) /\ Matches(m, filter[t])
      /\ m # Null
  BY PauseEntryEffect
<1>b. /\ phys' = phys \ RangeOf(mapping[p]) /\ mapping' = [mapping EXCEPT ![p] = <<>>]
      /\ mapping'[p] = <<>> /\ \A q \in Ptrs : q # p => mapping'[q] = mapping[q]
      /\ content' \in [Handles -> Data] /\ exited' = exited
  BY PauseEntryEffect DEF CoreInv, TypeOK, Data
<1>c. /\ meta'[p] \in Metadata /\ \A q \in Ptrs : q # p => meta'[q] = meta[q]
      /\ meta' \in [Ptrs -> Metadata \cup {Null}] /\ meta'[p] # Null
      /\ meta'[p].state = "PAUSED" /\ meta'[p].tag = m.tag /\ meta'[p].backup = m.backup
      /\ meta'[p].raw_size = m.raw_size /\ meta'[p].aligned_size = m.aligned_size
      /\ meta'[p].allocHandles = m.allocHandles
  BY PauseEntryEffect
<1>d. /\ Tracked' = Tracked /\ todo' = todo \ {p}
      /\ UNCHANGED <<reserved, mutex, pc, filter, ptr, md, view, owned>>
  BY PauseEntryEffect
<1>e. EntryShape(meta'[p])
  BY <1>a, <1>c DEF EntryShape
<1> HIDE DEF m
<1>1. TypeOK'
  <2>1. hostData' \in [Bufs -> Contents \cup {Null}]
    <3>1. Contained(mapping[p]) \in Contents
      BY <1>a, ContainedTypes
    <3>2. \A b \in BufferFor(meta[p]) : b \in Bufs
      BY <1>a DEF BufferFor, Metadata, m
    <3> QED
      BY <3>1, <3>2 DEF CoreInv, TypeOK, PauseEntry
  <2> QED
    BY <2>1, <1>b, <1>c, <1>d DEF CoreInv, TypeOK
<1>2. LockInv'
  BY <1>a, <1>c, <1>d DEF CoreInv, LockInv, Matches, Tracked, m
<1>3. RangesInv'
  <2>1. \A u \in Holding : ptr[u] # p
    BY <1>a DEF CoreInv, RangesInv
  <2>2. /\ Holding' = Holding /\ Alone' = Alone
        /\ \A u \in Holding : ptr[u] \in Ptrs
    BY <1>d, HeldTypes DEF Holding, Alone
  <2>3. MappingOf(meta[p])' = <<>>
    BY <1>c DEF MappingOf
  <2>4. \A q \in Tracked : EntryShape(meta[q])' /\ mapping'[q] = MappingOf(meta[q])'
    <3> SUFFICES ASSUME NEW q \in Tracked PROVE EntryShape(meta[q])' /\ mapping'[q] = MappingOf(meta[q])'
      OBVIOUS
    <3>1. CASE q = p
      BY <3>1, <1>b, <1>e, <2>3 DEF EntryShape
    <3>2. CASE q # p
      <4>1. q \in Ptrs
        BY DEF Tracked
      <4> QED
        BY <4>1, <3>2, <1>b, <1>c DEF CoreInv, RangesInv, EntryShape, MappingOf
    <3> QED
      BY <3>1, <3>2
  <2>5. \A u \in Holding : mapping'[ptr[u]] = MappingOf(md[u])
    BY <1>b, <2>1, <2>2 DEF CoreInv, RangesInv
  <2> QED
    BY <1>a, <1>b, <1>d, <2>2, <2>4, <2>5 DEF CoreInv, RangesInv, MappingOf, EntryShape
<1>4. UnitsInv'
  BY <1>a, <1>b, UnitsFreed DEF m
<1>5. BuffersInv'
  <2>1. Freeing' = Freeing /\ md' = md /\ meta'[p].backup = m.backup
    BY <1>c, <1>d DEF Freeing
  <2>2. Null \notin Bufs /\ Null \notin Contents
    BY NullAssumption
  <2>3. CASE m.backup = "cpu"
    <3>1. PICK b \in BufferFor(m) :
             /\ hostData' = [hostData EXCEPT ![b] = Contained(m.allocHandles)]
             /\ meta' = [meta EXCEPT ![p].cpu_backup = b, ![p].state = "PAUSED"]
      BY <2>3, <1>a DEF PauseEntry, m
    <3>2. /\ b \in Bufs /\ meta'[p].cpu_backup = b /\ b # Null
          /\ m.cpu_backup # Null => m.cpu_backup = b
          /\ m.cpu_backup = Null => hostData[b] = Null
      BY <3>1, <1>a, <2>2 DEF CoreInv, TypeOK, BufferFor, Metadata, m
    <3>3. /\ hostData'[b] = Contained(m.allocHandles)
          /\ \A c \in Bufs : c # b => hostData'[c] = hostData[c]
      BY <3>1, <3>2 DEF CoreInv, TypeOK
    <3>4. Contained(m.allocHandles) \in [1 .. NumChunks(m.aligned_size) -> Data] /\ hostData'[b] # Null
      BY <1>a, <2>2, <3>3, ContainedTypes
    <3>5. /\ \A q \in Tracked : q # p => meta[q].cpu_backup # b
          /\ \A u \in Freeing : md[u].cpu_backup # b
      <4>1. CASE m.cpu_backup # Null
        BY <4>1, <3>2, <1>a DEF CoreInv, BuffersInv, m
      <4>2. CASE m.cpu_backup = Null
        <5>1. hostData[b] = Null /\ b # Null
          BY <4>2, <3>2
        <5>2. \A q \in Tracked : meta[q] \in Metadata /\ HasBackup(meta[q])
          BY DEF CoreInv, TypeOK, BuffersInv, Tracked
        <5>3. \A u \in Freeing : md[u] \in Metadata /\ HasBackup(md[u])
          BY HeldTypes DEF CoreInv, BuffersInv, Freeing
        <5> QED
          BY <5>1, <5>2, <5>3, BackupNotNull
      <4> QED
        BY <4>1, <4>2
    <3>6. \A c \in Bufs : hostData'[c] # Null =>
             \/ \E q \in Tracked : meta'[q].cpu_backup = c
             \/ \E u \in Freeing : md[u].cpu_backup = c
      <4> SUFFICES ASSUME NEW c \in Bufs, hostData'[c] # Null, c # b
                   PROVE  \/ \E q \in Tracked : meta'[q].cpu_backup = c
                          \/ \E u \in Freeing : md[u].cpu_backup = c
        BY <3>2, <1>a
      <4>1. \A q \in Tracked : meta[q].cpu_backup = c => meta'[q].cpu_backup = c
        BY <3>2, <1>c, <2>2 DEF Tracked, m
      <4> QED
        BY <4>1, <3>3 DEF CoreInv, BuffersInv
    <3>7. \A q \in Tracked : HasBackup(meta[q])'
      <4>1. HasBackup(meta[p])'
        BY <3>2, <3>3, <3>4, <1>c DEF HasBackup
      <4>2. ASSUME NEW q \in Tracked, q # p PROVE HasBackup(meta[q])'
        <5>1. meta'[q] = meta[q] /\ meta[q].cpu_backup # b /\ HasBackup(meta[q])
          BY <4>2, <3>5, <1>c DEF CoreInv, BuffersInv, Tracked
        <5>2. meta[q].cpu_backup \in Bufs \cup {Null}
          BY DEF CoreInv, TypeOK, Metadata, Tracked
        <5> QED
          BY <5>1, <5>2, <3>3 DEF HasBackup
      <4> QED
        BY <4>1, <4>2
    <3>8. \A u \in Freeing : HasBackup(md[u])'
      <4> SUFFICES ASSUME NEW u \in Freeing PROVE HasBackup(md[u])'
        OBVIOUS
      <4>1. HasBackup(md[u]) /\ md[u].cpu_backup \in Bufs \cup {Null} /\ md[u].cpu_backup # b
        BY <3>5, HeldTypes DEF CoreInv, BuffersInv, Freeing, Metadata
      <4> QED
        BY <4>1, <2>1, <3>3 DEF HasBackup
    <3>9. \A q, r \in Tracked :
             meta'[q].cpu_backup # Null /\ meta'[q].cpu_backup = meta'[r].cpu_backup => q = r
      BY <3>2, <3>5, <1>c DEF CoreInv, BuffersInv, Tracked
    <3>10. \A u \in Freeing : \A q \in Tracked :
             md[u].cpu_backup # Null => md[u].cpu_backup # meta'[q].cpu_backup
      BY <3>2, <3>5, <1>c DEF CoreInv, BuffersInv, Tracked
    <3>11. \A u \in Threads : pc[u] = "q_read" => view[u] = meta'[ptr[u]].cpu_backup
      BY <3>2, <1>c DEF CoreInv, BuffersInv, Tracked, m
    <3>12. meta'[p].cpu_backup # Null
      BY <3>2
    <3> QED
      BY <2>1, <1>c, <1>d, <3>6, <3>7, <3>8, <3>9, <3>10, <3>11, <3>12 DEF CoreInv, BuffersInv,
         Tracked
  <2>4. CASE m.backup # "cpu"
    <3>1. hostData' = hostData /\ meta'[p].cpu_backup = m.cpu_backup
      BY <2>4, <1>a DEF CoreInv, TypeOK, PauseEntry, Metadata, m
    <3>2. \A q \in Tracked : meta'[q].cpu_backup = meta[q].cpu_backup
                             /\ meta'[q].aligned_size = meta[q].aligned_size
      BY <3>1, <1>c DEF Tracked, m
    <3>3. \A q \in Tracked : HasBackup(meta[q])'
      BY <3>1, <3>2 DEF CoreInv, BuffersInv, HasBackup
    <3>4. \A u \in Freeing : HasBackup(md[u])'
      BY <3>1, <2>1 DEF CoreInv, BuffersInv, HasBackup
    <3>5. \A q \in Tracked : meta'[q].state = "PAUSED" /\ meta'[q].backup = "cpu" => meta'[q].cpu_backup # Null
      BY <2>1, <2>4, <1>c DEF CoreInv, BuffersInv, Tracked
    <3> QED
      BY <2>1, <1>d, <3>1, <3>2, <3>3, <3>4, <3>5 DEF CoreInv, BuffersInv
  <2> QED
    BY <2>3, <2>4
<1>6. ClientInv'
  <2>1. t \in Pausing(m)
    BY <1>a DEF Pausing, InCall, PauseEntry
  <2>2. "paused" \notin ClientMay => \A u \in Threads : pc[u] = "f_lookup" => ptr[u] # p
    BY <1>a, <2>1 DEF CoreInv, ClientInv, m
  <2>3. \A u \in Threads : pc[u] = "f_lookup" => ptr[u] \in Ptrs
    BY HeldTypes
  <2> QED
    BY <1>b, <1>c, <1>d, <2>2, <2>3 DEF CoreInv, ClientInv, NoDriverError, Pausing, InCall, Matches
<1> QED
  BY <1>1, <1>2, <1>3, <1>4, <1>5, <1>6 DEF CoreInv

\* What resume does to one entry, with every field of the new entry.
ResumedAs(t, p, handles) ==
    /\ p \in Ptrs /\ p \in Tracked /\ meta[p] \in Metadata /\ mutex = t
    /\ meta[p].state = "PAUSED" /\ EntryShape(meta[p]) /\ mapping[p] = <<>>
    /\ HasBackup(meta[p]) /\ Matches(meta[p], filter[t]) /\ p \in reserved /\ meta[p] # Null
    /\ NumChunks(meta[p].aligned_size) \in ChunkCounts
    /\ MapChunks(p, handles)
    /\ content' = IF meta[p].backup = "cpu"
                  THEN [h \in Handles |->
                          IF \E i \in DOMAIN handles : handles[i] = h
                          THEN hostData[meta[p].cpu_backup][CHOOSE i \in DOMAIN handles : handles[i] = h]
                          ELSE content[h]]
                  ELSE content
    /\ handles \in [1 .. NumChunks(meta[p].aligned_size) -> Handles] /\ handles \in Units
    /\ handles # <<>> /\ Len(handles) = NumChunks(meta[p].aligned_size)
    /\ UnitsInv' /\ mapping' \in [Ptrs -> Units \cup {<<>>}] /\ phys' \subseteq Handles
    /\ mapping'[p] = handles
    /\ \A q \in Ptrs : q # p => mapping'[q] = mapping[q] /\ meta'[q] = meta[q]
    /\ meta'[p] \in Metadata
    /\ meta'[p].state = "ACTIVE" /\ meta'[p].tag = meta[p].tag
    /\ meta'[p].backup = meta[p].backup /\ meta'[p].cpu_backup = meta[p].cpu_backup
    /\ meta'[p].raw_size = meta[p].raw_size /\ meta'[p].aligned_size = meta[p].aligned_size
    /\ meta'[p].allocHandles = handles
    /\ meta' \in [Ptrs -> Metadata \cup {Null}] /\ Tracked' = Tracked
    /\ todo' = todo \ {p} /\ hostData' = hostData /\ exited' = exited
    /\ UNCHANGED <<reserved, mutex, pc, filter, ptr, md, view, owned>>

LEMMA ResumeEntryEffect ==
  ASSUME CoreInv, NEW t \in Threads, NEW p \in todo, ResumeEntry(t, p)
  PROVE  \E handles \in NewUnits(NumChunks(meta[p].aligned_size)) : ResumedAs(t, p, handles)
<1> DEFINE m == meta[p]
           n == NumChunks(m.aligned_size)
<1>a. /\ p \in Ptrs /\ p \in Tracked /\ m \in Metadata /\ mutex = t /\ m.state = "PAUSED"
      /\ EntryShape(m) /\ mapping[p] = <<>> /\ HasBackup(m) /\ Matches(m, filter[t])
      /\ p \in reserved /\ m # Null
  BY VisitedTypes, NullAssumption DEF ResumeEntry, MappingOf
<1>b. n \in ChunkCounts
  BY <1>a, ChunkCountTypes DEF Metadata
<1>c. PICK handles \in NewUnits(n) :
         /\ MapChunks(p, handles)
         /\ content' = IF m.backup = "cpu"
                       THEN [h \in Handles |->
                               IF \E i \in DOMAIN handles : handles[i] = h
                               THEN hostData[m.cpu_backup][CHOOSE i \in DOMAIN handles : handles[i] = h]
                               ELSE content[h]]
                       ELSE content
         /\ meta' = [meta EXCEPT ![p] = Resumed(m, handles)]
  BY DEF ResumeEntry
<1>d. /\ handles \in [1 .. n -> Handles] /\ handles \in Units /\ handles # <<>>
      /\ Len(handles) = n
  BY <1>b, <1>c, NewUnitTypes
<1>e. UnitsInv' /\ mapping' \in [Ptrs -> Units \cup {<<>>}] /\ phys' \subseteq Handles
  BY <1>a, <1>b, <1>c, UnitsMapped
<1>f. /\ mapping'[p] = handles /\ \A q \in Ptrs : q # p => mapping'[q] = mapping[q] /\ meta'[q] = meta[q]
      /\ meta'[p] = [m EXCEPT !.state = "ACTIVE", !.allocHandles = handles]
      /\ meta'[p] \in Metadata
  BY <1>a, <1>c, <1>d DEF CoreInv, TypeOK, MapChunks, Resumed, Metadata
<1>g. /\ meta'[p].state = "ACTIVE" /\ meta'[p].tag = m.tag /\ meta'[p].backup = m.backup
      /\ meta'[p].cpu_backup = m.cpu_backup /\ meta'[p].raw_size = m.raw_size
      /\ meta'[p].aligned_size = m.aligned_size /\ meta'[p].allocHandles = handles
  BY <1>a, <1>f DEF Metadata
<1>h. /\ meta' \in [Ptrs -> Metadata \cup {Null}] /\ Tracked' = Tracked
  BY <1>a, <1>c, <1>f, NullAssumption DEF CoreInv, TypeOK, Tracked
<1>i. /\ todo' = todo \ {p} /\ hostData' = hostData /\ exited' = exited
      /\ UNCHANGED <<reserved, mutex, pc, filter, ptr, md, view, owned>>
  BY DEF ResumeEntry, local
<1> QED
  BY <1>a, <1>b, <1>c, <1>d, <1>e, <1>f, <1>g, <1>h, <1>i DEF ResumedAs

\* resume gives an entry new chunks.
LEMMA ResumeEntryStep ==
  ASSUME CoreInv, NEW t \in Threads, NEW p \in todo, ResumeEntry(t, p)
  PROVE  CoreInv'
<1> DEFINE m == meta[p]
           n == NumChunks(m.aligned_size)
<1>r. PICK handles \in NewUnits(n) : ResumedAs(t, p, handles)
  BY ResumeEntryEffect
<1>0. /\ p \in Ptrs /\ p \in Tracked /\ m \in Metadata /\ mutex = t
      /\ m.state = "PAUSED" /\ EntryShape(m) /\ mapping[p] = <<>>
      /\ HasBackup(m) /\ Matches(m, filter[t]) /\ p \in reserved /\ m # Null
      /\ n \in ChunkCounts
      /\ content' = IF m.backup = "cpu"
                    THEN [h \in Handles |->
                            IF \E i \in DOMAIN handles : handles[i] = h
                            THEN hostData[m.cpu_backup][CHOOSE i \in DOMAIN handles : handles[i] = h]
                            ELSE content[h]]
                    ELSE content
      /\ handles \in [1 .. n -> Handles] /\ handles \in Units /\ handles # <<>> /\ Len(handles) = n
      /\ UnitsInv' /\ mapping' \in [Ptrs -> Units \cup {<<>>}] /\ phys' \subseteq Handles
      /\ mapping'[p] = handles
      /\ \A q \in Ptrs : q # p => mapping'[q] = mapping[q] /\ meta'[q] = meta[q]
      /\ meta'[p] \in Metadata
      /\ meta'[p].state = "ACTIVE" /\ meta'[p].tag = m.tag /\ meta'[p].backup = m.backup
      /\ meta'[p].cpu_backup = m.cpu_backup /\ meta'[p].raw_size = m.raw_size
      /\ meta'[p].aligned_size = m.aligned_size /\ meta'[p].allocHandles = handles
      /\ meta' \in [Ptrs -> Metadata \cup {Null}] /\ Tracked' = Tracked
      /\ todo' = todo \ {p} /\ hostData' = hostData /\ exited' = exited
      /\ UNCHANGED <<reserved, mutex, pc, filter, ptr, md, view, owned>>
  BY <1>r DEF ResumedAs
<1>j. /\ EntryShape(meta'[p]) /\ Len(m.allocHandles) = n
  <2>1. Len(m.allocHandles) = n
    BY <1>0, ChunkCountTypes DEF EntryShape
  <2> QED
    BY <1>0, <2>1 DEF EntryShape
<1> HIDE DEF m, n
<1>1. TypeOK'
  <2>1. content' \in [Handles -> Data]
    <3>1. CASE m.backup = "cpu"
      <4>1. hostData[m.cpu_backup] \in [1 .. n -> Data]
        BY <3>1, <1>0 DEF CoreInv, BuffersInv, HasBackup, m, n
      <4>2. \A h \in Handles : (\E i \in DOMAIN handles : handles[i] = h) =>
               (CHOOSE i \in DOMAIN handles : handles[i] = h) \in 1 .. n
        BY <1>0
      <4> QED
        BY <3>1, <1>0, <4>1, <4>2 DEF CoreInv, TypeOK
    <3> QED
      BY <3>1, <1>0 DEF CoreInv, TypeOK
  <2> QED
    BY <2>1, <1>0 DEF CoreInv, TypeOK
<1>2. LockInv'
  BY <1>0 DEF CoreInv, LockInv, Matches, Tracked, m
<1>3. RangesInv'
  <2>1. \A u \in Holding : ptr[u] # p
    BY <1>0 DEF CoreInv, RangesInv
  <2>2. /\ Holding' = Holding /\ Alone' = Alone
        /\ \A u \in Holding : ptr[u] \in Ptrs
    BY <1>0, HeldTypes DEF Holding, Alone
  <2>3. \A q \in Tracked : EntryShape(meta[q])' /\ mapping'[q] = MappingOf(meta[q])'
    <3> SUFFICES ASSUME NEW q \in Tracked PROVE EntryShape(meta[q])' /\ mapping'[q] = MappingOf(meta[q])'
      OBVIOUS
    <3>1. CASE q = p
      BY <3>1, <1>0, <1>j DEF EntryShape, MappingOf
    <3>2. CASE q # p
      <4>1. q \in Ptrs
        BY DEF Tracked
      <4> QED
        BY <4>1, <3>2, <1>0 DEF CoreInv, RangesInv, EntryShape, MappingOf
    <3> QED
      BY <3>1, <3>2
  <2>4. \A u \in Holding : mapping'[ptr[u]] = MappingOf(md[u])
    BY <1>0, <2>1, <2>2 DEF CoreInv, RangesInv
  <2> QED
    BY <1>0, <2>2, <2>3, <2>4 DEF CoreInv, RangesInv, MappingOf, EntryShape
<1>4. UnitsInv'
  BY <1>0
<1>5. BuffersInv'
  <2>1. Freeing' = Freeing /\ md' = md
    BY <1>0 DEF Freeing
  <2>2. \A q \in Tracked : meta'[q].cpu_backup = meta[q].cpu_backup
                           /\ meta'[q].aligned_size = meta[q].aligned_size
    BY <1>0 DEF Tracked, m
  <2>3. \A q \in Tracked : HasBackup(meta[q])'
    BY <1>0, <2>2 DEF CoreInv, BuffersInv, HasBackup
  <2>4. \A u \in Freeing : HasBackup(md[u])'
    BY <1>0, <2>1 DEF CoreInv, BuffersInv, HasBackup
  <2>5. \A q \in Tracked : meta'[q].state = "PAUSED" /\ meta'[q].backup = "cpu" => meta'[q].cpu_backup # Null
    BY <1>0 DEF CoreInv, BuffersInv, Tracked
  <2> QED
    BY <1>0, <2>1, <2>2, <2>3, <2>4, <2>5 DEF CoreInv, BuffersInv
<1>6. ClientInv'
  <2>1. \A u \in Threads : pc[u] = "f_lookup" => ptr[u] \in Ptrs
    BY HeldTypes
  <2>2. \A q \in Tracked : Pausing(meta[q])' = Pausing(meta[q])
                           /\ (meta[q].state = "ACTIVE" => meta'[q].state = "ACTIVE")
    <3> SUFFICES ASSUME NEW q \in Tracked
                 PROVE  Pausing(meta[q])' = Pausing(meta[q])
                        /\ (meta[q].state = "ACTIVE" => meta'[q].state = "ACTIVE")
      OBVIOUS
    <3>1. meta'[q].tag = meta[q].tag /\ (meta[q].state = "ACTIVE" => meta'[q].state = "ACTIVE")
      BY <1>0 DEF Tracked, m
    <3> QED
      BY <3>1, <1>0 DEF Pausing, InCall, Matches
  <2> QED
    BY <1>0, <2>1, <2>2 DEF CoreInv, ClientInv, NoDriverError, Tracked
<1> QED
  BY <1>1, <1>2, <1>3, <1>4, <1>5, <1>6 DEF CoreInv

------------------------------------------------------------------------------
(* Every step *)

\* Before the first call nothing is in use.
LEMMA InitCore == Init => CoreInv
<1> SUFFICES ASSUME Init PROVE CoreInv
  OBVIOUS
<1>1. TypeOK
  BY DEF Init, TypeOK, Data
<1>2. LockInv
  BY NullAssumption DEF Init, LockInv, Tracked
<1>3. RangesInv
  BY DEF Init, RangesInv, Tracked, Alone, Holding
<1>4. UnitsInv
  BY DEF Init, UnitsInv
<1>5. BuffersInv
  BY DEF Init, BuffersInv, Tracked, Freeing
<1>6. ClientInv
  BY DEF Init, ClientInv, NoDriverError
<1> QED
  BY <1>1, <1>2, <1>3, <1>4, <1>5, <1>6 DEF CoreInv

\* Every step of a call keeps the core of the invariant.
LEMMA StepCore ==
  ASSUME CoreInv, NEW t \in Threads, Step(t)
  PROVE  CoreInv'
<1>1. CASE MallocRegister(t)
  BY <1>1, RegisterStep
<1>2. CASE FreeUnknown(t)
  BY <1>2, ExitStep DEF FreeUnknown
<1>3. CASE FreeLookup(t)
  BY <1>3, FreeLookupStep
<1>4. CASE FreeDevice(t)
  BY <1>4, FreeDeviceStep
<1>5. CASE FreeBackup(t)
  BY <1>5, FreeBackupStep
<1>6. CASE EnterLoop(t, "p_lock", "p_loop") \/ EnterLoop(t, "r_lock", "r_loop")
  BY <1>6, EnterPauseStep, EnterResumeStep
<1>7. CASE LeaveLoop(t, "p_loop") \/ LeaveLoop(t, "r_loop")
  BY <1>7, LeaveStep
<1>8. CASE NotInState(t, "p_loop", "ACTIVE", "not_active") \/ NotInState(t, "r_loop", "PAUSED", "not_paused")
  BY <1>8, ExitStep DEF NotInState
<1>9. CASE \E p \in todo : PauseEntry(t, p) \/ ResumeEntry(t, p)
  BY <1>9, PauseEntryStep, ResumeEntryStep
<1>10. CASE QueryDone(t)
  BY <1>10, QueryDoneStep
<1> QED
  BY <1>1, <1>2, <1>3, <1>4, <1>5, <1>6, <1>7, <1>8, <1>9, <1>10 DEF Step

\* Every call a client makes keeps it.
LEMMA CallCore ==
  ASSUME CoreInv, NEW t \in Threads, Call(t)
  PROVE  CoreInv'
<1>1. CASE MallocRefused(t)
  BY <1>1, ExitStep DEF MallocRefused
<1>2. CASE UntrackedMalloc(t)
  BY <1>2, UntrackedStep
<1>3. CASE \E tag \in Tags, backup \in Backups, raw \in Requests, g \in Granularities :
              MallocCreate(t, tag, backup, raw, AlignedSize(raw, g))
  BY <1>3, CreateStep
<1>4. ASSUME NEW p \in Ptrs, FreeCall(t, p) \/ QueryFound(t, p) \/ QueryLostContent(t, p)
      PROVE  CoreInv'
  BY <1>4, FreeCallStep, QueryStep, ExitStep DEF QueryLostContent
<1>5. ASSUME NEW tagFilter \in Tags \cup {Null}, PauseCall(t, tagFilter) \/ ResumeCall(t, tagFilter)
      PROVE  CoreInv'
  BY <1>5, PauseCallStep, ResumeCallStep
<1> QED
  BY <1>1, <1>2, <1>3, <1>4, <1>5 DEF Call

\* And so does every step of the program.
LEMMA NextCore == CoreInv /\ [Next]_vars => CoreInv'
<1> SUFFICES ASSUME CoreInv, [Next]_vars PROVE CoreInv'
  OBVIOUS
<1>1. ASSUME NEW t \in Threads, CallFails(t) PROVE CoreInv'
  BY <1>1, ExitStep DEF CallFails
<1>2. CASE UNCHANGED vars
  <2>1. TypeOK'
    BY <1>2 DEF CoreInv, TypeOK, vars, device, lock, local
  <2>2. LockInv'
    BY <1>2 DEF CoreInv, TypeOK, LockInv, Tracked, Matches, vars, device, lock, local
  <2>3. RangesInv'
    BY <1>2 DEF CoreInv, TypeOK, RangesInv, Tracked, Alone, Holding, MappingOf, EntryShape, vars,
       device, lock, local
  <2>4. UnitsInv'
    BY <1>2 DEF CoreInv, TypeOK, UnitsInv, vars, device, lock, local
  <2>5. BuffersInv'
    BY <1>2 DEF CoreInv, TypeOK, BuffersInv, Tracked, Freeing, HasBackup, vars, device, lock, local
  <2>6. ClientInv'
    BY <1>2 DEF CoreInv, TypeOK, ClientInv, Tracked, Pausing, InCall, Matches, NoDriverError,
       vars, device, lock, local
  <2> QED
    BY <2>1, <2>2, <2>3, <2>4, <2>5, <2>6 DEF CoreInv
<1> QED
  BY <1>1, <1>2, StepCore, CallCore, WriteStep DEF Next, Terminated

------------------------------------------------------------------------------
(* Where the bytes are *)

LEMMA InitTensors == Init => TensorsInv
  BY DEF Init, TensorsInv, Tracked

\* No loop begins or moves on.
LoopsKept ==
    /\ todo' = todo
    /\ \A t \in Threads : pc'[t] \in {"p_loop", "r_loop"} => pc'[t] = pc[t] /\ filter'[t] = filter[t]

\* Units nobody has hold nothing.
UnusedKept == \A h \in Handles \ phys' : content'[h] = Junk

LEMMA KeptTensors ==
  ASSUME TensorsInv, LoopsKept, UnusedKept, meta' = meta
  PROVE  TensorsInv'
  BY DEF TensorsInv, LoopsKept, UnusedKept, Tracked, Matches

\* With the lock free there is no loop that a new entry could escape from.
LEMMA NoLoopTensors ==
  ASSUME CoreInv, TensorsInv, LoopsKept, UnusedKept, mutex = Null, NEW p \in Ptrs, NEW m,
         meta' = [meta EXCEPT ![p] = m], m # Null => m.cpu_backup = Null
  PROVE  TensorsInv'
<1>1. \A t \in Threads : pc'[t] \notin {"p_loop", "r_loop"}
  BY NullAssumption DEF CoreInv, LockInv, LoopsKept
<1>2. \A q \in Tracked' : meta'[q].backup = "none" => meta'[q].cpu_backup = Null
  BY DEF Tracked, TensorsInv, CoreInv, TypeOK
<1> QED
  BY <1>1, <1>2 DEF TensorsInv, UnusedKept

\* Units given back hold nothing any more.
LEMMA UnmapUnused ==
  ASSUME CoreInv, TensorsInv, NEW p, NEW handles, UnmapChunks(p, handles)
  PROVE  UnusedKept
  BY DEF UnmapChunks, Unmap, UnusedKept, TensorsInv, CoreInv, TypeOK

\* Steps that leave the device alone.
LEMMA SameUnused ==
  ASSUME TensorsInv, content' = content, phys \subseteq phys'
  PROVE  UnusedKept
  BY DEF UnusedKept, TensorsInv

LEMMA ExitTensors ==
  ASSUME TensorsInv, NEW reason, Exit(reason)
  PROVE  TensorsInv'
<1>1. LoopsKept /\ meta' = meta /\ content' = content /\ phys' = phys
  BY DEF Exit, LoopsKept, device, lock, local
<1> QED
  BY <1>1, SameUnused, KeptTensors

\* A loop that begins has visited nothing.
LEMMA EnterTensors ==
  ASSUME CoreInv, TensorsInv, NEW t \in Threads,
         EnterLoop(t, "p_lock", "p_loop") \/ EnterLoop(t, "r_lock", "r_loop")
  PROVE  TensorsInv'
<1>1. /\ mutex = Null /\ todo' = {p \in Tracked : Matches(meta[p], filter[t])}
      /\ UNCHANGED <<meta, content, phys, filter>>
      /\ \A u \in Threads : u # t => pc'[u] = pc[u]
  BY DEF EnterLoop, Goto, device, local, CoreInv, TypeOK
<1>2. \A u \in Threads : u # t => pc'[u] \notin {"p_loop", "r_loop"}
  BY <1>1, NullAssumption DEF CoreInv, LockInv
<1>3. \A p \in Tracked' : Matches(meta'[p], filter'[t]) => p \in todo'
  BY <1>1 DEF Tracked, Matches
<1> QED
  BY <1>1, <1>2, <1>3 DEF TensorsInv, Tracked

LEMMA PauseEntryTensors ==
  ASSUME CoreInv, TensorsInv, NEW t \in Threads, NEW p \in todo, PauseEntry(t, p)
  PROVE  TensorsInv'
<1>1. \A u \in Threads : pc'[u] \in {"p_loop", "r_loop"} => u = t /\ pc'[u] = "p_loop"
  BY PauseEntryEffect DEF PauseEntry, CoreInv, LockInv
<1>2. UnusedKept
  BY UnmapUnused DEF PauseEntry
<1>3. \A q \in Tracked' : meta'[q].backup = "none" => meta'[q].cpu_backup = Null
  BY PauseEntryEffect DEF TensorsInv, Tracked
<1>4. pc[t] = "p_loop" /\ filter' = filter /\ todo' = todo \ {p} /\ Tracked' = Tracked
      /\ meta'[p].state = "PAUSED" /\ \A q \in Ptrs : q # p => meta'[q] = meta[q]
  BY PauseEntryEffect DEF PauseEntry
<1>5. \A q \in Tracked' : q \notin todo' /\ Matches(meta'[q], filter'[t]) => meta'[q].state = "PAUSED"
  BY <1>4 DEF TensorsInv, Tracked
<1> QED
  BY <1>1, <1>2, <1>3, <1>5 DEF TensorsInv, UnusedKept

LEMMA ResumeEntryTensors ==
  ASSUME CoreInv, TensorsInv, NEW t \in Threads, NEW p \in todo, ResumeEntry(t, p)
  PROVE  TensorsInv'
<1>0. PICK handles \in NewUnits(NumChunks(meta[p].aligned_size)) : ResumedAs(t, p, handles)
  BY ResumeEntryEffect
<1>1. /\ pc[t] = "r_loop" /\ mutex = t /\ UNCHANGED <<pc, filter>>
      /\ todo' = todo \ {p} /\ Tracked' = Tracked /\ p \in Ptrs /\ p \in Tracked
      /\ meta'[p].state = "ACTIVE" /\ meta'[p].backup = meta[p].backup
      /\ meta'[p].cpu_backup = meta[p].cpu_backup
      /\ \A q \in Ptrs : q # p => meta'[q] = meta[q]
  BY <1>0 DEF ResumedAs, ResumeEntry
<1>2. \A u \in Threads : pc'[u] \in {"p_loop", "r_loop"} => u = t /\ pc'[u] = "r_loop"
  BY <1>1 DEF CoreInv, LockInv
<1>3. UnusedKept
  <2>1. phys' = phys \cup RangeOf(handles)
    BY <1>0 DEF ResumedAs, MapChunks
  <2>2. \A h \in Handles : h \notin RangeOf(handles) => content'[h] = content[h]
    BY <1>0 DEF ResumedAs, RangeOf
  <2> QED
    BY <2>1, <2>2 DEF UnusedKept, TensorsInv
<1>4. \A q \in Tracked' : meta'[q].backup = "none" => meta'[q].cpu_backup = Null
  BY <1>1 DEF TensorsInv, Tracked
<1>5. \A q \in Tracked' : q \notin todo' /\ Matches(meta'[q], filter'[t]) => meta'[q].state = "ACTIVE"
  BY <1>1 DEF TensorsInv, Tracked
<1> QED
  BY <1>2, <1>3, <1>4, <1>5 DEF TensorsInv, UnusedKept

LEMMA StepTensors ==
  ASSUME CoreInv, TensorsInv, NEW t \in Threads, Step(t)
  PROVE  TensorsInv'
<1> USE DEF Goto, Return, lock, local, device
<1>1. CASE MallocRegister(t)
  <2>1. LoopsKept /\ mutex = Null /\ meta' = [meta EXCEPT ![ptr[t]] = md[t]]
        /\ content' = content /\ phys' = phys
    BY <1>1 DEF MallocRegister, LoopsKept, CoreInv, TypeOK
  <2>2. ptr[t] \in Ptrs /\ md[t].cpu_backup = Null
    BY <1>1, HeldTypes DEF MallocRegister, CoreInv, RangesInv
  <2> QED
    BY <2>1, <2>2, SameUnused, NoLoopTensors
<1>2. CASE FreeUnknown(t)
  BY <1>2, ExitTensors DEF FreeUnknown
<1>3. CASE FreeLookup(t)
  <2>1. LoopsKept /\ mutex = Null /\ meta' = [meta EXCEPT ![ptr[t]] = Null]
        /\ content' = content /\ phys' = phys
    BY <1>3 DEF FreeLookup, LoopsKept, CoreInv, TypeOK
  <2>2. ptr[t] \in Ptrs
    BY <1>3, HeldTypes DEF FreeLookup
  <2> QED
    BY <2>1, <2>2, SameUnused, NoLoopTensors
<1>4. CASE FreeDevice(t)
  <2>1. LoopsKept /\ meta' = meta
    BY <1>4 DEF FreeDevice, LoopsKept, CoreInv, TypeOK
  <2> QED
    BY <1>4, <2>1, UnmapUnused, KeptTensors DEF FreeDevice
<1>5. CASE FreeBackup(t) \/ QueryDone(t)
  <2>1. LoopsKept /\ meta' = meta /\ content' = content /\ phys' = phys
    BY <1>5 DEF FreeBackup, QueryDone, LoopsKept, CoreInv, TypeOK
  <2> QED
    BY <2>1, SameUnused, KeptTensors
<1>6. CASE EnterLoop(t, "p_lock", "p_loop") \/ EnterLoop(t, "r_lock", "r_loop")
  BY <1>6, EnterTensors
<1>7. CASE LeaveLoop(t, "p_loop") \/ LeaveLoop(t, "r_loop")
  <2>1. LoopsKept /\ meta' = meta /\ content' = content /\ phys' = phys
    BY <1>7 DEF LeaveLoop, LoopsKept, CoreInv, TypeOK
  <2> QED
    BY <2>1, SameUnused, KeptTensors
<1>8. CASE NotInState(t, "p_loop", "ACTIVE", "not_active") \/ NotInState(t, "r_loop", "PAUSED", "not_paused")
  BY <1>8, ExitTensors DEF NotInState
<1>9. CASE \E p \in todo : PauseEntry(t, p) \/ ResumeEntry(t, p)
  BY <1>9, PauseEntryTensors, ResumeEntryTensors
<1> QED
  BY <1>1, <1>2, <1>3, <1>4, <1>5, <1>6, <1>7, <1>8, <1>9 DEF Step

LEMMA CallTensors ==
  ASSUME CoreInv, TensorsInv, NEW t \in Threads, Call(t)
  PROVE  TensorsInv'
<1> USE DEF Goto, lock, local, device
<1>1. CASE MallocRefused(t)
  BY <1>1, ExitTensors DEF MallocRefused
<1>2. CASE UntrackedMalloc(t)
  <2>1. LoopsKept /\ meta' = meta /\ content' = content /\ phys \subseteq phys'
    BY <1>2 DEF UntrackedMalloc, MapChunks, LoopsKept
  <2> QED
    BY <2>1, SameUnused, KeptTensors
<1>3. ASSUME NEW tag, NEW backup, NEW raw, NEW n, MallocCreate(t, tag, backup, raw, n)
      PROVE  TensorsInv'
  <2>1. LoopsKept /\ meta' = meta /\ content' = content /\ phys \subseteq phys'
    BY <1>3 DEF MallocCreate, MapChunks, LoopsKept, CoreInv, TypeOK
  <2> QED
    BY <2>1, SameUnused, KeptTensors
<1>4. ASSUME NEW p \in Ptrs, FreeCall(t, p) \/ QueryFound(t, p)
      PROVE  TensorsInv'
  <2>1. LoopsKept /\ meta' = meta /\ content' = content /\ phys \subseteq phys'
    BY <1>4 DEF FreeCall, QueryFound, LoopsKept, CoreInv, TypeOK
  <2> QED
    BY <2>1, SameUnused, KeptTensors
<1>5. ASSUME NEW p \in Ptrs, QueryLostContent(t, p)
      PROVE  TensorsInv'
  BY <1>5, ExitTensors DEF QueryLostContent
<1>6. ASSUME NEW tagFilter \in Tags \cup {Null}, PauseCall(t, tagFilter) \/ ResumeCall(t, tagFilter)
      PROVE  TensorsInv'
  <2>1. LoopsKept /\ meta' = meta /\ content' = content /\ phys \subseteq phys'
    BY <1>6 DEF PauseCall, ResumeCall, LoopsKept, CoreInv, TypeOK
  <2> QED
    BY <2>1, SameUnused, KeptTensors
<1> QED
  BY <1>1, <1>2, <1>3, <1>4, <1>5, <1>6 DEF Call

LEMMA NextTensors == CoreInv /\ TensorsInv /\ [Next]_vars => TensorsInv'
<1> SUFFICES ASSUME CoreInv, TensorsInv, [Next]_vars PROVE TensorsInv'
  OBVIOUS
<1>1. ASSUME NEW t \in Threads, CallFails(t)
      PROVE  TensorsInv'
  BY <1>1, ExitTensors DEF CallFails
<1>2. ASSUME NEW p \in Ptrs, NEW v \in Values, NEW i \in DOMAIN mapping[p], Write(p, i, v)
      PROVE  TensorsInv'
  <2>1. LoopsKept /\ meta' = meta /\ phys' = phys /\ content' = [content EXCEPT ![mapping[p][i]] = v]
    BY <1>2 DEF Write, LoopsKept, lock, local
  <2>2. mapping[p] \in Units
    BY DEF CoreInv, TypeOK
  <2>3. mapping[p][i] \in Handles
    BY <2>2, UnitTypes
  <2>4. mapping[p][i] \in phys
    BY <2>3 DEF CoreInv, UnitsInv
  <2>5. UnusedKept
    BY <2>1, <2>3, <2>4 DEF UnusedKept, TensorsInv, CoreInv, TypeOK
  <2> QED
    BY <2>1, <2>5, KeptTensors
<1>3. CASE UNCHANGED vars
  <2>1. LoopsKept /\ meta' = meta /\ content' = content /\ phys' = phys
    BY <1>3 DEF vars, device, lock, local, LoopsKept
  <2> QED
    BY <2>1, SameUnused, KeptTensors
<1> QED
  BY <1>1, <1>2, <1>3, StepTensors, CallTensors DEF Next, Terminated

------------------------------------------------------------------------------
(* The theorems *)

\* The inductive invariant of the chunked allocator holds in every state, for
\* any requests that fit the width (hardware_amd_support.cpp:128-345).
THEOREM Invariance == Spec => []IInv
<1>1. Init => IInv
  BY InitCore, InitTensors DEF IInv
<1>2. IInv /\ [Next]_vars => IInv'
  BY NextCore, NextTensors DEF IInv
<1> QED
  BY <1>1, <1>2, PTL DEF Spec

\* Every unit of device memory is a chunk of one range, and an entry knows its
\* chunks, which hold the request (hardware_amd_support.cpp:49-126, 149-150).
THEOREM ChunksCorrect == Spec => []ChunksAccounted
<1>1. IInv => ChunksAccounted
  <2> SUFFICES ASSUME IInv PROVE ChunksAccounted
    OBVIOUS
  <2>1. phys = UNION {RangeOf(mapping[p]) : p \in Ptrs}
    <3>1. \A p \in Ptrs : \A h \in RangeOf(mapping[p]) : h \in Handles
      <4> SUFFICES ASSUME NEW p \in Ptrs, NEW h \in RangeOf(mapping[p]) PROVE h \in Handles
        OBVIOUS
      <4>1. mapping[p] \in Units \cup {<<>>}
        BY DEF IInv, CoreInv, TypeOK
      <4>2. mapping[p] # <<>>
        BY DEF RangeOf
      <4> QED
        BY <4>1, <4>2, UnitTypes
    <3>2. \A h \in Handles : h \in phys <=> \E p \in Ptrs : h \in RangeOf(mapping[p])
      BY DEF IInv, CoreInv, UnitsInv, RangeOf
    <3>3. phys \subseteq Handles
      BY DEF IInv, CoreInv, TypeOK
    <3> QED
      BY <3>1, <3>2, <3>3
  <2>2. \A p, q \in Ptrs : p # q => RangeOf(mapping[p]) \cap RangeOf(mapping[q]) = {}
    BY DEF IInv, CoreInv, UnitsInv, RangeOf
  <2>3. \A p \in Tracked : /\ mapping[p] = IF meta[p].state = "ACTIVE" THEN meta[p].allocHandles ELSE <<>>
                           /\ meta[p].raw_size <= Len(meta[p].allocHandles) * Chunk
    BY DEF IInv, CoreInv, RangesInv, MappingOf, EntryShape
  <2> QED
    BY <2>1, <2>2, <2>3 DEF ChunksAccounted
<1> QED
  BY <1>1, Invariance, PTL

\* A host buffer in use is the backup of one entry, or of a free that took one
\* over, and stays while it is read (hardware_amd_support.cpp:236-239, 276-282).
THEOREM BuffersCorrect == Spec => []BuffersAccounted
<1>1. IInv => BuffersAccounted
  <2> SUFFICES ASSUME IInv PROVE BuffersAccounted
    OBVIOUS
  <2> DEFINE Holders == {meta[p] : p \in Tracked} \cup {md[t] : t \in Freeing}
  <2>1. \A m \in Holders : m \in Metadata /\ HasBackup(m)
    <3>1. \A p \in Tracked : meta[p] \in Metadata /\ HasBackup(meta[p])
      BY DEF IInv, CoreInv, TypeOK, BuffersInv, Tracked
    <3>2. \A t \in Freeing : md[t] \in Metadata /\ HasBackup(md[t])
      BY HeldTypes DEF IInv, CoreInv, BuffersInv, Freeing
    <3> QED
      BY <3>1, <3>2
  <2>2. \A b \in Bufs : hostData[b] # Null => \E m \in Holders : m.cpu_backup = b
    BY DEF IInv, CoreInv, BuffersInv
  <2>3. \A m \in Holders : m.cpu_backup # Null => m.cpu_backup \in Bufs /\ hostData[m.cpu_backup] # Null
    BY <2>1, BackupNotNull DEF Metadata
  <2>4. Null \notin Bufs
    BY NullAssumption
  <2>5. {b \in Bufs : hostData[b] # Null} = {m.cpu_backup : m \in Holders} \ {Null}
    <3> HIDE DEF Holders
    <3> QED
      BY <2>2, <2>3, <2>4
  <2>6. \A p, q \in Tracked : p # q /\ meta[p].cpu_backup # Null => meta[p].cpu_backup # meta[q].cpu_backup
    BY DEF IInv, CoreInv, BuffersInv
  <2>7. \A t \in Threads : pc[t] = "q_read" => hostData[view[t]] # Null
    BY <2>3 DEF IInv, CoreInv, BuffersInv
  <2> QED
    BY <2>5, <2>6, <2>7 DEF BuffersAccounted
<1> QED
  BY <1>1, Invariance, PTL

\* Clients that free active tensors only never make the driver refuse a call
\* (hardware_amd_support.cpp:230-234; the others do, which is a finding).
THEOREM ActiveFreesAccepted == "paused" \notin ClientMay => (Spec => []NoDriverError)
<1> SUFFICES ASSUME "paused" \notin ClientMay PROVE Spec => []NoDriverError
  OBVIOUS
<1>1. IInv => NoDriverError
  BY DEF IInv, CoreInv, ClientInv
<1> QED
  BY <1>1, Invariance, PTL
------------------------------------------------------------------------------
(* PauseableMemory: steps that no client can see *)

CallLabels == {"p_lock", "p_loop", "r_lock", "r_loop"}

\* No pause and no resume begins, ends or moves on.
CallsKept ==
    /\ todo' = todo
    /\ \A t \in Threads :
          /\ pc'[t] = pc[t] \/ (pc[t] \notin CallLabels /\ pc'[t] \notin CallLabels)
          /\ pc[t] \in CallLabels => filter'[t] = filter[t]

\* The bytes of the tensor at p stay where they are.
BytesKept(p) ==
    /\ mapping'[p] = mapping[p]
    /\ \A i \in DOMAIN mapping[p] : content'[mapping[p][i]] = content[mapping[p][i]]
    /\ meta[p].cpu_backup # Null => hostData'[meta[p].cpu_backup] = hostData[meta[p].cpu_backup]

TensorKept(p) == meta'[p] = meta[p] /\ (meta[p] # Null => BytesKept(p))

\* What a client sees of the step.
SameTensors  == \A p \in Ptrs : TensorAt(p)' = TensorAt(p)
SameRequests == \A t \in Threads : RequestOf(t)' = RequestOf(t)

\* A step that changes nothing a client can see is a stutter.
LEMMA Stutter ==
  ASSUME SameTensors, SameRequests, exited' = exited
  PROVE  UNCHANGED Memory!vars
  BY DEF SameTensors, SameRequests, Memory!vars, Tensors, Calls, Reason

LEMMA KeptRequests ==
  ASSUME CallsKept
  PROVE  SameRequests
  BY DEF CallsKept, CallLabels, SameRequests, RequestOf

\* The contents of chunks that keep their units and their bytes.
LEMMA KeptContained ==
  ASSUME NEW p, BytesKept(p)
  PROVE  Known(Contained(mapping[p]))' = Known(Contained(mapping[p]))
<1>1. Contained(mapping[p])' = Contained(mapping[p])
  BY DEF BytesKept, Contained
<1> QED
  BY <1>1 DEF Known

\* The entry of p and its bytes are kept, and the calls treat it as before.
LEMMA SameEntry ==
  ASSUME NEW p \in Ptrs, TensorKept(p),
         meta[p] # Null => /\ Visited("p_loop", p)' <=> Visited("p_loop", p)
                           /\ Visited("r_loop", p)' <=> Visited("r_loop", p)
                           /\ GivenUp(p)' <=> GivenUp(p)
  PROVE  TensorAt(p)' = TensorAt(p)
<1>1. meta'[p] = meta[p]
  BY DEF TensorKept
<1>2. meta[p] # Null => Bytes(p)' = Bytes(p)
  <2> SUFFICES ASSUME meta[p] # Null PROVE Bytes(p)' = Bytes(p)
    OBVIOUS
  <2>1. BytesKept(p)
    BY DEF TensorKept
  <2>2. Known(Contained(mapping[p]))' = Known(Contained(mapping[p])) /\ mapping'[p] = mapping[p]
    BY <2>1, KeptContained DEF BytesKept
  <2>3. meta[p].cpu_backup # Null =>
           Known(hostData[meta[p].cpu_backup])' = Known(hostData[meta[p].cpu_backup])
    BY <1>1, <2>1 DEF BytesKept, Known
  <2> QED
    BY <1>1, <2>2, <2>3 DEF Bytes
<1>3. meta[p] # Null => IsActive(p)' = IsActive(p)
  BY <1>1 DEF IsActive
<1> QED
  BY <1>1, <1>2, <1>3 DEF TensorAt

LEMMA KeptCalls ==
  ASSUME CallsKept, NEW p \in Ptrs, meta'[p] = meta[p]
  PROVE  /\ Visited("p_loop", p)' <=> Visited("p_loop", p)
         /\ Visited("r_loop", p)' <=> Visited("r_loop", p)
         /\ GivenUp(p)' <=> GivenUp(p)
<1>1. /\ Visited("p_loop", p)' <=> Visited("p_loop", p)
      /\ Visited("r_loop", p)' <=> Visited("r_loop", p)
  BY DEF CallsKept, CallLabels, Visited, Matches
<1>2. Pausing(meta[p])' = Pausing(meta[p])
  BY DEF CallsKept, CallLabels, Pausing, InCall, Matches
<1> QED
  BY <1>1, <1>2 DEF GivenUp

LEMMA KeptTensor ==
  ASSUME CallsKept, NEW p \in Ptrs, TensorKept(p)
  PROVE  TensorAt(p)' = TensorAt(p)
<1>1. meta'[p] = meta[p]
  BY DEF TensorKept
<1> QED
  BY <1>1, KeptCalls, SameEntry

LEMMA KeptStutter ==
  ASSUME CallsKept, \A p \in Ptrs : TensorKept(p), exited' = exited
  PROVE  UNCHANGED Memory!vars
  BY KeptTensor, KeptRequests, Stutter DEF SameTensors

\* Chunks of different ranges are different units.
LEMMA UnitsApart ==
  ASSUME CoreInv, NEW p \in Ptrs, NEW i \in DOMAIN mapping[p]
  PROVE  /\ mapping[p][i] \in Handles /\ mapping[p][i] \in phys
         /\ \A q \in Ptrs : q # p => mapping[p][i] \notin RangeOf(mapping[q])
<1>1. mapping[p] \in Units
  BY DEF CoreInv, TypeOK
<1>2. mapping[p][i] \in Handles
  BY <1>1, UnitTypes
<1>3. mapping[p][i] \in phys
  BY <1>2 DEF CoreInv, UnitsInv
<1>4. \A q \in Ptrs : q # p => mapping[p][i] \notin RangeOf(mapping[q])
  BY DEF CoreInv, UnitsInv, RangeOf
<1> QED
  BY <1>2, <1>3, <1>4

\* An address without an entry: what is mapped there is nobody's tensor.
LEMMA OtherAddress ==
  ASSUME CoreInv, CallsKept, NEW q \in Ptrs, meta[q] = Null,
         UNCHANGED <<meta, hostData, exited>>,
         \A p \in Ptrs : p # q => mapping'[p] = mapping[p],
         \A h \in Handles : h \notin RangeOf(mapping[q]) => content'[h] = content[h]
  PROVE  UNCHANGED Memory!vars
<1>1. ASSUME NEW p \in Ptrs
      PROVE  TensorKept(p)
  <2> SUFFICES ASSUME meta[p] # Null PROVE BytesKept(p)
    BY DEF TensorKept
  <2>1. p # q
    OBVIOUS
  <2>2. \A i \in DOMAIN mapping[p] : content'[mapping[p][i]] = content[mapping[p][i]]
    BY <2>1, UnitsApart
  <2> QED
    BY <2>1, <2>2 DEF BytesKept
<1> QED
  BY <1>1, KeptStutter

LEMMA CreateStutters ==
  ASSUME CoreInv, NEW t \in Threads,
         \/ UntrackedMalloc(t)
         \/ \E tag \in Tags, backup \in Backups, raw \in Requests, n \in AlignedSizes :
               MallocCreate(t, tag, backup, raw, n)
  PROVE  UNCHANGED Memory!vars
<1>1. PICK p \in Ptrs \ reserved : \E handles : mapping' = [mapping EXCEPT ![p] = handles]
  BY DEF UntrackedMalloc, MallocCreate, MapChunks
<1>2. meta[p] = Null /\ \A q \in Ptrs : q # p => mapping'[q] = mapping[q]
  BY <1>1 DEF CoreInv, TypeOK, RangesInv, Tracked
<1>3. CallsKept /\ UNCHANGED <<meta, content, hostData, exited>>
  BY DEF UntrackedMalloc, MallocCreate, Goto, CallsKept, CallLabels, lock, local, CoreInv, TypeOK
<1> QED
  BY <1>1, <1>2, <1>3, OtherAddress

LEMMA FreeDeviceStutters ==
  ASSUME CoreInv, "paused" \notin ClientMay, NEW t \in Threads, FreeDevice(t)
  PROVE  UNCHANGED Memory!vars
<1>1. ptr[t] \in Ptrs /\ meta[ptr[t]] = Null /\ t \in Holding /\ md[t].state = "ACTIVE"
  BY HeldTypes DEF FreeDevice, Holding, CoreInv, ClientInv
<1>2. mapping[ptr[t]] = md[t].allocHandles
  BY <1>1 DEF CoreInv, RangesInv, MappingOf
<1>3. /\ content' = [h \in Handles |-> IF h \in RangeOf(mapping[ptr[t]]) THEN Junk ELSE content[h]]
      /\ mapping' = [mapping EXCEPT ![ptr[t]] = <<>>] /\ exited' = exited
  BY <1>2 DEF FreeDevice, UnmapChunks, Unmap
<1>4. CallsKept /\ UNCHANGED <<meta, hostData>>
  BY DEF FreeDevice, Goto, CallsKept, CallLabels, lock, local, CoreInv, TypeOK
<1> QED
  BY <1>1, <1>3, <1>4, OtherAddress DEF CoreInv, TypeOK

\* free gives back the buffer of the entry it took over, which no entry has.
LEMMA FreeBackupStutters ==
  ASSUME CoreInv, NEW t \in Threads, FreeBackup(t)
  PROVE  UNCHANGED Memory!vars
<1>1. CallsKept /\ UNCHANGED <<meta, mapping, content, exited>>
  BY DEF FreeBackup, Return, Goto, CallsKept, CallLabels, lock, device, CoreInv, TypeOK
<1>2. ASSUME NEW p \in Ptrs
      PROVE  TensorKept(p)
  <2> SUFFICES ASSUME meta[p] # Null, meta[p].cpu_backup # Null
               PROVE  hostData'[meta[p].cpu_backup] = hostData[meta[p].cpu_backup]
    BY <1>1 DEF TensorKept, BytesKept
  <2>1. p \in Tracked /\ t \in Freeing
    BY DEF Tracked, Freeing, FreeBackup
  <2>2. meta[p].cpu_backup \in Bufs /\ meta[p].cpu_backup # md[t].cpu_backup
    BY <2>1 DEF CoreInv, TypeOK, BuffersInv, Metadata
  <2> QED
    BY <2>2 DEF FreeBackup
<1> QED
  BY <1>1, <1>2, KeptStutter

\* Steps that only move a call on, outside the loops.
LEMMA QuietStutters ==
  ASSUME CoreInv, NEW t \in Threads,
         QueryDone(t) \/ \E p \in Ptrs : FreeCall(t, p) \/ QueryFound(t, p)
  PROVE  UNCHANGED Memory!vars
<1>1. CallsKept /\ UNCHANGED <<meta, mapping, content, hostData, exited>>
  BY DEF QueryDone, FreeCall, QueryFound, Return, Goto, CallsKept, CallLabels, lock, device, local,
     CoreInv, TypeOK
<1> QED
  BY <1>1, KeptStutter DEF TensorKept, BytesKept

\* Nobody is in a loop while the lock is free, and only its holder is.
LEMMA LoopHolder ==
  ASSUME CoreInv
  PROVE  /\ mutex = Null => \A u \in Threads : pc[u] \notin {"p_loop", "r_loop"}
         /\ \A t, u \in Threads : pc[t] \in {"p_loop", "r_loop"} /\ pc[u] \in {"p_loop", "r_loop"}
                                  => t = u
  BY NullAssumption DEF CoreInv, LockInv

\* The loop that begins has everything left to visit that it is about.
LEMMA LoopBeginStutters ==
  ASSUME CoreInv, NEW t \in Threads,
         EnterLoop(t, "p_lock", "p_loop") \/ EnterLoop(t, "r_lock", "r_loop")
  PROVE  UNCHANGED Memory!vars
<1>1. \A u \in Threads : pc[u] \notin {"p_loop", "r_loop"}
  BY LoopHolder DEF EnterLoop
<1>2. /\ \/ pc[t] = "p_lock" /\ pc' = [pc EXCEPT ![t] = "p_loop"]
         \/ pc[t] = "r_lock" /\ pc' = [pc EXCEPT ![t] = "r_loop"]
      /\ todo' = {p \in Tracked : Matches(meta[p], filter[t])}
      /\ UNCHANGED <<meta, mapping, content, hostData, exited, filter>>
  BY DEF EnterLoop, Goto, device, local
<1>3. SameRequests
  BY <1>2 DEF SameRequests, RequestOf, CoreInv, TypeOK
<1>4. ASSUME NEW p \in Ptrs
      PROVE  TensorAt(p)' = TensorAt(p)
  <2>1. ~Visited("p_loop", p) /\ ~Visited("r_loop", p)
    BY <1>1 DEF Visited
  <2>2. \A u \in Threads : pc'[u] \in {"p_loop", "r_loop"} => u = t
    BY <1>1, <1>2 DEF CoreInv, TypeOK
  <2>3. meta[p] # Null /\ p \notin todo' => ~Matches(meta'[p], filter'[t])
    BY <1>2 DEF Tracked, Matches
  <2>4. meta[p] # Null => ~Visited("p_loop", p)' /\ ~Visited("r_loop", p)'
    BY <2>2, <2>3 DEF Visited
  <2>5. GivenUp(p)' <=> GivenUp(p)
    <3>1. Pausing(meta[p])' = Pausing(meta[p])
      BY <1>2 DEF Pausing, InCall, Matches, CoreInv, TypeOK
    <3> QED
      BY <1>2, <3>1 DEF GivenUp
  <2>6. TensorKept(p)
    BY <1>2 DEF TensorKept, BytesKept
  <2> QED
    BY <2>1, <2>4, <2>5, <2>6, SameEntry
<1> QED
  BY <1>2, <1>3, <1>4, Stutter DEF SameTensors
\* The entry a step of a loop is about: pause finds it active and resume paused,
\* and that is what it counts as until the loop ends.
LEMMA VisitedEntry ==
  ASSUME CoreInv, NEW t \in Threads, NEW p \in todo, p \in Ptrs, pc[t] \in {"p_loop", "r_loop"},
         meta'[p].tag = meta[p].tag, meta'[p].backup = meta[p].backup,
         todo' = todo \ {p}, UNCHANGED <<pc, filter>>, Matches(meta[p], filter[t]),
         meta[p].state = IF pc[t] = "p_loop" THEN "ACTIVE" ELSE "PAUSED"
  PROVE  /\ IsActive(p)' = IsActive(p)
         /\ GivenUp(p)' <=> GivenUp(p)
<1>1. \A u \in Threads : pc[u] \in {"p_loop", "r_loop"} => u = t
  BY LoopHolder
<1>2. ~Visited("p_loop", p) /\ ~Visited("r_loop", p)
  BY DEF Visited
<1>3. /\ Visited("p_loop", p)' <=> pc[t] = "p_loop"
      /\ Visited("r_loop", p)' <=> pc[t] = "r_loop"
  BY <1>1 DEF Visited, Matches
<1>4. Pausing(meta[p])' = Pausing(meta[p])
  BY DEF Pausing, InCall, Matches
<1> QED
  BY <1>2, <1>3, <1>4 DEF IsActive, GivenUp

\* A step of a loop that moves the bytes of p and leaves those of the other
\* entries alone is a stutter.
LEMMA EntryStutter ==
  ASSUME CoreInv, NEW t \in Threads, NEW p \in todo, p \in Ptrs, pc[t] \in {"p_loop", "r_loop"},
         meta[p] # Null, meta'[p] # Null,
         meta'[p].tag = meta[p].tag, meta'[p].backup = meta[p].backup,
         todo' = todo \ {p}, UNCHANGED <<pc, filter, exited>>, Matches(meta[p], filter[t]),
         meta[p].state = IF pc[t] = "p_loop" THEN "ACTIVE" ELSE "PAUSED",
         ~GivenUp(p) => Bytes(p)' = Bytes(p),
         \A q \in Ptrs : q # p => TensorKept(q)
  PROVE  UNCHANGED Memory!vars
<1>1. IsActive(p)' = IsActive(p) /\ (GivenUp(p)' <=> GivenUp(p))
  BY VisitedEntry
<1>2. Bytes(p)' = Bytes(p)
  BY <1>1 DEF Bytes
<1>3. TensorAt(p)' = TensorAt(p)
  BY <1>1, <1>2 DEF TensorAt
<1>4. ASSUME NEW q \in Ptrs, q # p
      PROVE  TensorAt(q)' = TensorAt(q)
  <2>1. TensorKept(q) /\ meta'[q] = meta[q]
    BY <1>4 DEF TensorKept
  <2>2. /\ Visited("p_loop", q)' <=> Visited("p_loop", q)
        /\ Visited("r_loop", q)' <=> Visited("r_loop", q)
    BY <1>4, <2>1 DEF Visited, Matches
  <2>3. Pausing(meta[q])' = Pausing(meta[q])
    BY <2>1 DEF Pausing, InCall, Matches
  <2> QED
    BY <2>1, <2>2, <2>3, SameEntry DEF GivenUp
<1>5. SameRequests
  BY DEF SameRequests, RequestOf
<1> QED
  BY <1>3, <1>4, <1>5, Stutter DEF SameTensors

\* pause copies the chunks into the buffer before it gives them back.
LEMMA PauseEntryStutters ==
  ASSUME CoreInv, NEW t \in Threads, NEW p \in todo, PauseEntry(t, p)
  PROVE  UNCHANGED Memory!vars
<1>1. /\ p \in Ptrs /\ p \in Tracked /\ meta[p] \in Metadata /\ meta[p] # Null /\ meta'[p] # Null
      /\ meta[p].state = "ACTIVE" /\ EntryShape(meta[p]) /\ mapping[p] = meta[p].allocHandles
      /\ Matches(meta[p], filter[t])
      /\ meta'[p].tag = meta[p].tag /\ meta'[p].backup = meta[p].backup
      /\ mapping'[p] = <<>>
      /\ \A q \in Ptrs : q # p => mapping'[q] = mapping[q] /\ meta'[q] = meta[q]
      /\ content' = [h \in Handles |-> IF h \in RangeOf(mapping[p]) THEN Junk ELSE content[h]]
      /\ todo' = todo \ {p} /\ UNCHANGED <<pc, filter, exited>>
  BY PauseEntryEffect
<1>2. pc[t] = "p_loop" /\ mapping[p] # <<>>
  BY <1>1 DEF PauseEntry, EntryShape
<1>3. \A q \in Ptrs : q # p =>
         \A i \in DOMAIN mapping[q] : content'[mapping[q][i]] = content[mapping[q][i]]
  BY <1>1, UnitsApart
<1>4. CASE meta[p].backup = "cpu"
  <2>1. PICK b \in BufferFor(meta[p]) :
           /\ hostData' = [hostData EXCEPT ![b] = Contained(mapping[p])]
           /\ meta' = [meta EXCEPT ![p].cpu_backup = b, ![p].state = "PAUSED"]
    BY <1>4 DEF PauseEntry
  <2>2. b \in Bufs /\ b # Null
    BY <1>1, <2>1, NullAssumption DEF BufferFor, Metadata
  <2>3. meta'[p].cpu_backup = b /\ hostData'[b] = Contained(mapping[p])
    BY <1>1, <2>1, <2>2 DEF CoreInv, TypeOK, Metadata
  <2>4. \A q \in Tracked : q # p => meta[q].cpu_backup # b
    <3>1. CASE meta[p].cpu_backup # Null
      BY <1>1, <2>1, <3>1 DEF BufferFor, CoreInv, BuffersInv
    <3>2. CASE meta[p].cpu_backup = Null
      <4>1. hostData[b] = Null
        BY <2>1, <3>2 DEF BufferFor
      <4>2. \A q \in Tracked : meta[q] \in Metadata /\ HasBackup(meta[q])
        BY DEF CoreInv, TypeOK, BuffersInv, Tracked
      <4> QED
        BY <2>2, <4>1, <4>2, BackupNotNull
    <3> QED
      BY <3>1, <3>2
  <2>5. \A q \in Ptrs : q # p => TensorKept(q)
    <3> SUFFICES ASSUME NEW q \in Ptrs, q # p, meta[q] # Null, meta[q].cpu_backup # Null
                 PROVE  hostData'[meta[q].cpu_backup] = hostData[meta[q].cpu_backup]
      BY <1>1, <1>3 DEF TensorKept, BytesKept
    <3>1. meta[q].cpu_backup \in Bufs /\ meta[q].cpu_backup # b
      BY <2>4 DEF CoreInv, TypeOK, Metadata, Tracked
    <3> QED
      BY <2>1, <3>1 DEF CoreInv, TypeOK
  <2>6. ~GivenUp(p) /\ ~GivenUp(p)'
    BY <1>1, <1>4 DEF GivenUp
  <2>7. Bytes(p) = Known(Contained(mapping[p]))
    BY <1>2, <2>6 DEF Bytes
  <2>8. Bytes(p)' = Known(Contained(mapping[p]))
    <3>1. Bytes(p)' = Known(hostData[meta[p].cpu_backup])'
      BY <1>1, <2>2, <2>3, <2>6 DEF Bytes
    <3>2. hostData'[meta'[p].cpu_backup] = Contained(mapping[p])
      BY <2>3
    <3> QED
      BY <3>1, <3>2 DEF Known
  <2> QED
    BY <1>1, <1>2, <2>5, <2>7, <2>8, EntryStutter
<1>5. CASE meta[p].backup # "cpu"
  <2>1. hostData' = hostData
    BY <1>5 DEF PauseEntry
  <2>2. t \in Pausing(meta[p]) /\ meta[p].backup = "none"
    BY <1>1, <1>2, <1>5 DEF Pausing, InCall, Metadata, Backups
  <2>3. GivenUp(p)
    BY <2>2 DEF GivenUp
  <2>4. \A q \in Ptrs : q # p => TensorKept(q)
    BY <1>1, <1>3, <2>1 DEF TensorKept, BytesKept
  <2> QED
    BY <1>1, <1>2, <2>3, <2>4, EntryStutter
<1> QED
  BY <1>4, <1>5

\* resume gives every chunk what the buffer has at its place.
LEMMA ResumeEntryStutters ==
  ASSUME CoreInv, TensorsInv, NEW t \in Threads, NEW p \in todo, ResumeEntry(t, p)
  PROVE  UNCHANGED Memory!vars
<1> DEFINE n == NumChunks(meta[p].aligned_size)
<1>0. PICK handles \in NewUnits(n) : ResumedAs(t, p, handles)
  BY ResumeEntryEffect
<1>1. /\ p \in Ptrs /\ p \in Tracked /\ meta[p] \in Metadata /\ meta[p] # Null /\ meta'[p] # Null
      /\ meta[p].state = "PAUSED" /\ mapping[p] = <<>> /\ Matches(meta[p], filter[t])
      /\ HasBackup(meta[p]) /\ n \in ChunkCounts
      /\ meta'[p].tag = meta[p].tag /\ meta'[p].backup = meta[p].backup
      /\ meta'[p].cpu_backup = meta[p].cpu_backup
      /\ mapping'[p] = handles /\ handles # <<>> /\ handles \in [1 .. n -> Handles]
      /\ \A q \in Ptrs : q # p => mapping'[q] = mapping[q] /\ meta'[q] = meta[q]
      /\ todo' = todo \ {p} /\ hostData' = hostData /\ UNCHANGED <<pc, filter, exited>>
  BY <1>0, NullAssumption DEF ResumedAs, ResumeEntry
<1>2. pc[t] = "r_loop"
  BY DEF ResumeEntry
<1>3. \A q \in Ptrs : q # p => TensorKept(q)
  <2> SUFFICES ASSUME NEW q \in Ptrs, q # p, NEW i \in DOMAIN mapping[q]
               PROVE  content'[mapping[q][i]] = content[mapping[q][i]]
    BY <1>1 DEF TensorKept, BytesKept
  <2>1. mapping[q][i] \in Handles /\ mapping[q][i] \in phys
    BY UnitsApart
  <2>2. \A j \in DOMAIN handles : handles[j] \notin phys
    BY <1>0, <1>1, NewUnitTypes
  <2> QED
    BY <1>0, <2>1, <2>2 DEF ResumedAs
<1>4. ~GivenUp(p) => ~GivenUp(p)'
  BY <1>1, <1>2, VisitedEntry
<1>5. ~GivenUp(p) => Bytes(p)' = Known(Contained(mapping[p]))'
  BY <1>1, <1>4 DEF Bytes
<1>6. CASE meta[p].backup = "cpu"
  <2>1. meta[p].cpu_backup # Null
    BY <1>1, <1>6 DEF CoreInv, BuffersInv
  <2>2. hostData[meta[p].cpu_backup] \in [1 .. n -> Data]
    BY <1>1, <2>1 DEF HasBackup
  <2>3. \A i, j \in DOMAIN handles : handles[i] = handles[j] => i = j
    BY <1>0, <1>1, NewUnitsDiffer
  <2>4. ASSUME NEW i \in 1 .. n
        PROVE  content'[handles[i]] = hostData[meta[p].cpu_backup][i]
    <3>1. handles[i] \in Handles /\ \E j \in DOMAIN handles : handles[j] = handles[i]
      BY <1>1
    <3>2. (CHOOSE j \in DOMAIN handles : handles[j] = handles[i]) = i
      BY <1>1, <2>3
    <3> QED
      BY <1>0, <1>6, <3>1, <3>2 DEF ResumedAs
  <2>5. Contained(mapping[p])' = hostData[meta[p].cpu_backup]
    <3>1. Contained(mapping[p])' = [i \in 1 .. n |-> content'[handles[i]]]
      BY <1>1 DEF Contained
    <3> QED
      BY <2>2, <2>4, <3>1
  <2>6. Bytes(p) = Known(hostData[meta[p].cpu_backup])
    BY <1>1, <1>6, <2>1 DEF Bytes, GivenUp
  <2>7. Known(Contained(mapping[p]))' = Known(hostData[meta[p].cpu_backup])
    BY <2>5 DEF Known
  <2> QED
    BY <1>1, <1>2, <1>3, <1>5, <2>6, <2>7, EntryStutter
<1>7. CASE meta[p].backup # "cpu"
  <2>1. meta[p].cpu_backup = Null
    BY <1>1, <1>7 DEF TensorsInv, Metadata, Backups
  <2>2. Bytes(p) = Junk
    BY <1>1, <2>1 DEF Bytes
  <2>3. ASSUME NEW i \in DOMAIN mapping'[p]
        PROVE  content'[mapping'[p][i]] = Junk
    <3>1. handles[i] \in Handles /\ handles[i] \notin phys
      BY <1>0, <1>1, NewUnitTypes
    <3> QED
      BY <1>0, <1>1, <1>7, <3>1 DEF ResumedAs, TensorsInv
  <2>4. Known(Contained(mapping[p]))' = Junk
    BY <2>3 DEF Known, Contained
  <2> QED
    BY <1>1, <1>2, <1>3, <1>5, <2>2, <2>4, EntryStutter
<1> QED
  BY <1>6, <1>7

------------------------------------------------------------------------------
(* Steps that are steps of PauseableMemory *)

\* An entry and a tensor are the same thing.
LEMMA TensorIsEntry ==
  ASSUME CoreInv, NEW p \in Ptrs
  PROVE  /\ meta[p] # Null => TensorAt(p) \in Memory!Tensor
         /\ TensorAt(p) # Null <=> meta[p] # Null
<1>1. CASE meta[p] = Null
  BY <1>1 DEF TensorAt
<1>2. CASE meta[p] # Null
  <2>1. /\ meta[p] \in Metadata /\ EntryShape(meta[p]) /\ HasBackup(meta[p])
        /\ mapping[p] = MappingOf(meta[p])
    BY <1>2 DEF CoreInv, TypeOK, RangesInv, BuffersInv, Tracked
  <2>2. mapping[p] # <<>> => Contained(mapping[p]) \in Contents
    BY <2>1, ContainedTypes DEF MappingOf
  <2>3. meta[p].cpu_backup # Null => hostData[meta[p].cpu_backup] \in Contents
    BY <2>1, ChunkCountTypes DEF HasBackup, Contents, Metadata
  <2>4. Bytes(p) \in Contents \cup {Junk}
    BY <2>2, <2>3 DEF Bytes, Known
  <2>5. TensorAt(p) \in Memory!Tensor
    BY <1>2, <2>1, <2>4 DEF TensorAt, Memory!Tensor, Metadata
  <2> QED
    BY <1>2, <2>5, RefinementAssumption
<1> QED
  BY <1>1, <1>2

\* And so are a call in progress and a request.
LEMMA RequestIsCall ==
  ASSUME CoreInv, NEW t \in Threads
  PROVE  /\ Calls[t] = RequestOf(t)
         /\ t \in Memory!Requested("pause") <=> pc[t] \in {"p_lock", "p_loop"}
         /\ t \in Memory!Requested("resume") <=> pc[t] \in {"r_lock", "r_loop"}
         /\ RequestOf(t) # Null => pc[t] \in {"p_lock", "p_loop", "r_lock", "r_loop"}
<1>1. Calls[t] = RequestOf(t)
  BY DEF Calls
<1>2. pc[t] \in {"p_lock", "p_loop", "r_lock", "r_loop"} => RequestOf(t) # Null
  BY RefinementAssumption DEF RequestOf, Memory!Request, CoreInv, TypeOK
<1> QED
  BY <1>1, <1>2 DEF RequestOf, Memory!Requested

LEMMA CoveredIsMatched ==
  ASSUME CoreInv, NEW t \in Threads, pc[t] \in {"p_lock", "p_loop", "r_lock", "r_loop"}, NEW p \in Ptrs
  PROVE  p \in Memory!Covered(Calls[t]) <=> meta[p] # Null /\ Matches(meta[p], filter[t])
<1>1. Calls[t].filter = filter[t]
  BY DEF Calls, RequestOf
<1>2. Tensors[p] = TensorAt(p)
  BY DEF Tensors
<1>3. meta[p] # Null => TensorAt(p).tag = meta[p].tag
  BY DEF TensorAt
<1> QED
  BY <1>1, <1>2, <1>3, TensorIsEntry DEF Memory!Covered, Memory!Live, Memory!Covers, Matches

LEMMA MallocRegisters ==
  ASSUME CoreInv, exited = "no", NEW t \in Threads, MallocRegister(t)
  PROVE  Memory!Next
<1>0. PICK p \in Ptrs : p = ptr[t]
  BY HeldTypes DEF MallocRegister
<1>1. /\ meta[p] = Null /\ md[t] \in Metadata /\ EntryShape(md[t]) /\ md[t] # Null
      /\ md[t].state = "ACTIVE" /\ mapping[p] = md[t].allocHandles
  BY <1>0, HeldTypes, NullAssumption DEF MallocRegister, Holding, CoreInv, RangesInv, MappingOf
<1>2. /\ meta' = [meta EXCEPT ![p] = md[t]] /\ meta'[p] = md[t]
      /\ UNCHANGED <<mapping, content, hostData, exited>>
  BY <1>0 DEF MallocRegister, device, CoreInv, TypeOK
<1>3. CallsKept
  BY DEF MallocRegister, Return, Goto, CallsKept, CallLabels, lock, CoreInv, TypeOK
<1>4. ASSUME NEW q \in Ptrs, q # p
      PROVE  TensorAt(q)' = TensorAt(q)
  <2>1. TensorKept(q)
    BY <1>2, <1>4 DEF TensorKept, BytesKept, CoreInv, TypeOK
  <2> QED
    BY <1>3, <2>1, KeptTensor
<1>5. IsActive(p)' = TRUE
  <2>1. \A u \in Threads : pc'[u] \notin {"p_loop", "r_loop"}
    BY <1>3, LoopHolder DEF MallocRegister, CallsKept, CallLabels
  <2> QED
    BY <1>1, <1>2, <2>1 DEF IsActive, Visited
<1>6. Bytes(p)' \in Contents \cup {Junk}
  <2>1. Contained(mapping[p])' = Contained(mapping[p]) /\ Contained(mapping[p]) \in Contents
    BY <1>1, <1>2, ContainedTypes DEF Contained
  <2>2. mapping'[p] # <<>>
    BY <1>1, <1>2 DEF EntryShape
  <2>3. Bytes(p)' = IF GivenUp(p)' THEN Junk ELSE Known(Contained(mapping[p]))'
    BY <2>2 DEF Bytes
  <2> QED
    BY <2>1, <2>3 DEF Known
<1>7. TensorAt(p)' = [tag |-> md[t].tag, backup |-> md[t].backup,
                      state |-> "ACTIVE", content |-> Bytes(p)']
  BY <1>1, <1>2, <1>5 DEF TensorAt
<1>8. Tensors' = [Tensors EXCEPT ![p] = TensorAt(p)'] /\ Tensors[p] = Null
  BY <1>1, <1>4 DEF Tensors, TensorAt
<1>9. Calls' = Calls
  BY <1>3, KeptRequests DEF Calls, SameRequests
<1>10. Memory!Allocate(p, md[t].tag, md[t].backup, Bytes(p)')
  BY <1>2, <1>7, <1>8, <1>9 DEF Memory!Allocate, Reason
<1>11. md[t].tag \in Tags /\ md[t].backup \in Backups
  BY <1>1 DEF Metadata
<1> QED
  BY <1>6, <1>10, <1>11 DEF Memory!Next, Reason

LEMMA FreeLooksUp ==
  ASSUME CoreInv, exited = "no", NEW t \in Threads, FreeLookup(t)
  PROVE  Memory!Next
<1>0. PICK p \in Ptrs : p = ptr[t]
  BY HeldTypes DEF FreeLookup
<1>1. /\ meta[p] # Null /\ meta' = [meta EXCEPT ![p] = Null] /\ meta'[p] = Null
      /\ UNCHANGED <<mapping, content, hostData, exited>>
  BY <1>0 DEF FreeLookup, device, CoreInv, TypeOK
<1>2. CallsKept
  BY DEF FreeLookup, Goto, CallsKept, CallLabels, lock, CoreInv, TypeOK
<1>3. ASSUME NEW q \in Ptrs, q # p
      PROVE  TensorAt(q)' = TensorAt(q)
  <2>1. TensorKept(q)
    BY <1>1, <1>3 DEF TensorKept, BytesKept, CoreInv, TypeOK
  <2> QED
    BY <1>2, <2>1, KeptTensor
<1>4. TensorAt(p)' = Null
  BY <1>1 DEF TensorAt
<1>5. Tensors' = [Tensors EXCEPT ![p] = Null] /\ Tensors[p] # Null
  BY <1>1, <1>3, <1>4, TensorIsEntry DEF Tensors
<1>6. Calls' = Calls
  BY <1>2, KeptRequests DEF Calls, SameRequests
<1>7. Memory!Free(p)
  BY <1>1, <1>5, <1>6 DEF Memory!Free, Reason
<1> QED
  BY <1>7 DEF Memory!Next, Reason

\* A client writes a chunk of a tensor no call is about, or memory that is no
\* tensor.
LEMMA WriteRefines ==
  ASSUME CoreInv, exited = "no", NEW p \in Ptrs, NEW v \in Values, NEW i \in DOMAIN mapping[p],
         Write(p, i, v)
  PROVE  [Memory!Next]_(Memory!vars)
<1>1. CallsKept /\ UNCHANGED <<meta, mapping, hostData, exited>>
  BY DEF Write, CallsKept, CallLabels, lock, local
<1>2. mapping[p][i] \in Handles /\ content' = [content EXCEPT ![mapping[p][i]] = v]
  BY UnitsApart DEF Write
<1>3. \A h \in Handles : h # mapping[p][i] => content'[h] = content[h]
  BY <1>2 DEF CoreInv, TypeOK
<1>4. mapping[p][i] \in RangeOf(mapping[p])
  BY DEF RangeOf
<1>5. CASE meta[p] = Null
  BY <1>1, <1>3, <1>4, <1>5, OtherAddress
<1>6. CASE meta[p] # Null
  <2>1. \A u \in Threads : pc[u] \in CallLabels => ~Matches(meta[p], filter[u])
    BY <1>6 DEF Write, Pausing, Resuming, InCall, CallLabels
  <2>2. ~Visited("p_loop", p) /\ ~Visited("r_loop", p)
    BY <2>1 DEF Visited, CallLabels
  <2>3. ~GivenUp(p) /\ ~GivenUp(p)'
    <3>1. ~GivenUp(p)
      BY <2>1 DEF GivenUp, Pausing, InCall, CallLabels
    <3> QED
      BY <1>1, <3>1, KeptCalls
  <2>4. /\ meta[p] \in Metadata /\ EntryShape(meta[p]) /\ mapping[p] = MappingOf(meta[p])
    BY <1>6 DEF CoreInv, TypeOK, RangesInv, Tracked
  <2>5. meta[p].state = "ACTIVE" /\ mapping[p] = meta[p].allocHandles /\ mapping[p] # <<>>
    BY <2>4 DEF MappingOf, EntryShape
  <2>6. IsActive(p) = TRUE /\ IsActive(p)' = TRUE
    BY <1>1, <2>2, <2>5, KeptCalls DEF IsActive
  <2>7. Bytes(p)' \in Contents \cup {Junk}
    <3>1. Bytes(p)' = Known(Contained(mapping[p]))'
      BY <1>1, <2>3, <2>5 DEF Bytes
    <3>2. mapping[p] \in [1 .. NumChunks(meta[p].aligned_size) -> Handles]
      BY <2>4, <2>5 DEF EntryShape
    <3>3. NumChunks(meta[p].aligned_size) \in ChunkCounts
      BY <2>4, ChunkCountTypes DEF Metadata
    <3>4. content' \in [Handles -> Data]
      BY <1>2 DEF CoreInv, TypeOK, Data
    <3>5. Contained(mapping[p])' \in [1 .. NumChunks(meta[p].aligned_size) -> Data]
      BY <1>1, <3>2, <3>4 DEF Contained
    <3>6. Contained(mapping[p])' \in Contents
      BY <3>3, <3>5 DEF Contents
    <3> QED
      BY <3>1, <3>6 DEF Known
  <2>8. ASSUME NEW q \in Ptrs, q # p
        PROVE  TensorAt(q)' = TensorAt(q)
    <3>1. \A j \in DOMAIN mapping[q] : content'[mapping[q][j]] = content[mapping[q][j]]
      BY <1>3, <1>4, <2>8, UnitsApart
    <3>2. TensorKept(q)
      BY <1>1, <3>1 DEF TensorKept, BytesKept
    <3> QED
      BY <1>1, <3>2, KeptTensor
  <2>9. TensorAt(p) = [tag |-> meta[p].tag, backup |-> meta[p].backup,
                       state |-> "ACTIVE", content |-> Bytes(p)]
    BY <1>6, <2>6 DEF TensorAt
  <2>10. TensorAt(p)' = [tag |-> meta[p].tag, backup |-> meta[p].backup,
                         state |-> "ACTIVE", content |-> Bytes(p)']
    BY <1>1, <1>6, <2>6 DEF TensorAt
  <2>11. TensorAt(p)' = [TensorAt(p) EXCEPT !.content = Bytes(p)']
    BY <2>9, <2>10
  <2>12. Tensors' = [Tensors EXCEPT ![p].content = Bytes(p)']
    BY <2>8, <2>11 DEF Tensors
  <2>13. Tensors[p] # Null /\ Tensors[p].state = "ACTIVE"
    <3>1. Tensors[p] = TensorAt(p) /\ TensorAt(p) # Null
      BY <1>6, TensorIsEntry DEF Tensors
    <3> QED
      BY <2>9, <3>1
  <2>14. p \notin Memory!Unsettled
    BY <2>1, RequestIsCall, CoveredIsMatched DEF Memory!Unsettled, Memory!Requested, CallLabels
  <2>15. Calls' = Calls
    BY <1>1, KeptRequests DEF Calls, SameRequests
  <2>16. Memory!Write(p, Bytes(p)')
    BY <1>1, <2>12, <2>13, <2>14, <2>15 DEF Memory!Write, Reason
  <2> QED
    BY <2>7, <2>16 DEF Memory!Next, Reason
<1> QED
  BY <1>5, <1>6

\* A thread that calls makes its request; a pause makes the tensors without a
\* backup lose their content.
LEMMA CallBegins ==
  ASSUME CoreInv, NEW t \in Threads, NEW tagFilter \in Tags \cup {Null},
         PauseCall(t, tagFilter) \/ ResumeCall(t, tagFilter)
  PROVE  /\ pc[t] = "idle" /\ filter' = [filter EXCEPT ![t] = tagFilter]
         /\ UNCHANGED <<meta, mapping, content, hostData, exited, todo>>
         /\ \A p \in Ptrs : meta[p] # Null => IsActive(p)' = IsActive(p)
         /\ \A u \in Threads : u # t => pc'[u] = pc[u] /\ filter'[u] = filter[u]
         /\ Calls[t] = Null /\ \A u \in Threads : u # t => Calls'[u] = Calls[u]
<1>1. /\ pc[t] = "idle" /\ (pc' = [pc EXCEPT ![t] = "p_lock"] \/ pc' = [pc EXCEPT ![t] = "r_lock"])
      /\ filter' = [filter EXCEPT ![t] = tagFilter]
      /\ UNCHANGED <<meta, mapping, content, hostData, exited, todo>>
  BY DEF PauseCall, ResumeCall, Goto, device, lock
<1>2. \A u \in Threads : u # t => pc'[u] = pc[u] /\ filter'[u] = filter[u]
  BY <1>1 DEF CoreInv, TypeOK
<1>3. pc'[t] \notin {"p_loop", "r_loop"}
  BY <1>1 DEF CoreInv, TypeOK
<1>4. \A p \in Ptrs : meta[p] # Null => IsActive(p)' = IsActive(p)
  BY <1>1, <1>2, <1>3 DEF IsActive, Visited, Matches
<1>5. Calls[t] = Null /\ \A u \in Threads : u # t => Calls'[u] = Calls[u]
  BY <1>1, <1>2 DEF Calls, RequestOf
<1> QED
  BY <1>1, <1>2, <1>4, <1>5

LEMMA PauseIsCalled ==
  ASSUME CoreInv, exited = "no", NEW t \in Threads, NEW tagFilter \in Tags \cup {Null},
         PauseCall(t, tagFilter)
  PROVE  Memory!Next
<1> DEFINE r == [op |-> "pause", filter |-> tagFilter]
<1>1. /\ pc'[t] = "p_lock" /\ filter'[t] = tagFilter
  BY DEF PauseCall, Goto, CoreInv, TypeOK
<1>2. Calls'[t] = r
  BY <1>1 DEF Calls, RequestOf
<1>3. Calls[t] = Null /\ Calls' = [Calls EXCEPT ![t] = r]
  BY <1>2, CallBegins DEF Calls
<1>4. ASSUME NEW p \in Ptrs
      PROVE  TensorAt(p)' = IF p \in Memory!Covered(r) /\ Tensors[p].backup = "none"
                            THEN [Tensors[p] EXCEPT !.content = Junk] ELSE Tensors[p]
  <2>0. Tensors[p] = TensorAt(p)
    BY DEF Tensors
  <2>1. CASE meta[p] = Null
    BY <2>0, <2>1, CallBegins DEF TensorAt, Memory!Covered, Memory!Live
  <2>2. CASE meta[p] # Null
    <3>1. GivenUp(p)' <=> GivenUp(p) \/ (meta[p].backup = "none" /\ Matches(meta[p], tagFilter))
      <4>1. \A u \in Threads : u # t => (u \in Pausing(meta[p])' <=> u \in Pausing(meta[p]))
        BY CallBegins DEF Pausing, InCall, Matches
      <4>2. t \notin Pausing(meta[p]) /\ (t \in Pausing(meta[p])' <=> Matches(meta[p], tagFilter))
        BY <1>1, CallBegins DEF Pausing, InCall, Matches
      <4>3. Pausing(meta[p]) \subseteq Threads /\ Pausing(meta[p])' \subseteq Threads
        BY DEF Pausing
      <4>4. Pausing(meta[p])' # {} <=> Pausing(meta[p]) # {} \/ Matches(meta[p], tagFilter)
        BY <4>1, <4>2, <4>3
      <4> QED
        BY <4>4, CallBegins DEF GivenUp
    <3>2. TensorAt(p) = [tag |-> meta[p].tag, backup |-> meta[p].backup,
                         state |-> IF IsActive(p) THEN "ACTIVE" ELSE "PAUSED", content |-> Bytes(p)]
      BY <2>2 DEF TensorAt
    <3>3. TensorAt(p)' = [tag |-> meta[p].tag, backup |-> meta[p].backup,
                          state |-> IF IsActive(p) THEN "ACTIVE" ELSE "PAUSED", content |-> Bytes(p)']
      BY <2>2, CallBegins DEF TensorAt
    <3>4. p \in Memory!Covered(r) <=> Matches(meta[p], tagFilter)
      BY <2>0, <2>2, <3>2, TensorIsEntry DEF Memory!Covered, Memory!Live, Memory!Covers, Matches
    <3>5. Bytes(p)' = IF meta[p].backup = "none" /\ Matches(meta[p], tagFilter)
                      THEN Junk ELSE Bytes(p)
      <4>1. /\ Known(Contained(mapping[p]))' = Known(Contained(mapping[p]))
            /\ Known(hostData[meta[p].cpu_backup])' = Known(hostData[meta[p].cpu_backup])
        BY CallBegins DEF Known, Contained
      <4> QED
        BY <3>1, <4>1, CallBegins DEF Bytes
    <3> QED
      BY <2>0, <3>2, <3>3, <3>4, <3>5
  <2> QED
    BY <2>1, <2>2
<1>5. Tensors' = [p \in Ptrs |-> IF p \in Memory!Covered(r) /\ Tensors[p].backup = "none"
                                THEN [Tensors[p] EXCEPT !.content = Junk] ELSE Tensors[p]]
  BY <1>4 DEF Tensors
<1>6. Memory!CallPause(t, r)
  BY <1>3, <1>5, CallBegins DEF Memory!CallPause, Reason
<1>7. r \in Memory!Request
  BY DEF Memory!Request
<1> QED
  BY <1>6, <1>7 DEF Memory!Next, Reason

LEMMA ResumeIsCalled ==
  ASSUME CoreInv, exited = "no", NEW t \in Threads, NEW tagFilter \in Tags \cup {Null},
         ResumeCall(t, tagFilter)
  PROVE  Memory!Next
<1> DEFINE r == [op |-> "resume", filter |-> tagFilter]
<1>1. pc'[t] = "r_lock" /\ filter'[t] = tagFilter
  BY DEF ResumeCall, Goto, CoreInv, TypeOK
<1>2. Calls'[t] = r
  BY <1>1 DEF Calls, RequestOf
<1>3. Calls[t] = Null /\ Calls' = [Calls EXCEPT ![t] = r]
  BY <1>2, CallBegins DEF Calls
<1>4. ASSUME NEW p \in Ptrs
      PROVE  TensorAt(p)' = TensorAt(p)
  <2>1. Pausing(meta[p])' = Pausing(meta[p])
    BY <1>1, CallBegins DEF Pausing, InCall, Matches
  <2>2. GivenUp(p)' <=> GivenUp(p)
    BY <2>1, CallBegins DEF GivenUp
  <2>3. /\ Known(Contained(mapping[p]))' = Known(Contained(mapping[p]))
        /\ Known(hostData[meta[p].cpu_backup])' = Known(hostData[meta[p].cpu_backup])
    BY CallBegins DEF Known, Contained
  <2>4. Bytes(p)' = Bytes(p)
    BY <2>2, <2>3, CallBegins DEF Bytes
  <2> QED
    BY <2>4, CallBegins DEF TensorAt
<1>5. Tensors' = Tensors
  BY <1>4 DEF Tensors
<1>6. Memory!CallResume(t, r)
  BY <1>3, <1>5, CallBegins DEF Memory!CallResume, Reason
<1>7. r \in Memory!Request
  BY DEF Memory!Request
<1> QED
  BY <1>6, <1>7 DEF Memory!Next, Reason
\* What the end of a loop changes of the calls under way and of the tensors.
LEMMA LoopEndEffect ==
  ASSUME CoreInv, NEW t \in Threads, LeaveLoop(t, "p_loop") \/ LeaveLoop(t, "r_loop")
  PROVE  /\ UNCHANGED <<meta, mapping, content, hostData, exited>>
         /\ Calls' = [Calls EXCEPT ![t] = Null]
         /\ \A p \in Ptrs : meta[p] # Null =>
               /\ IsActive(p) = IF pc[t] = "p_loop" THEN Matches(meta[p], filter[t])
                                                         \/ meta[p].state = "ACTIVE"
                                ELSE ~Matches(meta[p], filter[t]) /\ meta[p].state = "ACTIVE"
               /\ IsActive(p)' = (meta[p].state = "ACTIVE")
               /\ GivenUp(p) <=> \/ GivenUp(p)'
                                 \/ meta[p].backup = "none" /\ pc[t] = "p_loop"
                                    /\ Matches(meta[p], filter[t])
<1>1. /\ pc[t] \in {"p_loop", "r_loop"} /\ todo = {}
      /\ pc' = [pc EXCEPT ![t] = "idle"] /\ filter' = [filter EXCEPT ![t] = Null]
      /\ UNCHANGED <<meta, mapping, content, hostData, exited>>
  BY DEF LeaveLoop, Return, Goto, device
<1>2. \A u \in Threads : pc[u] \in {"p_loop", "r_loop"} <=> u = t
  BY <1>1, LoopHolder
<1>3. /\ pc'[t] = "idle" /\ \A u \in Threads : u # t => pc'[u] = pc[u] /\ filter'[u] = filter[u]
      /\ \A u \in Threads : pc'[u] \notin {"p_loop", "r_loop"}
  BY <1>1, <1>2 DEF CoreInv, TypeOK
<1>4. Calls' = [Calls EXCEPT ![t] = Null]
  BY <1>3 DEF Calls, RequestOf
<1>5. ASSUME NEW p \in Ptrs, meta[p] # Null
      PROVE  /\ IsActive(p) = IF pc[t] = "p_loop" THEN Matches(meta[p], filter[t])
                                                         \/ meta[p].state = "ACTIVE"
                               ELSE ~Matches(meta[p], filter[t]) /\ meta[p].state = "ACTIVE"
             /\ IsActive(p)' = (meta[p].state = "ACTIVE")
             /\ GivenUp(p) <=> \/ GivenUp(p)'
                               \/ meta[p].backup = "none" /\ pc[t] = "p_loop"
                                  /\ Matches(meta[p], filter[t])
  <2>1. /\ Visited("p_loop", p) <=> pc[t] = "p_loop" /\ Matches(meta[p], filter[t])
        /\ Visited("r_loop", p) <=> pc[t] = "r_loop" /\ Matches(meta[p], filter[t])
    BY <1>1, <1>2 DEF Visited
  <2>2. ~Visited("p_loop", p)' /\ ~Visited("r_loop", p)'
    BY <1>3 DEF Visited
  <2>3. IsActive(p)' = (meta[p].state = "ACTIVE")
    BY <1>1, <2>2 DEF IsActive
  <2>4. IsActive(p) = IF pc[t] = "p_loop" THEN Matches(meta[p], filter[t])
                                                  \/ meta[p].state = "ACTIVE"
                      ELSE ~Matches(meta[p], filter[t]) /\ meta[p].state = "ACTIVE"
    BY <1>1, <2>1 DEF IsActive
  <2>5. GivenUp(p) <=> \/ GivenUp(p)'
                       \/ meta[p].backup = "none" /\ pc[t] = "p_loop" /\ Matches(meta[p], filter[t])
    <3>1. \A u \in Threads : u # t => (u \in Pausing(meta[p])' <=> u \in Pausing(meta[p]))
      BY <1>1, <1>3 DEF Pausing, InCall, Matches
    <3>2. t \notin Pausing(meta[p])'
      BY <1>3 DEF Pausing, InCall
    <3>3. t \in Pausing(meta[p]) <=> pc[t] = "p_loop" /\ Matches(meta[p], filter[t])
      BY <1>1 DEF Pausing, InCall
    <3>4. Pausing(meta[p]) \subseteq Threads /\ Pausing(meta[p])' \subseteq Threads
      BY DEF Pausing
    <3>5. Pausing(meta[p]) # {} <=> \/ Pausing(meta[p])' # {}
                                    \/ pc[t] = "p_loop" /\ Matches(meta[p], filter[t])
      BY <3>1, <3>2, <3>3, <3>4
    <3> QED
      BY <1>1, <3>5 DEF GivenUp
  <2> QED
    BY <2>3, <2>4, <2>5
<1> QED
  BY <1>1, <1>4, <1>5

\* The bytes of a tensor a returning call is about are where they were.
LEMMA LoopEndBytes ==
  ASSUME CoreInv, TensorsInv, NEW t \in Threads, LeaveLoop(t, "p_loop") \/ LeaveLoop(t, "r_loop"),
         NEW p \in Ptrs, meta[p] # Null
  PROVE  Bytes(p)' = Bytes(p)
<1>1. /\ Known(Contained(mapping[p]))' = Known(Contained(mapping[p]))
      /\ Known(hostData[meta[p].cpu_backup])' = Known(hostData[meta[p].cpu_backup])
  BY LoopEndEffect DEF Known, Contained
<1>2. CASE GivenUp(p) <=> GivenUp(p)'
  BY <1>1, <1>2, LoopEndEffect DEF Bytes
<1>3. CASE ~(GivenUp(p) <=> GivenUp(p)')
  <2>1. /\ GivenUp(p) /\ ~GivenUp(p)' /\ meta[p].backup = "none" /\ pc[t] = "p_loop"
        /\ Matches(meta[p], filter[t]) /\ todo = {}
    BY <1>3, LoopEndEffect DEF LeaveLoop
  <2>2. meta[p].state = "PAUSED" /\ meta[p].cpu_backup = Null
    BY <2>1 DEF TensorsInv, Tracked
  <2>3. mapping[p] = <<>>
    BY <2>2 DEF CoreInv, RangesInv, MappingOf, Tracked
  <2> QED
    BY <2>1, <2>2, <2>3, LoopEndEffect DEF Bytes
<1> QED
  BY <1>2, <1>3

\* All of the tensors change their state when the loop ends.
LEMMA CallReturns ==
  ASSUME CoreInv, TensorsInv, NEW t \in Threads, LeaveLoop(t, "p_loop") \/ LeaveLoop(t, "r_loop")
  PROVE  LET after == IF pc[t] = "p_loop" THEN "PAUSED" ELSE "ACTIVE" IN
         /\ \A p \in Memory!Covered(Calls[t]) : Tensors[p].state # after
         /\ Tensors' = [p \in Ptrs |-> IF p \in Memory!Covered(Calls[t])
                                       THEN [Tensors[p] EXCEPT !.state = after] ELSE Tensors[p]]
<1> DEFINE after == IF pc[t] = "p_loop" THEN "PAUSED" ELSE "ACTIVE"
           covered == Memory!Covered(Calls[t])
<1>1. pc[t] \in {"p_loop", "r_loop"} /\ todo = {}
  BY DEF LeaveLoop
<1>2. ASSUME NEW p \in covered
      PROVE  Tensors[p].state # after /\ TensorAt(p)' = [Tensors[p] EXCEPT !.state = after]
  <2>1. p \in Ptrs /\ meta[p] # Null /\ Matches(meta[p], filter[t])
    BY <1>1, CoveredIsMatched DEF Memory!Covered, Memory!Live
  <2>2. meta[p].state = after
    BY <1>1, <2>1 DEF TensorsInv, Tracked
  <2>3. IsActive(p) = (pc[t] = "p_loop") /\ IsActive(p)' = (pc[t] # "p_loop")
    BY <1>1, <2>1, <2>2, LoopEndEffect
  <2>4. TensorAt(p) = [tag |-> meta[p].tag, backup |-> meta[p].backup,
                       state |-> IF pc[t] = "p_loop" THEN "ACTIVE" ELSE "PAUSED", content |-> Bytes(p)]
    BY <2>1, <2>3 DEF TensorAt
  <2>5. TensorAt(p)' = [tag |-> meta[p].tag, backup |-> meta[p].backup,
                        state |-> after, content |-> Bytes(p)]
    BY <2>1, <2>3, LoopEndEffect, LoopEndBytes DEF TensorAt
  <2>6. Tensors[p] = TensorAt(p)
    BY <2>1 DEF Tensors
  <2>7. Tensors[p].state # after
    BY <2>4, <2>6
  <2>8. TensorAt(p)' = [Tensors[p] EXCEPT !.state = after]
    BY <2>4, <2>5, <2>6
  <2> QED
    BY <2>7, <2>8
<1>3. ASSUME NEW p \in Ptrs, p \notin covered
      PROVE  TensorAt(p)' = Tensors[p]
  <2>0. Tensors[p] = TensorAt(p)
    BY DEF Tensors
  <2>1. CASE meta[p] = Null
    BY <2>0, <2>1, LoopEndEffect DEF TensorAt
  <2>2. CASE meta[p] # Null
    <3>1. ~Matches(meta[p], filter[t])
      BY <1>1, <1>3, <2>2, CoveredIsMatched
    <3>2. IsActive(p)' = IsActive(p)
      BY <1>1, <2>2, <3>1, LoopEndEffect
    <3> QED
      BY <2>0, <2>2, <3>2, LoopEndEffect, LoopEndBytes DEF TensorAt
  <2> QED
    BY <2>1, <2>2
<1>4. Tensors' = [p \in Ptrs |-> IF p \in covered THEN [Tensors[p] EXCEPT !.state = after]
                                ELSE Tensors[p]]
  BY <1>2, <1>3 DEF Tensors
<1> QED
  BY <1>2, <1>4

LEMMA ReturnPerforms ==
  ASSUME CoreInv, TensorsInv, exited = "no", NEW t \in Threads,
         LeaveLoop(t, "p_loop") \/ LeaveLoop(t, "r_loop")
  PROVE  Memory!Next
<1>1. Calls' = [Calls EXCEPT ![t] = Null] /\ Reason' = Reason
  BY LoopEndEffect DEF Reason
<1>2. CASE pc[t] = "p_loop"
  <2>1. t \in Memory!Requested("pause")
    BY <1>2, RequestIsCall
  <2>2. Memory!Perform(t, "pause", "PAUSED")
    BY <1>1, <1>2, <2>1, CallReturns DEF Memory!Perform
  <2> QED
    BY <2>2 DEF Memory!Next, Reason
<1>3. CASE pc[t] = "r_loop"
  <2>1. t \in Memory!Requested("resume")
    BY <1>3, RequestIsCall
  <2>2. Memory!Perform(t, "resume", "ACTIVE")
    BY <1>1, <1>3, <2>1, CallReturns DEF Memory!Perform
  <2> QED
    BY <2>2 DEF Memory!Next, Reason
<1> QED
  BY <1>2, <1>3 DEF LeaveLoop

\* The process ends: the tensors and the calls are those it leaves behind.
LEMMA ExitKeeps ==
  ASSUME NEW reason, Exit(reason)
  PROVE  Tensors' = Tensors /\ Calls' = Calls
<1>1. CallsKept /\ UNCHANGED <<meta, mapping, content, hostData>>
  BY DEF Exit, device, lock, local, CallsKept
<1>2. \A p \in Ptrs : TensorAt(p)' = TensorAt(p)
  BY <1>1, KeptTensor DEF TensorKept, BytesKept
<1> QED
  BY <1>1, <1>2, KeptRequests DEF SameRequests, Tensors, Calls

LEMMA ExitFails ==
  ASSUME exited = "no", NEW reason \in {"check", "failed", "not_allocated"}, Exit(reason)
  PROVE  Memory!Next
  BY ExitKeeps DEF Memory!Next, Memory!Failure, Reason, Exit

\* The process ends for a misuse only if a tensor is in the state the call is
\* to bring it to.
LEMMA MisuseEnds ==
  ASSUME CoreInv, exited = "no", NEW t \in Threads,
         \/ NotInState(t, "p_loop", "ACTIVE", "not_active")
         \/ NotInState(t, "r_loop", "PAUSED", "not_paused")
  PROVE  Memory!Next
<1>1. ASSUME NEW p \in todo, pc[t] \in {"p_loop", "r_loop"}
      PROVE  /\ p \in Memory!Covered(Calls[t])
             /\ Tensors[p].state = meta[p].state /\ meta[p].state \in {"ACTIVE", "PAUSED"}
  <2>1. p \in Ptrs /\ meta[p] # Null /\ Matches(meta[p], filter[t]) /\ meta[p] \in Metadata
    BY <1>1, VisitedTypes, NullAssumption
  <2>2. p \in Memory!Covered(Calls[t])
    BY <1>1, <2>1, CoveredIsMatched
  <2>3. IsActive(p) = (meta[p].state = "ACTIVE")
    BY <1>1, LoopHolder DEF IsActive, Visited
  <2>4. Tensors[p].state = IF IsActive(p) THEN "ACTIVE" ELSE "PAUSED"
    BY <2>1 DEF Tensors, TensorAt
  <2> QED
    BY <2>1, <2>2, <2>3, <2>4 DEF Metadata
<1>2. CASE NotInState(t, "p_loop", "ACTIVE", "not_active")
  <2>1. PICK p \in todo : meta[p].state # "ACTIVE"
    BY <1>2 DEF NotInState
  <2>2. p \in Memory!Covered(Calls[t]) /\ Tensors[p].state = "PAUSED"
    BY <1>1, <1>2, <2>1 DEF NotInState
  <2>3. t \in Memory!Requested("pause")
    BY <1>2, RequestIsCall DEF NotInState
  <2>4. Memory!Misuse(t, "pause", "PAUSED", "not_active")
    BY <1>2, <2>2, <2>3, ExitKeeps DEF NotInState, Memory!Misuse, Reason, Exit
  <2> QED
    BY <2>4 DEF Memory!Next, Reason
<1>3. CASE NotInState(t, "r_loop", "PAUSED", "not_paused")
  <2>1. PICK p \in todo : meta[p].state # "PAUSED"
    BY <1>3 DEF NotInState
  <2>2. p \in Memory!Covered(Calls[t]) /\ Tensors[p].state = "ACTIVE"
    BY <1>1, <1>3, <2>1 DEF NotInState
  <2>3. t \in Memory!Requested("resume")
    BY <1>3, RequestIsCall DEF NotInState
  <2>4. Memory!Misuse(t, "resume", "ACTIVE", "not_paused")
    BY <1>3, <2>2, <2>3, ExitKeeps DEF NotInState, Memory!Misuse, Reason, Exit
  <2> QED
    BY <2>4 DEF Memory!Next, Reason
<1> QED
  BY <1>2, <1>3

------------------------------------------------------------------------------
(* The implementation *)

LEMMA InitImplements == Init => Memory!Init
  BY DEF Init, Memory!Init, Tensors, Calls, Reason, TensorAt, RequestOf

LEMMA NextImplements ==
  ASSUME CoreInv, TensorsInv, "paused" \notin ClientMay, [Next]_vars
  PROVE  [Memory!Next]_(Memory!vars)
<1>1. CASE UNCHANGED vars
  <2>1. CallsKept /\ UNCHANGED <<meta, mapping, content, hostData, exited>>
    BY <1>1 DEF vars, device, lock, local, CallsKept
  <2> QED
    BY <2>1, KeptStutter DEF TensorKept, BytesKept
<1>2. ASSUME exited = "no", NEW p \in Ptrs, NEW v \in Values, NEW i \in DOMAIN mapping[p], Write(p, i, v)
      PROVE  [Memory!Next]_(Memory!vars)
  BY <1>2, WriteRefines
<1>3. ASSUME exited = "no", NEW t \in Threads, Call(t)
      PROVE  [Memory!Next]_(Memory!vars)
  <2>1. CASE MallocRefused(t)
    BY <1>3, <2>1, ExitFails DEF MallocRefused
  <2>2. CASE \/ UntrackedMalloc(t)
             \/ \E tag \in Tags, backup \in Backups, raw \in Requests, g \in Granularities :
                   MallocCreate(t, tag, backup, raw, AlignedSize(raw, g))
    BY <2>2, RequestChunks, CreateStutters
  <2>3. ASSUME NEW p \in Ptrs, FreeCall(t, p) \/ QueryFound(t, p)
        PROVE  [Memory!Next]_(Memory!vars)
    BY <2>3, QuietStutters
  <2>4. ASSUME NEW p \in Ptrs, QueryLostContent(t, p)
        PROVE  [Memory!Next]_(Memory!vars)
    BY <1>3, <2>4, ExitFails DEF QueryLostContent
  <2>5. ASSUME NEW tagFilter \in Tags \cup {Null}, PauseCall(t, tagFilter) \/ ResumeCall(t, tagFilter)
        PROVE  [Memory!Next]_(Memory!vars)
    BY <1>3, <2>5, PauseIsCalled, ResumeIsCalled
  <2> QED
    BY <1>3, <2>1, <2>2, <2>3, <2>4, <2>5 DEF Call
<1>4. ASSUME exited = "no", NEW t \in Threads, Step(t)
      PROVE  [Memory!Next]_(Memory!vars)
  <2>1. CASE MallocRegister(t) \/ FreeLookup(t)
    BY <1>4, <2>1, MallocRegisters, FreeLooksUp
  <2>2. CASE FreeUnknown(t)
    BY <1>4, <2>2, ExitFails DEF FreeUnknown
  <2>3. CASE FreeDevice(t) \/ FreeBackup(t) \/ QueryDone(t)
    BY <2>3, FreeDeviceStutters, FreeBackupStutters, QuietStutters
  <2>4. CASE EnterLoop(t, "p_lock", "p_loop") \/ EnterLoop(t, "r_lock", "r_loop")
    BY <2>4, LoopBeginStutters
  <2>5. CASE LeaveLoop(t, "p_loop") \/ LeaveLoop(t, "r_loop")
    BY <1>4, <2>5, ReturnPerforms
  <2>6. CASE \/ NotInState(t, "p_loop", "ACTIVE", "not_active")
             \/ NotInState(t, "r_loop", "PAUSED", "not_paused")
    BY <1>4, <2>6, MisuseEnds
  <2>7. CASE \E p \in todo : PauseEntry(t, p) \/ ResumeEntry(t, p)
    BY <2>7, PauseEntryStutters, ResumeEntryStutters
  <2> QED
    BY <1>4, <2>1, <2>2, <2>3, <2>4, <2>5, <2>6, <2>7 DEF Step
<1>5. ASSUME exited = "no", NEW t \in Threads, CallFails(t)
      PROVE  [Memory!Next]_(Memory!vars)
  BY <1>5, ExitFails DEF CallFails
<1> QED
  BY <1>1, <1>2, <1>3, <1>4, <1>5 DEF Next, Terminated

\* With clients that free active tensors only, the chunked allocator implements
\* PauseableMemory: for any number of threads a pause and a resume take effect
\* at once, and every chunk comes back with its bytes
\* (hardware_amd_support.cpp:128-345).
THEOREM ChunkedImplementsMemory == "paused" \notin ClientMay => (Spec => ImplementsMemory)
<1> SUFFICES ASSUME "paused" \notin ClientMay PROVE Spec => ImplementsMemory
  OBVIOUS
<1>1. Init => Memory!Init
  BY InitImplements
<1>2. IInv /\ [Next]_vars => [Memory!Next]_(Memory!vars)
  BY NextImplements DEF IInv
<1> QED
  BY <1>1, <1>2, Invariance, PTL DEF Spec, Memory!Spec, ImplementsMemory
==============================================================================

--------------------------------- MODULE Sizes ---------------------------------
(***************************************************************************)
(* The arithmetic of malloc, in the width of size_t: how a request is      *)
(* rounded to the granularity of the driver (csrc/utils.h), how the margin *)
(* is compared with the free memory (csrc/core.cpp) and how ROCm 6.x cuts  *)
(* an allocation into chunks (csrc/hardware_amd_support.cpp).              *)
(***************************************************************************)
EXTENDS Integers

CONSTANTS Limit,            \* 2^64, one more than the largest size_t
          Granularities,    \* what the driver may require
          Chunk             \* MEMCREATE_CHUNK_SIZE

\* assert(MEMCREATE_CHUNK_SIZE % granularity == 0)
ASSUME SizesAssumption ==
    /\ Limit \in Nat /\ Chunk \in Nat \ {0} /\ Chunk < Limit /\ Limit % Chunk = 0
    /\ Granularities \subseteq 1 .. Limit - 1
    /\ \A g \in Granularities : Chunk % g = 0

Size == 0 .. Limit - 1
Wrap(n) == n % Limit

RoundUp(n, g) == Wrap((Wrap(n + g - 1) \div g) * g)

\* cu_mem_get_allocation_size() ends the process for what cannot be rounded.
TooLarge(n, g) == n > Limit - 1 - (g - 1)

\* The sum of the margin and the size is one of 64 bits.
Exceeds(margin, size, free) == margin > 0 /\ Wrap(margin + size) > free

\* rocm_malloc rounds twice and does not look for an overflow.
AlignedSize(n, g) == RoundUp(RoundUp(n, g), Chunk)

\* The chunks of an aligned size, and the length of each; they are mapped one
\* after the other.
NumChunks(aligned)    == Wrap(aligned + Chunk - 1) \div Chunk
ChunkSize(aligned, i) == IF aligned - i * Chunk < Chunk THEN aligned - i * Chunk ELSE Chunk
================================================================================

--------------------------------- MODULE Memory ---------------------------------
(***************************************************************************)
(* The allocators of memory/: ArenaAllocator (a bump pointer over mapped   *)
(* blocks, freed as a whole by reset()) and PoolAllocator (equal slots on  *)
(* a free list).  An address is a mapping and an offset in it: mmap is     *)
(* external, returns a fresh page-aligned mapping or fails, and the        *)
(* alignments asked for divide a page.                                     *)
(***************************************************************************)
EXTENDS Integers, Sequences, FiniteSets, FiniteSetsExt

CONSTANTS Page, Threshold, \* 4096 and kLargeAllocThreshold in the code
          BlockSizes,      \* arguments of the constructor
          Sizes, Aligns,   \* requests
          Capacity,        \* slots of the pool
          MaxMaps, MaxLive \* bounds of the model: mappings over a run, allocations between resets

ASSUME MemoryAssumption ==
  /\ Page \in Nat \ {0} /\ Threshold \in Nat
  /\ BlockSizes \subseteq Nat /\ Sizes \subseteq Nat /\ Aligns \subseteq Nat \ {0}

VARIABLES blockSize,       \* block_size_
          blocks,          \* blocks_: the mappings, all of size blockSize; the last is current
          ptr,             \* current_ptr_, an offset in the current block
          large,           \* large_allocs_: [map, size]
          maps,            \* mappings made so far: the next one is maps + 1
          mapped,          \* the mappings that are not unmapped
          live,            \* history: what the caller holds: [map, from, to, align]
          freeList, inUse, \* of the pool
          objects, broken  \* history: slots with a live object, and lost to a constructor that threw

arena == <<blockSize, blocks, ptr, large, maps, mapped, live>>
pool == <<freeList, inUse, objects, broken>>
vars == <<blockSize, blocks, ptr, large, maps, mapped, live, freeList, inUse, objects, broken>>

Init ==
  /\ \E size \in BlockSizes : blockSize = IF size > Page THEN size ELSE Page
  /\ blocks = <<1>> /\ ptr = 0 /\ large = {} /\ maps = 1 /\ mapped = {1} /\ live = {}
  /\ freeList = [i \in 1 .. Capacity |-> i] /\ inUse = 0 /\ objects = {} /\ broken = {}

-----------------------------------------------------------------------------
(* The next multiple of a power of two.                                    *)
AlignUp(p, align) == p + ((-p) % align)
Current == blocks[Len(blocks)]
OneIfEmpty(bytes) == IF bytes = 0 THEN 1 ELSE bytes

(* map_pages: a mapping of its own, and its allocation at its start.       *)
MapLarge(bytes, size, align) ==
  /\ maps < MaxMaps
  /\ large' = large \cup {[map |-> maps + 1, size |-> AlignUp(size, Page)]}
  /\ maps' = maps + 1 /\ mapped' = mapped \cup {maps + 1}
  /\ live' = live \cup {[map |-> maps + 1, from |-> 0, to |-> bytes, align |-> align]}
  /\ UNCHANGED <<blockSize, blocks, ptr>>
Bump(map, from, bytes, align) ==
  /\ ptr' = from + bytes
  /\ live' = live \cup {[map |-> map, from |-> from, to |-> from + bytes, align |-> align]}

(* Mutant: the end of the block is compared with the unaligned pointer.    *)
FitsUnaligned(bytes, align) == ptr + bytes <= blockSize
Fits(bytes, align) == AlignUp(ptr, align) + bytes <= blockSize

(* do_allocate, by the path it takes.                                      *)
AllocateLarge(n, align) ==
  LET bytes == OneIfEmpty(n)
  IN bytes >= Threshold /\ MapLarge(bytes, bytes, align)
AllocateHere(n, align) ==
  LET bytes == OneIfEmpty(n)
  IN /\ bytes < Threshold /\ Fits(bytes, align)
     /\ Bump(Current, AlignUp(ptr, align), bytes, align)
     /\ UNCHANGED <<blockSize, blocks, large, maps, mapped>>
AllocateOversize(n, align) ==
  LET bytes == OneIfEmpty(n)
  IN /\ bytes < Threshold /\ ~Fits(bytes, align) /\ bytes + align > blockSize
     /\ MapLarge(bytes, bytes + align, align)
AllocateNewBlock(n, align) ==
  LET bytes == OneIfEmpty(n)
  IN /\ bytes < Threshold /\ ~Fits(bytes, align) /\ bytes + align <= blockSize
     /\ maps < MaxMaps
     /\ blocks' = Append(blocks, maps + 1) /\ maps' = maps + 1 /\ mapped' = mapped \cup {maps + 1}
     /\ Bump(maps + 1, 0, bytes, align)
     /\ UNCHANGED <<blockSize, large>>

(* reset(): everything but the first block is unmapped; all allocations    *)
(* end.                                                                    *)
Reset ==
  /\ mapped' = mapped \ ({blocks[i] : i \in 2 .. Len(blocks)} \cup {l.map : l \in large})
  /\ blocks' = <<blocks[1]>> /\ ptr' = 0 /\ large' = {} /\ live' = {}
  /\ UNCHANGED <<blockSize, maps>>

ArenaNext ==
  \/ \E n \in Sizes, align \in Aligns :
       /\ Cardinality(live) < MaxLive
       /\ \/ AllocateLarge(n, align) \/ AllocateHere(n, align)
          \/ AllocateOversize(n, align) \/ AllocateNewBlock(n, align)
  \/ Reset

(* total_allocated() and bytes_used(): earlier blocks count as full.       *)
LargeBytes == MapThenSumSet(LAMBDA l : l.size, large)
TotalAllocated == Len(blocks) * blockSize + LargeBytes
BytesUsed == (Len(blocks) - 1) * blockSize + ptr + LargeBytes

-----------------------------------------------------------------------------
(* construct(): a slot, then T's constructor, which may throw; then nobody *)
(* returns the slot.  destroy(): the destructor, then the slot.            *)
Construct ==
  /\ freeList # <<>>
  /\ freeList' = Tail(freeList) /\ inUse' = inUse + 1
  /\ \/ objects' = objects \cup {Head(freeList)} /\ UNCHANGED broken
     \/ broken' = broken \cup {Head(freeList)} /\ UNCHANGED objects
Destroy(slot) ==
  /\ slot \in objects
  /\ freeList' = <<slot>> \o freeList /\ inUse' = inUse - 1
  /\ objects' = objects \ {slot} /\ UNCHANGED broken
PoolNext == Construct \/ \E slot \in 1 .. Capacity : Destroy(slot)

Next == (ArenaNext /\ UNCHANGED pool) \/ (PoolNext /\ UNCHANGED arena)
Spec == Init /\ [][Next]_vars

-----------------------------------------------------------------------------
Disjoint(a, b) == a.map # b.map \/ a.to <= b.from \/ b.to <= a.from
SizeOf(map) == IF \E l \in large : l.map = map THEN (CHOOSE l \in large : l.map = map).size ELSE blockSize

(* No two allocations that the arena handed out since the last reset()     *)
(* share a byte.                                                           *)
NoOverlap == \A a, b \in live : a # b => Disjoint(a, b)

(* The arena: allocations do not overlap, lie in mapped memory as they are *)
(* aligned, every mapping is unmapped by reset() or the destructor, and    *)
(* bytes_used() covers what is held without exceeding total_allocated().   *)
(* The pool: one object per slot, the counters agree with the free list;   *)
(* only a constructor that throws costs a slot.                            *)
MemorySound ==
  /\ NoOverlap
  /\ \A a \in live : a.map \in mapped /\ a.to <= SizeOf(a.map) /\ a.from % a.align = 0
  /\ mapped = {blocks[i] : i \in 1 .. Len(blocks)} \cup {l.map : l \in large}
  /\ MapThenSumSet(LAMBDA a : a.to - a.from, live) <= BytesUsed /\ BytesUsed <= TotalAllocated
  /\ Len(freeList) = Capacity - inUse /\ inUse = Cardinality(objects \cup broken)
  /\ \A i \in 1 .. Len(freeList) : freeList[i] \notin objects \cup broken
  /\ Cardinality({freeList[i] : i \in 1 .. Len(freeList)}) = Len(freeList)
=============================================================================

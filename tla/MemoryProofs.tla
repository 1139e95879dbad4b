------------------------------ MODULE MemoryProofs ------------------------------
(***************************************************************************)
(* What ArenaAllocator hands out between two resets never overlaps, for    *)
(* every page size, threshold, block size, and all sizes and alignments.   *)
(***************************************************************************)
EXTENDS Memory, TLAPS

Allocations == [map : Nat, from : Nat, to : Nat, align : Nat]

(* The inductive invariant: mappings are numbered as they are made, so a   *)
(* new one holds no allocation yet; and in the current block allocations   *)
(* end at or before the bump pointer.                                      *)
ArenaInv ==
  /\ blockSize \in Nat /\ ptr \in Nat /\ maps \in Nat
  /\ blocks \in Seq(Nat) /\ blocks # <<>>
  /\ \A i \in 1 .. Len(blocks) : blocks[i] <= maps
  /\ live \subseteq Allocations
  /\ \A a \in live : a.map <= maps /\ (a.map = Current => a.to <= ptr)
  /\ NoOverlap

(* Rounding up in do_allocate never moves the bump pointer backwards.      *)
LEMMA AlignUpGrows ==
  ASSUME NEW p \in Nat, NEW align \in Nat \ {0}
  PROVE  AlignUp(p, align) \in Nat /\ p <= AlignUp(p, align)
<1>1. -p \in Int /\ (-p) % align \in Int /\ 0 <= (-p) % align
  BY SMT
<1> QED BY <1>1, SMT DEF AlignUp

(* An allocation of no bytes takes one.                                    *)
LEMMA OneIfEmptyType == ASSUME NEW n \in Nat PROVE OneIfEmpty(n) \in Nat
BY DEF OneIfEmpty

(* The current block is one of the blocks.                                 *)
LEMMA CurrentKnown == ASSUME ArenaInv PROVE Current \in Nat /\ Current <= maps
<1>1. Len(blocks) \in 1 .. Len(blocks)
  BY SMT DEF ArenaInv
<1> QED BY <1>1, SMT DEF ArenaInv, Current

(* A new allocation that is disjoint from the others keeps them so.        *)
LEMMA AddDisjoint ==
  ASSUME NoOverlap, NEW new \in Allocations, live \subseteq Allocations,
         \A a \in live : Disjoint(a, new) /\ Disjoint(new, a), live' = live \cup {new}
  PROVE  NoOverlap'
BY Zenon DEF NoOverlap, Disjoint

(* A mapping of its own for an allocation.                                 *)
LEMMA MapLargeKeeps ==
  ASSUME ArenaInv, NEW bytes \in Nat, NEW size, NEW align \in Nat \ {0}, MapLarge(bytes, size, align)
  PROVE  ArenaInv'
<1> DEFINE new == [map |-> maps + 1, from |-> 0, to |-> bytes, align |-> align]
<1>1. /\ maps \in Nat /\ maps' = maps + 1 /\ live' = live \cup {new}
      /\ blockSize' = blockSize /\ blocks' = blocks /\ ptr' = ptr /\ Current' = Current
  BY DEF MapLarge, ArenaInv, Current
<1>2. new \in Allocations
  BY <1>1, SMT DEF Allocations
<1>3. \A a \in live : a.map \in Nat /\ a.map <= maps
  BY SMT DEF ArenaInv, Allocations
<1>4. \A a \in live : Disjoint(a, new) /\ Disjoint(new, a)
  BY <1>1, <1>3, SMT DEF Disjoint
<1>5. NoOverlap'
  BY <1>1, <1>2, <1>4, AddDisjoint DEF ArenaInv
<1>6. \A a \in live' : a.map <= maps' /\ (a.map = Current' => a.to <= ptr')
  <2>1. \A a \in live : a.map <= maps' /\ (a.map = Current' => a.to <= ptr')
    BY <1>1, <1>3, SMT DEF ArenaInv
  <2>2. new.map <= maps' /\ new.map # Current'
    BY <1>1, CurrentKnown, SMT
  <2> QED BY <1>1, <2>1, <2>2
<1>7. \A i \in 1 .. Len(blocks') : blocks'[i] <= maps'
  BY <1>1, SMT DEF ArenaInv
<1> HIDE DEF new
<1> QED BY <1>1, <1>2, <1>5, <1>6, <1>7, SMT DEF ArenaInv

(* Bumping the pointer of the current block.                               *)
LEMMA HereKeeps ==
  ASSUME ArenaInv, NEW n \in Nat, NEW align \in Nat \ {0}, AllocateHere(n, align)
  PROVE  ArenaInv'
<1> DEFINE bytes == OneIfEmpty(n)
           from == AlignUp(ptr, align)
           new == [map |-> Current, from |-> from, to |-> from + bytes, align |-> align]
<1>1. /\ bytes \in Nat /\ ptr \in Nat /\ from \in Nat /\ ptr <= from
  <2>1. ptr \in Nat
    BY DEF ArenaInv
  <2> QED BY <2>1, OneIfEmptyType, AlignUpGrows, Zenon
<1>2. /\ ptr' = from + bytes /\ live' = live \cup {new} /\ maps' = maps
      /\ blockSize' = blockSize /\ blocks' = blocks /\ Current' = Current
  BY DEF AllocateHere, Bump, Current
<1> HIDE DEF bytes, from
<1>3. Current \in Nat /\ Current <= maps
  BY CurrentKnown
<1>4. new \in Allocations
  BY <1>1, <1>3, SMT DEF Allocations
<1>5. \A a \in live : a.map = Current => a.to \in Nat /\ a.to <= ptr
  BY SMT DEF ArenaInv, Allocations
<1>6. \A a \in live : Disjoint(a, new) /\ Disjoint(new, a)
  BY <1>1, <1>5, SMT DEF Disjoint
<1>7. NoOverlap'
  BY <1>2, <1>4, <1>6, AddDisjoint DEF ArenaInv
<1>8. \A a \in live' : a.map <= maps' /\ (a.map = Current' => a.to <= ptr')
  <2>1. \A a \in live : a.map <= maps' /\ (a.map = Current' => a.to <= ptr')
    BY <1>1, <1>2, <1>5, SMT DEF ArenaInv
  <2>2. new.map <= maps' /\ new.to <= ptr'
    BY <1>1, <1>2, <1>3, SMT
  <2> QED BY <1>2, <2>1, <2>2
<1> HIDE DEF new
<1>9. ptr' \in Nat
  BY <1>1, <1>2, SMT
<1> QED BY <1>2, <1>4, <1>7, <1>8, <1>9, SMT DEF ArenaInv

(* A new block, in which the allocation is the first.                      *)
LEMMA NewBlockKeeps ==
  ASSUME ArenaInv, NEW n \in Nat, NEW align \in Nat \ {0}, AllocateNewBlock(n, align)
  PROVE  ArenaInv'
<1> DEFINE bytes == OneIfEmpty(n)
           new == [map |-> maps + 1, from |-> 0, to |-> 0 + bytes, align |-> align]
<1>1. /\ bytes \in Nat /\ maps \in Nat /\ blocks \in Seq(Nat)
  BY OneIfEmptyType DEF ArenaInv
<1>2. /\ ptr' = 0 + bytes /\ live' = live \cup {new} /\ maps' = maps + 1
      /\ blockSize' = blockSize /\ blocks' = Append(blocks, maps + 1)
  BY DEF AllocateNewBlock, Bump
<1> HIDE DEF bytes
<1>3. Len(blocks') = Len(blocks) + 1 /\ blocks' \in Seq(Nat) /\ blocks' # <<>>
  BY <1>1, <1>2, SMT
<1>4. Current' = maps + 1
  BY <1>1, <1>2, <1>3, SMT DEF Current
<1>5. \A i \in 1 .. Len(blocks') : blocks'[i] <= maps'
  BY <1>1, <1>2, <1>3, SMT DEF ArenaInv
<1>6. new \in Allocations
  BY <1>1, SMT DEF Allocations
<1>7. \A a \in live : a.map \in Nat /\ a.map <= maps
  BY SMT DEF ArenaInv, Allocations
<1>8. \A a \in live : Disjoint(a, new) /\ Disjoint(new, a)
  BY <1>1, <1>7, SMT DEF Disjoint
<1>9. NoOverlap'
  <2>1. NoOverlap /\ live \subseteq Allocations
    BY DEF ArenaInv
  <2> HIDE DEF new
  <2> QED BY <1>2, <1>6, <1>8, <2>1, AddDisjoint, Zenon
<1>10. \A a \in live' : a.map <= maps' /\ (a.map = Current' => a.to <= ptr')
  <2>1. \A a \in live : a.map <= maps' /\ a.map # Current'
    BY <1>1, <1>2, <1>4, <1>7, SMT
  <2>2. new.map <= maps' /\ new.to <= ptr'
    BY <1>1, <1>2, SMT
  <2> QED BY <1>2, <2>1, <2>2
<1> HIDE DEF new
<1>11. ptr' \in Nat /\ maps' \in Nat
  BY <1>1, <1>2, SMT
<1> QED BY <1>2, <1>3, <1>5, <1>6, <1>9, <1>10, <1>11, SMT DEF ArenaInv

(* reset() leaves no allocation.                                           *)
LEMMA ResetKeeps == ASSUME ArenaInv, Reset PROVE ArenaInv'
<1>1. /\ blockSize' = blockSize /\ maps' = maps /\ ptr' = 0 /\ live' = {} /\ blocks' = <<blocks[1]>>
  BY DEF Reset
<1>2. 1 \in 1 .. Len(blocks) /\ blocks[1] \in Nat /\ blocks[1] <= maps
  BY SMT DEF ArenaInv
<1>3. blocks' \in Seq(Nat) /\ blocks' # <<>> /\ \A i \in 1 .. Len(blocks') : blocks'[i] <= maps'
  BY <1>1, <1>2, SMT
<1> QED BY <1>1, <1>3, SMT DEF ArenaInv, NoOverlap

(* do_allocate never hands out a byte that is in use: whatever is asked    *)
(* for, no two allocations since the last reset() share one.               *)
THEOREM ArenaDisjoint == Spec => []NoOverlap
<1>1. Init => ArenaInv
  <2> SUFFICES ASSUME Init PROVE ArenaInv
    OBVIOUS
  <2>1. blockSize \in Nat
    BY MemoryAssumption, SMT DEF Init
  <2>2. blocks = <<1>> /\ ptr = 0 /\ maps = 1 /\ live = {}
    BY DEF Init
  <2>3. blocks \in Seq(Nat) /\ blocks # <<>> /\ \A i \in 1 .. Len(blocks) : blocks[i] <= maps
    BY <2>2, SMT
  <2> QED BY <2>1, <2>2, <2>3, SMT DEF ArenaInv, NoOverlap
<1>2. ArenaInv /\ [Next]_vars => ArenaInv'
  <2> SUFFICES ASSUME ArenaInv, [Next]_vars PROVE ArenaInv'
    OBVIOUS
  <2>1. CASE UNCHANGED arena
    BY <2>1 DEF arena, ArenaInv, NoOverlap, Current
  <2>2. ASSUME NEW n \in Sizes, NEW align \in Aligns, AllocateLarge(n, align) PROVE ArenaInv'
    BY <2>2, MapLargeKeeps, OneIfEmptyType, MemoryAssumption DEF AllocateLarge
  <2>3. ASSUME NEW n \in Sizes, NEW align \in Aligns, AllocateHere(n, align) PROVE ArenaInv'
    BY <2>3, HereKeeps, MemoryAssumption
  <2>4. ASSUME NEW n \in Sizes, NEW align \in Aligns, AllocateOversize(n, align) PROVE ArenaInv'
    BY <2>4, MapLargeKeeps, OneIfEmptyType, MemoryAssumption DEF AllocateOversize
  <2>5. ASSUME NEW n \in Sizes, NEW align \in Aligns, AllocateNewBlock(n, align) PROVE ArenaInv'
    BY <2>5, NewBlockKeeps, MemoryAssumption
  <2>6. CASE Reset
    BY <2>6, ResetKeeps
  <2> QED BY <2>1, <2>2, <2>3, <2>4, <2>5, <2>6 DEF Next, ArenaNext, PoolNext, vars, arena
<1>3. ArenaInv => NoOverlap
  BY DEF ArenaInv
<1> QED BY <1>1, <1>2, <1>3, PTL DEF Spec
=============================================================================

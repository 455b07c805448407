---------------------------- MODULE BuddyAllocator ----------------------------
(***************************************************************************)
(* The frame allocators of kernel/src/memory: buddy.rs, which walks the    *)
(* memory map with a cursor until the heap exists and then carves what is  *)
(* left into free lists, and bump.rs, which only ever walks the cursor.    *)
(* Addresses are in small units of which FrameSize make a frame, so that   *)
(* region bounds need not be frame aligned.  No address computation gets   *)
(* near 2^64 (physical addresses have at most 52 bits).                    *)
(***************************************************************************)
EXTENDS Integers, FiniteSets, FiniteSetsExt, Sequences, SequencesExt

CONSTANTS
  FrameSize,  \* FRAME_SIZE (4096 in the code), also MIN_ADDR
  MaxOrder,   \* BUDDY_MAX_ORDER (12 in the code)
  Maps,       \* memory maps: sequences of [start, end, usable], in address order
  NoFrame     \* Option::None

ASSUME SizesAssumption == FrameSize \in Nat \ {0} /\ MaxOrder \in Nat

VARIABLES
  feature,     \* "alloc-bump" or "alloc-buddy", the one compiled in
  regions,     \* the bootloader's memory map
  region_idx,  \* the cursor: an index into regions ...
  next_addr,   \* ... and an address in that region (0: not yet positioned)
  active,      \* the free lists are carved
  free_lists,  \* for each order the base addresses of its free blocks
  allocated,   \* the allocator's own count of frames handed out
  out          \* the frames handed out (not in the code)

alloc == <<feature, regions, region_idx, next_addr, active, free_lists, allocated, out>>

Orders == 0..MaxOrder
Size(order) == FrameSize * 2^order
MinAddr == FrameSize

AlignUp(a) == ((a + FrameSize - 1) \div FrameSize) * FrameSize
AlignDown(a) == (a \div FrameSize) * FrameSize

\* BuddyFrameAllocator::new and BootFrameAllocator::new.
AllocInit ==
  /\ feature \in {"alloc-bump", "alloc-buddy"} /\ regions \in Maps
  /\ region_idx = 1 /\ next_addr = 0 /\ active = FALSE
  /\ free_lists = [o \in Orders |-> <<>>] /\ allocated = 0 /\ out = {}

-----------------------------------------------------------------------------
(* The cursor.                                                              *)

\* The candidate address in region i, given the cursor.
Candidate(i) ==
  Max({AlignUp(regions[i].start), MinAddr, IF i = region_idx THEN next_addr ELSE 0})

\* Mutant: the end of the frame is not compared with the end of the region.
FitsLoosely(i) == regions[i].usable /\ Candidate(i) < regions[i].end

Fits(i) == regions[i].usable /\ Candidate(i) + FrameSize <= regions[i].end

\* The region the loop of bump_one stops at, past all that cannot serve.
Serving == {i \in region_idx..Len(regions) : Fits(i)}

\* Mutant: the cursor is left where it was.
CursorStays == region_idx' = Min(Serving) /\ next_addr' = Candidate(Min(Serving))

\* bump_one: the cursor moves past the frame it hands out.
bump_one ==
  /\ region_idx' = Min(Serving)
  /\ next_addr' = Candidate(Min(Serving)) + FrameSize

\* BootFrameAllocator::allocate_frame, or the buddy before activate.
CursorAllocate ==
  /\ ~active /\ Serving # {}
  /\ bump_one
  /\ out' = out \cup {Candidate(Min(Serving))}
  /\ allocated' = IF feature = "alloc-buddy" THEN allocated + 1 ELSE allocated
  /\ UNCHANGED <<feature, regions, active, free_lists>>

-----------------------------------------------------------------------------
(* activate.                                                                *)

\* The largest order whose block fits and is aligned; a single frame always is.
FitOrder(start, end) ==
  Max({o \in Orders : o = 0 \/ (Size(o) <= end - start /\ start % Size(o) = 0)})

\* The blocks carved from start up to end, as <<order, address>>.
RECURSIVE Carve(_, _)
Carve(start, end) ==
  IF start + FrameSize > end THEN <<>>
  ELSE LET o == FitOrder(start, end)
       IN  <<<<o, start>>>> \o Carve(start + Size(o), end)

\* Mutants: the cursor's region is carved from its start, or not at all.
PrefixRelisted(i) ==
  IF regions[i].usable /\ i >= region_idx
  THEN Carve(Max({AlignUp(regions[i].start), MinAddr}), AlignDown(regions[i].end))
  ELSE <<>>
CursorRegionSkipped(i) ==
  IF regions[i].usable /\ i > region_idx
  THEN Carve(Candidate(i), AlignDown(regions[i].end))
  ELSE <<>>

\* What region i still has: nothing before the cursor's region, and in that
\* region what lies after the handed-out prefix.
Remainder(i) ==
  IF regions[i].usable /\ i >= region_idx
  THEN Carve(Candidate(i), AlignDown(regions[i].end))
  ELSE <<>>

activate ==
  /\ feature = "alloc-buddy" /\ ~active
  /\ LET blocks == FlattenSeq([i \in 1..Len(regions) |-> Remainder(i)])
         Of(o) == SelectSeq(blocks, LAMBDA b : b[1] = o)
     IN  free_lists' = [o \in Orders |-> [n \in DOMAIN Of(o) |-> Of(o)[n][2]]]
  /\ active' = TRUE /\ region_idx' = Len(regions) + 1
  /\ next_addr' = NoFrame   \* u64::MAX: the cursor retires
  /\ UNCHANGED <<feature, regions, allocated, out>>

-----------------------------------------------------------------------------
(* The free lists.                                                          *)

\* pop a block of this order, or split one of the next: the low half is taken,
\* the high half parked.
RECURSIVE take_block(_, _)
take_block(lists, order) ==
  IF order > MaxOrder THEN [addr |-> NoFrame, lists |-> lists]
  ELSE IF lists[order] # <<>>
  THEN [addr |-> Last(lists[order]), lists |-> [lists EXCEPT ![order] = Front(@)]]
  ELSE LET higher == take_block(lists, order + 1)
       IN  IF higher.addr = NoFrame THEN higher
           ELSE [addr |-> higher.addr,
                 lists |-> [higher.lists EXCEPT ![order] = Append(@, higher.addr + Size(order))]]

ListAllocate ==
  /\ active /\ take_block(free_lists, 0).addr # NoFrame
  /\ free_lists' = take_block(free_lists, 0).lists
  /\ out' = out \cup {take_block(free_lists, 0).addr}
  /\ allocated' = allocated + 1
  /\ UNCHANGED <<feature, regions, region_idx, next_addr, active>>

\* addr ^ (1 << (order + 12)): the neighbour a block can merge with.
Buddy(addr, order) ==
  IF (addr \div Size(order)) % 2 = 0 THEN addr + Size(order) ELSE addr - Size(order)

\* Vec::swap_remove: the last element takes the removed one's place.
SwapRemove(list, pos) == Front([list EXCEPT ![pos] = Last(list)])

\* Mutants: the merged block keeps the freed address; no merge at all.
RECURSIVE MergeAtFreed(_, _, _)
MergeAtFreed(lists, addr, order) ==
  LET found == {n \in DOMAIN lists[order] : lists[order][n] = Buddy(addr, order)}
  IN  IF order = MaxOrder \/ found = {}
      THEN [lists EXCEPT ![order] = Append(@, addr)]
      ELSE MergeAtFreed([lists EXCEPT ![order] = SwapRemove(@, Min(found))], addr, order + 1)
MergeNever(lists, addr, order) == [lists EXCEPT ![order] = Append(@, addr)]

\* Merge upwards while the buddy is free, then push.
RECURSIVE Merge(_, _, _)
Merge(lists, addr, order) ==
  LET found == {n \in DOMAIN lists[order] : lists[order][n] = Buddy(addr, order)}
  IN  IF order = MaxOrder \/ found = {}
      THEN [lists EXCEPT ![order] = Append(@, addr)]
      ELSE Merge([lists EXCEPT ![order] = SwapRemove(@, Min(found))],
                 Min({addr, Buddy(addr, order)}), order + 1)

\* The caller owns the frame; the allocator asserts that it is active.
deallocate_frame(f) ==
  /\ active /\ f \in out
  /\ free_lists' = Merge(free_lists, f, 0)
  /\ out' = out \ {f}
  /\ allocated' = IF allocated = 0 THEN 0 ELSE allocated - 1
  /\ UNCHANGED <<feature, regions, region_idx, next_addr, active>>

\* allocate_frame, and when it returns None.
allocate_frame == CursorAllocate \/ ListAllocate
Exhausted == IF active THEN take_block(free_lists, 0).addr = NoFrame ELSE Serving = {}
-----------------------------------------------------------------------------
\* The whole usable frames of the memory map, the zero page excepted.
UsableFrames ==
  UNION {{a \in MinAddr..regions[i].end : /\ a % FrameSize = 0 /\ a >= regions[i].start
                                          /\ a + FrameSize <= regions[i].end} :
         i \in {i \in 1..Len(regions) : regions[i].usable}}

FramesOf(order, addr) == {addr + k * FrameSize : k \in 0..2^order - 1}
FreeBlocks == UNION {{<<o, n>> : n \in DOMAIN free_lists[o]} : o \in Orders}
BlockFrames(b) == FramesOf(b[1], free_lists[b[1]][b[2]])

\* free_frames(): the boot log's count, and what the self-test compares.
free_frames == MapThenSumSet(LAMBDA o : Len(free_lists[o]) * 2^o, Orders)
=============================================================================

------------------------------ MODULE MemoryInit ------------------------------
(***************************************************************************)
(* memory::init and what follows it at boot, as the allocator's client:    *)
(* map_heap takes a frame for every heap page, map_to takes more for page  *)
(* tables, activate carves the rest, self_test_reclaim takes a frame and   *)
(* gives it back, map_mmio_window takes page tables for the LAPIC window.  *)
(* Then the allocator is free for general use.  Any refusal on the way     *)
(* fails an expect().                                                      *)
(***************************************************************************)
EXTENDS BuddyAllocator

CONSTANTS
  HeapPages,   \* HEAP_SIZE / 4096
  MaxTables    \* bound: page-table frames one map_to takes

ASSUME HeapAssumption == HeapPages \in Nat /\ MaxTables \in Nat

VARIABLES
  phase,   \* where init is
  pages,   \* heap pages still to map
  tables,  \* page-table frames map_to may still take for this page
  before,  \* free_frames() at the start of self_test_reclaim
  taken    \* the frame self_test_reclaim holds

boot == <<phase, pages, tables, before, taken>>
vars == <<alloc, boot>>

Init ==
  /\ AllocInit
  /\ phase = (IF HeapPages = 0 THEN "panic" ELSE "heap") /\ pages = HeapPages
  /\ tables = MaxTables /\ before = 0 /\ taken = NoFrame

Goto(a, b) == phase = a /\ phase' = b

\* map_heap: a frame for the next page, then map_to.
HeapFrame ==
  /\ Goto("heap", "heap_tables") /\ allocate_frame
  /\ pages' = pages - 1 /\ tables' = MaxTables
  /\ UNCHANGED <<before, taken>>

\* map_to asks the allocator for a missing page table.
TableFrame ==
  /\ phase \in {"heap_tables", "mmio"} /\ tables > 0
  /\ allocate_frame
  /\ tables' = tables - 1
  /\ UNCHANGED <<phase, pages, before, taken>>

PageMapped ==
  /\ \/ Goto("heap_tables", "heap") /\ pages > 0
     \/ Goto("heap_tables", "heap_done") /\ pages = 0
  /\ UNCHANGED <<alloc, pages, tables, before, taken>>

\* The heap is live: activate, or nothing at all under alloc-bump.
HeapDone ==
  /\ \/ Goto("heap_done", "reclaim") /\ activate
     \/ Goto("heap_done", "mmio") /\ feature = "alloc-bump" /\ UNCHANGED alloc
  /\ tables' = MaxTables
  /\ UNCHANGED <<pages, before, taken>>

\* self_test_reclaim: count, take a frame ...
ReclaimTake ==
  /\ Goto("reclaim", "give") /\ allocate_frame
  /\ before' = free_frames
  /\ taken' = CHOOSE f \in out' : f \notin out
  /\ UNCHANGED <<pages, tables>>

\* ... assert that it is missing, give it back, assert that it returned.
ReclaimGive ==
  /\ phase = "give" /\ deallocate_frame(taken)
  /\ phase' = IF before = free_frames + 1 /\ before = free_frames' THEN "mmio" ELSE "assert"
  /\ taken' = NoFrame
  /\ UNCHANGED <<pages, tables, before>>

\* map_mmio_window has its tables.
WindowMapped ==
  /\ Goto("mmio", "ready")
  /\ UNCHANGED <<alloc, pages, tables, before, taken>>

\* Later clients.
TakeFrame == phase = "ready" /\ allocate_frame /\ UNCHANGED boot
GiveFrame == phase = "ready" /\ (\E f \in out : deallocate_frame(f)) /\ UNCHANGED boot

\* allocate_frame returns None: boot fails loudly, a later client copes.
Refused ==
  /\ Exhausted
  /\ \/ phase \in {"heap", "reclaim"} /\ phase' = "panic"
     \/ phase \in {"heap_tables", "mmio"} /\ tables > 0 /\ phase' = "panic"
     \/ phase = "ready" /\ phase' = "ready"
  /\ UNCHANGED <<alloc, pages, tables, before, taken>>

Halted == phase \in {"panic", "assert"} /\ UNCHANGED vars

Next ==
  \/ HeapFrame \/ TableFrame \/ PageMapped \/ HeapDone \/ ReclaimTake \/ ReclaimGive
  \/ WindowMapped \/ TakeFrame \/ GiveFrame \/ Refused \/ Halted

Spec == Init /\ [][Next]_vars
-----------------------------------------------------------------------------
\* The frames that can still be handed out: by the cursor, or from the lists.
Obtainable ==
  IF active THEN UNION {BlockFrames(b) : b \in FreeBlocks}
  ELSE {a \in UsableFrames : \E i \in region_idx..Len(regions) :
          regions[i].usable /\ Candidate(i) <= a /\ a + FrameSize <= regions[i].end}

Pool == INSTANCE FramePool WITH
  frames <- UsableFrames, unused <- Obtainable, out <- out

\* Both allocators keep the promise of a frame allocator through bring-up: the
\* switch from cursor to free lists neither loses a frame nor lists one that
\* was handed out, and split and merge change no frame's owner.
ImplementsFramePool == Pool!Spec

\* The type of every variable, and the shape of the free lists: blocks are
\* aligned to their size and never include the zero page.
TypeOK ==
  /\ feature \in {"alloc-bump", "alloc-buddy"} /\ regions \in Maps
  /\ region_idx \in 1..Len(regions) + 1 /\ (next_addr \in Nat <=> ~active)
  /\ active \in BOOLEAN /\ allocated \in Nat /\ out \subseteq UsableFrames
  /\ \A b \in FreeBlocks : LET a == free_lists[b[1]][b[2]]
                           IN  a >= MinAddr /\ a % Size(b[1]) = 0
  /\ phase \in {"heap", "heap_tables", "heap_done", "reclaim", "give", "mmio", "ready",
                "panic", "assert"}
  /\ pages \in 0..HeapPages /\ tables \in 0..MaxTables /\ before \in Nat
  /\ taken \in UsableFrames \cup {NoFrame}

\* No frame has two owners: free blocks overlap neither each other nor a frame
\* that is handed out (buddy.rs:84, "would double-own live memory").
NoDoubleOwner ==
  /\ \A b, c \in FreeBlocks : b # c => BlockFrames(b) \cap BlockFrames(c) = {}
  /\ \A b \in FreeBlocks : BlockFrames(b) \cap out = {}

\* The allocator's ledger is exact: what it counts as handed out is what its
\* clients hold, and with the free lists it accounts for every usable frame.
LedgerBalances ==
  feature = "alloc-buddy" =>
    /\ allocated = Cardinality(out)
    /\ active => free_frames + allocated = Cardinality(UsableFrames)

\* self_test_reclaim's assertions never fire, and it is refused only when
\* bring-up really used up the last frame.
SelfTestHonest ==
  /\ phase # "assert"
  /\ phase = "panic" => out = UsableFrames

\* Pairs of free buddies that nobody merged.
Unmerged ==
  {b \in FreeBlocks : b[1] < MaxOrder /\
     \E n \in DOMAIN free_lists[b[1]] :
       free_lists[b[1]][n] = Buddy(free_lists[b[1]][b[2]], b[1])}

\* Fragmentation heals: no allocation or free leaves more unmerged free buddies
\* than it found ("freeing merges a block with its free buddy back up",
\* buddy.rs:5); only activate may, at the seam of two regions.
FragmentationHeals ==
  [][active => Cardinality(Unmerged') <= Cardinality(Unmerged)]_vars
=============================================================================

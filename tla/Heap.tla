-------------------------------- MODULE Heap --------------------------------
(***************************************************************************)
(* The kernel heap of kernel/stdlib.c: a singly linked list of blocks,    *)
(* each a 24-byte header (size, is_free, next) followed by its data, with *)
(* whole pages taken from mmu_alloc_page when no free block fits.         *)
(*                                                                         *)
(*   blocks  the list from heap_start, in list order: [addr, size, free], *)
(*           addr the header's address, size the data bytes after it     *)
(*   brk     next_free_page of kernel/mmu.c, the page the next            *)
(*           mmu_alloc_page returns (the heap is its only caller)         *)
(*                                                                         *)
(* Addresses are byte addresses.  The operators take and return a heap    *)
(* record [blocks, brk] so that callers (the window manager, the RAM     *)
(* disk) can compose several calls into one step.  calloc and realloc    *)
(* have no callers in the kernel and are not modelled.                    *)
(***************************************************************************)
EXTENDS Integers, Sequences
LOCAL INSTANCE SequencesExt

CONSTANTS
  HeapBase,     \* 0x400000, the first frame mmu_alloc_page hands out
  MaxPages      \* bound on the pages the heap takes

VARIABLES blocks, brk

heapVars == <<blocks, brk>>

Header    == 24        \* sizeof(struct MemBlock)
PageSize  == 4096      \* PAGE_SIZE, what mmu_alloc_page hands out
MinAlloc  == 4096      \* MIN_ALLOC
SplitSlack == 32       \* split only if 32 bytes remain past a new header

Align8(n) == ((n + 7) \div 8) * 8     \* (size + 7) & ~7
Ptr(b)    == b.addr + Header          \* block + 1
End(b)    == b.addr + Header + b.size
Heap0     == [blocks |-> <<>>, brk |-> HeapBase]
HeapNow   == [blocks |-> blocks, brk |-> brk]

(* The index of the block whose data a pointer names (0 if none). *)
BlockOf(h, p) == SelectInSeq(h.blocks, LAMBDA b : Ptr(b) = p)

UsedPtrs(h) == {Ptr(h.blocks[i]) : i \in {j \in DOMAIN h.blocks : ~h.blocks[j].free}}

(* init_block: a free block spanning size bytes, header included. *)
InitBlock(addr, size) == [addr |-> addr, size |-> size - Header, free |-> TRUE]

(* Mutant: the remainder's header is placed without skipping the header. *)
SplitBlockNoHeader(bs, i, s) ==
  LET b == bs[i] IN
  IF b.size >= s + Header + SplitSlack
    THEN InsertAt([bs EXCEPT ![i].size = s], i + 1,
                  [addr |-> b.addr + s, size |-> b.size - s - Header, free |-> TRUE])
    ELSE bs

(* split_block: carve a free block out of the tail of block i. *)
SplitBlock(bs, i, s) ==
  LET b == bs[i] IN
  IF b.size >= s + Header + SplitSlack
    THEN InsertAt([bs EXCEPT ![i].size = s], i + 1,
                  [addr |-> b.addr + Header + s, size |-> b.size - s - Header, free |-> TRUE])
    ELSE bs

(* malloc(size) for size > 0: first fit from heap_start; if nothing fits  *)
(* (or the list is empty) a fresh page becomes a block of                 *)
(* max(size + header, MIN_ALLOC) bytes appended after the last block;     *)
(* then split, mark used, return the data pointer.                        *)
MallocIn(h, size) ==
  LET s     == Align8(size)
      i     == SelectInSeq(h.blocks, LAMBDA b : b.free /\ b.size >= s)
      fresh == i = 0
      asize == IF s + Header < MinAlloc THEN MinAlloc ELSE s + Header
      bs    == IF fresh THEN Append(h.blocks, InitBlock(h.brk, asize)) ELSE h.blocks
      j     == IF fresh THEN Len(bs) ELSE i
      sp    == SplitBlock(bs, j, s)
  IN  [blocks |-> [sp EXCEPT ![j].free = FALSE],
       brk    |-> IF fresh THEN h.brk + PageSize ELSE h.brk,
       ptr    |-> Ptr(bs[j])]

(* A malloc that would take a page past the model's bound. *)
NeedsPage(h, size) ==
  SelectInSeq(h.blocks, LAMBDA b : b.free /\ b.size >= Align8(size)) = 0

CanMalloc(h, size) ==
  NeedsPage(h, size) => h.brk < HeapBase + MaxPages * PageSize

(* Mutant: free merges with the next block whether or not it is free. *)
FreeInAlways(h, p) ==
  LET i  == BlockOf(h, p)
      bs == [h.blocks EXCEPT ![i].free = TRUE]
  IN  IF i < Len(bs)
        THEN [h EXCEPT !.blocks = RemoveAt([bs EXCEPT ![i].size = @ + Header + bs[i + 1].size], i + 1)]
        ELSE [h EXCEPT !.blocks = bs]

(* free(ptr) for ptr # NULL: mark the block free and absorb the next      *)
(* block of the list if that one is free.                                 *)
FreeIn(h, p) ==
  LET i  == BlockOf(h, p)
      bs == [h.blocks EXCEPT ![i].free = TRUE]
  IN  IF i < Len(bs) /\ bs[i + 1].free
        THEN [h EXCEPT !.blocks = RemoveAt([bs EXCEPT ![i].size = @ + Header + bs[i + 1].size], i + 1)]
        ELSE [h EXCEPT !.blocks = bs]

SetHeap(r) == blocks' = r.blocks /\ brk' = r.brk

HeapInit == blocks = <<>> /\ brk = HeapBase

-----------------------------------------------------------------------------
HeapTypeOK ==
  /\ blocks \in Seq([addr : Nat, size : Nat, free : BOOLEAN])
  /\ brk \in {HeapBase + k * PageSize : k \in 0 .. MaxPages}

(* The blocks, in list order, lie back to back and exactly cover the      *)
(* pages the heap has taken from mmu_alloc_page: no block reaches past    *)
(* memory the heap owns and no two blocks overlap.  Split, merge and a    *)
(* fresh page must all preserve it.                                       *)
HeapTiles ==
  /\ blocks # <<>> => blocks[1].addr = HeapBase
  /\ \A i \in 1 .. Len(blocks) - 1 : blocks[i + 1].addr = End(blocks[i])
  /\ brk = IF blocks = <<>> THEN HeapBase ELSE End(blocks[Len(blocks)])

=============================================================================

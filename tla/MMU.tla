-------------------------------- MODULE MMU --------------------------------
(***************************************************************************)
(* The page-table manager and the physical page allocator of              *)
(* kernel/mmu.c: the 4-level x86-64 tables in physical memory, the bump   *)
(* pointer next_free_page, mmu_map_page, mmu_is_mapped, mmu_unmap_page.   *)
(*                                                                         *)
(* Memory is a function from physical frame numbers (address >> 12) to    *)
(* frames of entries.  Each level of a virtual address is an index into   *)
(* a small set (L4Idx .. L1Idx) instead of 0..511; the frame numbers of   *)
(* the fixed addresses the code names are kept: 0x1000 (frame 1), the     *)
(* allocator start 0x400000 (frame 1024), 2 MiB huge pages (512 frames).  *)
(*                                                                         *)
(* The boot loader (not part of the repository) builds the first tables:  *)
(* CR3 -> LoaderPdp -> LoaderPd, whose entries LoaderHuge are 2 MiB huge  *)
(* pages identity-mapping physical memory from 0.  The kernel reaches a   *)
(* physical frame only through that identity mapping.                     *)
(***************************************************************************)
EXTENDS Integers, FiniteSets

CONSTANTS
  Cr3,          \* frame of the loader's PML4, the value of CR3
  LoaderPdp,    \* frame of the loader's PDP table
  LoaderPd,     \* frame of the loader's page directory
  LoaderHuge,   \* directory entries the loader maps as 2 MiB pages
  MapVirts,     \* virtual pages callers map
  UnmapVirts,   \* virtual pages callers unmap
  PhysChoices,  \* frames callers map them to
  FlagChoices,  \* flag sets callers pass to mmu_map_page
  MaxAlloc      \* bound on frames the allocator hands out

VARIABLES
  mem,          \* frame -> slot -> entry
  next,         \* next_free_page >> 12
  faulted,      \* a page fault halted the machine (isr_page_fault_handler)
  call          \* the last call, for the properties: [op, virt, phys, flags]

vars == <<mem, next, faulted, call>>

L4Idx == 0 .. 1
L3Idx == 0 .. 1
L2Idx == 0 .. 2
L1Idx == 0 .. 1
Slots == 0 .. 2
VA    == L4Idx \X L3Idx \X L2Idx \X L1Idx   \* <<pml4, pdp, pd, pt>> indices

LowFrame    == 1              \* 0x1000
AllocBase   == 1024           \* 0x400000
HugeBase(i) == i * 512        \* the 2 MiB page of directory entry i
BootPdLimit == 2              \* 0x400000 is directory entry 2 of PDP 0

AllocFrames == AllocBase .. AllocBase + MaxAlloc - 1
Frames ==
  {0, LowFrame, Cr3, LoaderPdp, LoaderPd} \cup {HugeBase(i) : i \in LoaderHuge}
    \cup AllocFrames \cup PhysChoices

ASSUME LoaderHuge \subseteq L2Idx /\ MapVirts \cup UnmapVirts \subseteq VA

Flags    == {"P", "W", "U", "H"}     \* PAGE_PRESENT, _WRITABLE, _USER, _HUGE
Rights   == {"W", "U"}
Entry    == [frame : Frames \cup {0}, flags : SUBSET (Flags \cup {"data"})]
Zero     == [frame |-> 0, flags |-> {}]
DataWord == [frame |-> 0, flags |-> {"data"}]   \* a word that is no table entry
ZeroFrame == [s \in Slots |-> Zero]
DataFrame == [s \in Slots |-> DataWord]
Unmapped  == [frame |-> -1, rights |-> {}]

Present(e) == "P" \in e.flags
Huge(e)    == "H" \in e.flags

(* The frame the loader's identity mapping lets the kernel touch. *)
Accessible(f) == \E i \in LoaderHuge : f \in HugeBase(i) .. HugeBase(i) + 511

(* The loader's tables; the frame at 0x1000 holds zeros unless it is CR3; *)
(* every other frame holds data.                                         *)
InitMem ==
  [f \in Frames |->
     CASE f = Cr3 ->
            [s \in Slots |-> IF s = 0 THEN [frame |-> LoaderPdp, flags |-> {"P", "W"}]
                                      ELSE Zero]
       [] f = LoaderPdp ->
            [s \in Slots |-> IF s = 0 THEN [frame |-> LoaderPd, flags |-> {"P", "W"}]
                                      ELSE Zero]
       [] f = LoaderPd ->
            [s \in Slots |-> IF s \in LoaderHuge
                               THEN [frame |-> HugeBase(s), flags |-> {"P", "W", "H"}]
                               ELSE Zero]
       [] f = LowFrame -> ZeroFrame
       [] OTHER -> DataFrame]

(* virt < 0x400000: mmu_map_page returns at once. *)
BelowBoot(v) == v[1] = 0 /\ v[2] = 0 /\ v[3] < BootPdLimit

Init ==
  /\ mem = InitMem
  /\ next = AllocBase
  /\ faulted = FALSE
  /\ call = [op |-> "none", virt |-> <<0, 0, 0, 0>>, phys |-> 0, flags |-> {}]

(***************************************************************************)
(* A walk in progress is a record: the memory and allocator it has built  *)
(* so far, the table it stands in, whether it faulted, and whether it ran *)
(* past the model's allocation bound.                                     *)
(***************************************************************************)
Start == [mem |-> mem, next |-> next, tbl |-> Cr3, page |-> 0,
          fault |-> FALSE, over |-> FALSE]

(* Mutant: the cursor is advanced before the page is taken. *)
AllocPageAfterBump(s) ==
  [s EXCEPT !.mem = [@ EXCEPT ![s.next + 1] = ZeroFrame],
            !.next = s.next + 1, !.page = s.next + 1]

(* mmu_alloc_page: take the frame at the cursor, advance, zero the frame   *)
(* (a page fault if the loader's mapping does not reach it).              *)
AllocPage(s) ==
  IF Accessible(s.next)
    THEN [s EXCEPT !.mem = [@ EXCEPT ![s.next] = ZeroFrame],
                   !.next = s.next + 1, !.page = s.next]
    ELSE [s EXCEPT !.next = s.next + 1, !.fault = TRUE]

(* Mutant: intermediate entries get only PAGE_PRESENT. *)
EnsureTablePresentOnly(s, idx, fl) ==
  IF s.fault \/ s.over THEN s
  ELSE IF Present(s.mem[s.tbl][idx]) THEN [s EXCEPT !.tbl = s.mem[s.tbl][idx].frame]
  ELSE IF s.next >= AllocBase + MaxAlloc THEN [s EXCEPT !.over = TRUE]
  ELSE LET a == AllocPage(s) IN
       IF a.fault THEN a
       ELSE [a EXCEPT !.mem[s.tbl][idx] = [frame |-> a.page, flags |-> {"P"}],
                      !.tbl = a.page]

(* One level of mmu_map_page: if the entry is not present, allocate a     *)
(* table and store "table | flags" (the caller's flags) in the entry;     *)
(* then descend to the table the entry names.                             *)
EnsureTable(s, idx, fl) ==
  IF s.fault \/ s.over THEN s
  ELSE IF Present(s.mem[s.tbl][idx]) THEN [s EXCEPT !.tbl = s.mem[s.tbl][idx].frame]
  ELSE IF s.next >= AllocBase + MaxAlloc THEN [s EXCEPT !.over = TRUE]
  ELSE LET a == AllocPage(s) IN
       IF a.fault THEN a
       ELSE [a EXCEPT !.mem[s.tbl][idx] = [frame |-> a.page, flags |-> fl],
                      !.tbl = a.page]

(* Mutant: the huge-page check is missing. *)
MapWalkNoHugeCheck(p, v, fl) ==
  LET s2 == EnsureTable(EnsureTable(Start, v[1], fl), v[2], fl)
      s3 == EnsureTable(s2, v[3], fl)
  IN  IF s3.fault \/ s3.over THEN s3
      ELSE [s3 EXCEPT !.mem[s3.tbl][v[4]] = [frame |-> p, flags |-> fl]]

(* Mutant: the leaf is written without its flags (pt[i] = phys). *)
MapWalkNoFlags(p, v, fl) ==
  LET s2 == EnsureTable(EnsureTable(Start, v[1], fl), v[2], fl)
      s3 == EnsureTable(s2, v[3], fl)
  IN  IF s2.fault \/ s2.over \/ Huge(s2.mem[s2.tbl][v[3]]) THEN s2
      ELSE IF s3.fault \/ s3.over THEN s3
      ELSE [s3 EXCEPT !.mem[s3.tbl][v[4]] = [frame |-> p, flags |-> {}]]

(* The walk of mmu_map_page past its early return: PML4 and PDP levels,   *)
(* the huge-page check on the directory entry, the PT level, the leaf.    *)
MapWalk(p, v, fl) ==
  LET s2 == EnsureTable(EnsureTable(Start, v[1], fl), v[2], fl)
      s3 == EnsureTable(s2, v[3], fl)
  IN  IF s2.fault \/ s2.over \/ Huge(s2.mem[s2.tbl][v[3]]) THEN s2
      ELSE IF s3.fault \/ s3.over THEN s3
      ELSE [s3 EXCEPT !.mem[s3.tbl][v[4]] = [frame |-> p, flags |-> fl]]

(* mmu_map_page(phys, virt, flags).  A walk that would need more than     *)
(* MaxAlloc frames in all is outside the model.                           *)
MapPage(p, v, fl) ==
  /\ ~faulted
  /\ LET s == IF BelowBoot(v) THEN Start ELSE MapWalk(p, v, fl)
     IN  /\ ~s.over
         /\ mem' = s.mem /\ next' = s.next /\ faulted' = s.fault
  /\ call' = [op |-> "map", virt |-> v, phys |-> p, flags |-> fl]

(* mmu_is_mapped(virt): the walk from CR3; a huge directory entry counts  *)
(* as mapped before its present bit is looked at.                         *)
IsMappedIn(m, v) ==
  LET e4 == m[Cr3][v[1]] IN
  IF ~Present(e4) THEN FALSE ELSE
  LET e3 == m[e4.frame][v[2]] IN
  IF ~Present(e3) THEN FALSE ELSE
  LET e2 == m[e3.frame][v[3]] IN
  IF Huge(e2) THEN TRUE ELSE
  IF ~Present(e2) THEN FALSE ELSE Present(m[e2.frame][v[4]])

(* The table mmu_unmap_page writes into: the walk from the fixed address  *)
(* 0x1000, with no huge-page check on the directory entry; -1 if it       *)
(* returns early.                                                         *)
UnmapLeafTable(v) ==
  LET e4 == mem[LowFrame][v[1]] IN
  IF ~Present(e4) THEN -1 ELSE
  LET e3 == mem[e4.frame][v[2]] IN
  IF ~Present(e3) THEN -1 ELSE
  LET e2 == mem[e3.frame][v[3]] IN
  IF ~Present(e2) THEN -1 ELSE e2.frame

(* Mutant: the leaf is cleared at the directory index. *)
UnmapPagePdIdx(v) ==
  /\ ~faulted
  /\ LET t == UnmapLeafTable(v)
     IN  mem' = IF t = -1 THEN mem ELSE [mem EXCEPT ![t][v[3]] = Zero]
  /\ call' = [op |-> "unmap", virt |-> v, phys |-> 0, flags |-> {}]
  /\ UNCHANGED <<next, faulted>>

(* mmu_unmap_page(virt): zero the leaf entry. *)
UnmapPage(v) ==
  /\ ~faulted
  /\ LET t == UnmapLeafTable(v)
     IN  mem' = IF t = -1 THEN mem ELSE [mem EXCEPT ![t][v[4]] = Zero]
  /\ call' = [op |-> "unmap", virt |-> v, phys |-> 0, flags |-> {}]
  /\ UNCHANGED <<next, faulted>>

Next ==
  \/ \E p \in PhysChoices, v \in MapVirts, fl \in FlagChoices : MapPage(p, v, fl)
  \/ \E v \in UnmapVirts : UnmapPage(v)

Spec == Init /\ [][Next]_vars

-----------------------------------------------------------------------------
(***************************************************************************)
(* The translation the tables give the CPU (refinement mapping): a 2 MiB  *)
(* entry maps the frame at its base plus the page's offset; the rights    *)
(* are those granted at every level, as the MMU combines them.            *)
(***************************************************************************)
Translation(v) ==
  LET e4 == mem[Cr3][v[1]] IN
  IF ~Present(e4) THEN Unmapped ELSE
  LET e3 == mem[e4.frame][v[2]] IN
  IF ~Present(e3) THEN Unmapped ELSE
  LET e2 == mem[e3.frame][v[3]] IN
  IF ~Present(e2) THEN Unmapped ELSE
  IF Huge(e2)
    THEN [frame |-> e2.frame + v[4], rights |-> Rights \cap e4.flags \cap e3.flags \cap e2.flags]
    ELSE LET e1 == mem[e2.frame][v[4]] IN
         IF ~Present(e1) THEN Unmapped
         ELSE [frame |-> e1.frame,
               rights |-> Rights \cap e4.flags \cap e3.flags \cap e2.flags \cap e1.flags]

Fixed == {v \in VA : v[1] = 0 /\ v[2] = 0 /\ (v[3] < BootPdLimit \/ v[3] \in LoaderHuge)}

BootMap ==
  [v \in Fixed |-> IF v[3] \in LoaderHuge
                     THEN [frame |-> HugeBase(v[3]) + v[4], rights |-> {"W"}]
                     ELSE Unmapped]

VM == INSTANCE VirtualMemory WITH vmap <- [v \in VA |-> Translation(v)], req <- call

(* The frames the walk from CR3 uses as tables (huge pages excluded). *)
TableFrames ==
  LET Below(T, idx, Descend(_)) ==
        UNION {{mem[t][i].frame : i \in {j \in idx : Descend(mem[t][j])}} : t \in T}
      Table(e) == Present(e) /\ ~Huge(e)
      pdps == Below({Cr3}, L4Idx, Present)
      pds  == Below(pdps, L3Idx, Present)
      pts  == Below(pds, L2Idx, Table)
  IN  {Cr3} \cup pdps \cup pds \cup pts

-----------------------------------------------------------------------------
TypeOK ==
  /\ mem \in [Frames -> [Slots -> Entry]]
  /\ next \in AllocBase .. AllocBase + MaxAlloc
  /\ faulted \in BOOLEAN
  /\ call \in [op : {"none", "map", "unmap"}, virt : VA, phys : PhysChoices \cup {0},
               flags : SUBSET Flags]

(* The page tables implement the abstract translation: every map and      *)
(* unmap changes exactly the page it names, grants the rights asked for,  *)
(* and never touches the boot loader's fixed mappings.                    *)
VMRefinement == VM!Spec

(* Memory that is neither a page table reached from CR3 nor a frame the   *)
(* allocator has handed out keeps its contents: mmu_map_page and          *)
(* mmu_unmap_page write nowhere else (in particular not into the data of  *)
(* the loader's huge pages).                                              *)
FramesIntact ==
  \A f \in Frames \ (TableFrames \cup (AllocBase .. next - 1)) :
    mem[f] = InitMem[f]

(* After mmu_map_page(phys, virt, flags) returns, mmu_is_mapped(virt)     *)
(* holds, and no page that was unmapped before became mapped.             *)
MapThenMapped ==
  [][ call'.op = "map" /\ ~faulted' =>
        /\ IsMappedIn(mem', call'.virt)
        /\ \A u \in VA \ {call'.virt} : IsMappedIn(mem', u) => IsMappedIn(mem, u) ]_vars

(* After mmu_unmap_page(virt) of a page outside the fixed boot mapping,   *)
(* mmu_is_mapped(virt) is false.                                          *)
UnmapClears ==
  [][ call'.op = "unmap" /\ call'.virt \notin Fixed => ~IsMappedIn(mem', call'.virt) ]_vars

(* The allocator never hands out a frame the kernel cannot reach.         *)
NoAllocFault == ~faulted

=============================================================================

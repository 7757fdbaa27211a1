--------------------------- MODULE VirtualMemory ---------------------------
(***************************************************************************)
(* What the page-table manager of kernel/mmu.c promises its callers, with *)
(* the page tables abstracted away: a translation from virtual pages to    *)
(* physical frames and the access rights the mapping grants.               *)
(*                                                                         *)
(*  - the pages the boot loader mapped (below the 0x400000 threshold of   *)
(*    mmu_map_page, or under one of its huge pages) are fixed: map and     *)
(*    unmap leave them as they are;                                        *)
(*  - map(phys, virt, flags) makes virt translate to phys with the rights  *)
(*    that flags ask for, and changes no other page;                       *)
(*  - unmap(virt) removes the translation of virt and of no other page.    *)
(***************************************************************************)
EXTENDS Integers

CONSTANTS
  VA,           \* virtual pages
  Fixed,        \* pages the boot loader's mapping owns
  BootMap,      \* their translation: [Fixed -> Mapping]
  PhysChoices,  \* frames callers map
  FlagChoices   \* flag sets callers pass

VARIABLES
  vmap,   \* [VA -> Mapping \cup {Unmapped}]
  req     \* the last request: [op, virt, phys, flags]

Rights    == {"W", "U"}           \* writable, user-accessible
Unmapped  == [frame |-> -1, rights |-> {}]

Init ==
  /\ vmap = [v \in VA |-> IF v \in Fixed THEN BootMap[v] ELSE Unmapped]
  /\ req.op = "none"

Map(p, v, fl) ==
  /\ req' = [op |-> "map", virt |-> v, phys |-> p, flags |-> fl]
  /\ vmap' = IF v \in Fixed THEN vmap
             ELSE [vmap EXCEPT ![v] = [frame |-> p, rights |-> fl \cap Rights]]

Unmap(v) ==
  /\ req' = [op |-> "unmap", virt |-> v, phys |-> 0, flags |-> {}]
  /\ vmap' = IF v \in Fixed THEN vmap ELSE [vmap EXCEPT ![v] = Unmapped]

Next ==
  \/ \E p \in PhysChoices, v \in VA, fl \in FlagChoices : Map(p, v, fl)
  \/ \E v \in VA : Unmap(v)

Spec == Init /\ [][Next]_<<vmap, req>>

=============================================================================

------------------------------ MODULE MC_MMU ------------------------------
(* Model-checking instance of MMU.  Virtual pages are <<pml4, pdp, pd, pt>> *)
(* index tuples; frames are physical addresses >> 12.                       *)
EXTENDS MMU

MCRoot0x1000  == 1            \* CR3 = 0x1000, the root mmu_unmap_page assumes
MCRootElse    == 2            \* any other root frame
MCPdp         == 3
MCPd          == 4
MCHugeAll     == {0, 1, 2}    \* loader maps all of PD 0 (up past 0x400000)
MCHugeFourMiB == {0, 1}       \* loader maps 0..4 MiB (mmu.c:13, mmu.c:47)
MCData        == {2048, 2049} \* 0x800000, 0x801000
MCRW          == {{"P", "W"}}
MCMixed       == {{"P"}, {"P", "W"}}
(* Pages above the boot region: a new directory and table (<<0,1,..>>),   *)
(* a whole new PDP branch (<<1,..>>), one inside and one below it.        *)
MCMapVirts    == {<<0, 1, 0, 0>>, <<0, 1, 0, 1>>, <<0, 1, 1, 0>>, <<1, 0, 0, 1>>,
                  <<0, 0, 2, 0>>, <<0, 0, 1, 1>>}
MCMapPair     == {<<0, 1, 0, 0>>, <<0, 1, 0, 1>>}
MCUnmapOwn    == {<<0, 1, 0, 1>>, <<1, 0, 0, 1>>}
MCUnmapHuge   == {<<0, 1, 0, 1>>, <<0, 0, 2, 0>>}
=============================================================================

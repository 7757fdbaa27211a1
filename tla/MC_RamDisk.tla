----------------------------- MODULE MC_RamDisk -----------------------------
(* Model-checking instance of RamDisk with the struct sizes of the x86_64 *)
(* build.  RAMDISK_SIZE is lowered to 8 KiB (16 blocks): like 1 MiB it is *)
(* more than a page, so malloc treats it alike, and the bump pointer can  *)
(* run past the end in a few steps.  Four names, one of them too long,   *)
(* for two file slots; one-block writes at block 0 and 1, and writes of  *)
(* the whole disk.                                                        *)
EXTENDS RamDisk

MCHeapBase    == 4194304           \* 0x400000
MCNames       == {"a", "b", "c", "long"}
MCLongNames   == {"long"}
MCFSSize      == 56                \* sizeof(struct FileSystem)
MCRamDiskSize == 5144              \* sizeof(struct RamDisk): 8 + 64 * 80 + 12, padded
MCDataSize    == 8192              \* RAMDISK_SIZE, lowered from 1 MiB
MCNodeSize    == 328               \* sizeof(struct FSNode)
MCOffsets     == {0, 512}
MCSizes       == {512, 8192}
=============================================================================

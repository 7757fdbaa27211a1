----------------------------- MODULE MC_Storage -----------------------------
(* Model-checking instance of Storage with the struct sizes of the x86_64 *)
(* build.  MAX_STORAGE_DEVICES is lowered from 16 to 2 so that a full     *)
(* registry is reached with three devices.  Drives hold two sectors, so   *)
(* a two-sector request at sector 1 runs past the end.                    *)
EXTENDS Storage

MCHeapBase == 4194304     \* 0x400000
MCDevSize  == 144         \* sizeof(struct StorageDevice): info 128, ops, private_data
MCIdeSize  == 20          \* sizeof(struct IDEDevice)
MCLbas     == {0, 1}
MCCounts   == {1, 2}
=============================================================================

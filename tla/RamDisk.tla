------------------------------- MODULE RamDisk -------------------------------
(***************************************************************************)
(* The RAM disk of drivers/fs/ramdisk.c over the kernel heap (Heap).      *)
(* ramdisk_create takes three blocks from malloc (struct FileSystem,      *)
(* struct RamDisk, the RAMDISK_SIZE data area); files take consecutive    *)
(* 512-byte blocks of the data area from a bump pointer.                  *)
(*                                                                         *)
(*   disk       [fs, dev, data]: the three pointers malloc returned, all  *)
(*              0 (NoDisk) before ramdisk_create                           *)
(*   files      files[1..MaxFiles]: [name, size, start, count, inUse]     *)
(*   freeStart  free_block_start                                           *)
(*   freeBlocks free_blocks                                                *)
(*                                                                         *)
(* A file is named by a model value; a name of NAME_LEN characters or     *)
(* more is one of LongNames.  File contents, times and flags are left     *)
(* out: the properties are about which blocks a file owns.  Calls that    *)
(* return -1 without changing anything are stuttering steps.  The uint32  *)
(* fields wrap only past 4 GiB, beyond the offsets and sizes checked.     *)
(***************************************************************************)
EXTENDS Heap, FiniteSets
LOCAL INSTANCE SequencesExt

CONSTANTS
  Names,         \* file names callers pass
  LongNames,     \* those with strlen >= RAMDISK_MAX_NAME_LEN
  MaxFiles,      \* RAMDISK_MAX_FILES
  FSSize,        \* sizeof(struct FileSystem)
  RamDiskSize,   \* sizeof(struct RamDisk)
  DataSize,      \* RAMDISK_SIZE
  NodeSize,      \* sizeof(struct FSNode)
  Offsets,       \* offsets callers write at
  Sizes,         \* sizes callers write
  MaxStart       \* bound on free_block_start

ASSUME LongNames \subseteq Names /\ "" \notin Names

VARIABLES disk, files, freeStart, freeBlocks

diskVars == <<disk, files, freeStart, freeBlocks>>
vars     == <<blocks, brk, disk, files, freeStart, freeBlocks>>

BlockSize   == 512                     \* RAMDISK_BLOCK_SIZE
TotalBlocks == DataSize \div BlockSize  \* total_blocks
NoName      == ""                       \* a zeroed name[]

NoDisk      == [fs |-> 0, dev |-> 0, data |-> 0]

(* A zeroed struct RamDiskFile. *)
Empty == [name |-> NoName, size |-> 0, start |-> 0, count |-> 0, inUse |-> FALSE]

(* find_file_by_name: the first entry in use with that name, or 0. *)
FileIndex(n) ==
  SelectInSeq(files, LAMBDA f : f.inUse /\ f.name = n)

(* find_free_file: the first entry not in use, or 0. *)
FreeIndex == SelectInSeq(files, LAMBDA f : ~f.inUse)

(* ramdisk_create: malloc the FileSystem, the RamDisk and its data,       *)
(* zero the files, all blocks free from block 0.  (No malloc fails:       *)
(* mmu_alloc_page never returns NULL.)                                     *)
RamdiskCreate ==
  /\ disk = NoDisk
  /\ \E m1 \in {MallocIn(HeapNow, FSSize)} :
     \E m2 \in {MallocIn(m1, RamDiskSize)} :
     \E m3 \in {MallocIn(m2, DataSize)} :
       /\ CanMalloc(HeapNow, FSSize) /\ CanMalloc(m1, RamDiskSize)
       /\ CanMalloc(m2, DataSize)
       /\ SetHeap(m3)
       /\ disk' = [fs |-> m1.ptr, dev |-> m2.ptr, data |-> m3.ptr]
  /\ files' = [i \in 1 .. MaxFiles |-> Empty]
  /\ freeStart' = 0
  /\ freeBlocks' = TotalBlocks

(* ramdisk_destroy: free the data, the RamDisk, the FileSystem. *)
RamdiskDestroy ==
  /\ disk # NoDisk
  /\ SetHeap(FreeIn(FreeIn(FreeIn(HeapNow, disk.data), disk.dev), disk.fs))
  /\ disk' = NoDisk
  /\ UNCHANGED <<files, freeStart, freeBlocks>>

(* ramdisk_create_file: refuse a long name, an existing name, a full     *)
(* table; else the first free entry becomes an empty file.                *)
CreateFile(n) ==
  /\ disk # NoDisk
  /\ n \notin LongNames
  /\ FileIndex(n) = 0
  /\ FreeIndex # 0
  /\ files' = [files EXCEPT ![FreeIndex] = [Empty EXCEPT !.name = n, !.inUse = TRUE]]
  /\ UNCHANGED <<blocks, brk, disk, freeStart, freeBlocks>>

(* ramdisk_delete_file: give block_count back to free_blocks and zero the *)
(* entry; free_block_start stays where it is.                             *)
DeleteFile(n) ==
  /\ disk # NoDisk
  /\ FileIndex(n) # 0
  /\ freeBlocks' = freeBlocks + files[FileIndex(n)].count
  /\ files' = [files EXCEPT ![FileIndex(n)] = Empty]
  /\ UNCHANGED <<blocks, brk, disk, freeStart>>

(* allocate_blocks: refuse a count above free_blocks. *)
CanAllocate(count) == count <= freeBlocks

(* Mutant: allocate_blocks does not compare count with free_blocks. *)
WriteFileNoSpaceCheck(n, off, sz) ==
  LET i    == FileIndex(n)
      f    == files[i]
      req  == (off + sz + BlockSize - 1) \div BlockSize
      grow == req > f.count
      more == req - f.count
  IN  /\ disk # NoDisk
      /\ i # 0
      /\ grow => freeStart + more <= MaxStart
      /\ files' = [files EXCEPT
                     ![i].start = IF grow THEN freeStart ELSE @,
                     ![i].count = IF grow THEN req ELSE @,
                     ![i].size  = IF off + sz > @ THEN off + sz ELSE @]
      /\ freeStart'  = IF grow THEN freeStart + more ELSE freeStart
      /\ freeBlocks' = IF grow THEN freeBlocks - more ELSE freeBlocks
      /\ UNCHANGED <<blocks, brk, disk>>

(* ramdisk_write(offset, size): if the file needs more blocks than it     *)
(* has, allocate_blocks reserves the missing ones at free_block_start     *)
(* (or the call fails) and the file moves there, copied, with all its     *)
(* blocks; then the size grows to offset + size.                          *)
WriteFile(n, off, sz) ==
  LET i    == FileIndex(n)
      f    == files[i]
      req  == (off + sz + BlockSize - 1) \div BlockSize
      grow == req > f.count
      more == req - f.count
  IN  /\ disk # NoDisk
      /\ i # 0
      /\ grow => CanAllocate(more)
      /\ grow => freeStart + more <= MaxStart
      /\ files' = [files EXCEPT
                     ![i].start = IF grow THEN freeStart ELSE @,
                     ![i].count = IF grow THEN req ELSE @,
                     ![i].size  = IF off + sz > @ THEN off + sz ELSE @]
      /\ freeStart'  = IF grow THEN freeStart + more ELSE freeStart
      /\ freeBlocks' = IF grow THEN freeBlocks - more ELSE freeBlocks
      /\ UNCHANGED <<blocks, brk, disk>>

(* Mutant: ramdisk_read copies size bytes without clamping to the end. *)
ReadSizeNoClamp(f, off, sz) == IF off >= f.size THEN 0 ELSE sz

(* The byte count ramdisk_read copies: none from at or past the end of   *)
(* the file, else size bytes clamped to the end.                          *)
ReadSize(f, off, sz) ==
  IF off >= f.size THEN 0
  ELSE IF off + sz > f.size THEN f.size - off ELSE sz

(* ramdisk_read copies ReadSize bytes from block_start * 512 + offset     *)
(* and sets access_time, which is not kept: no state the model keeps     *)
(* changes.                                                                *)
ReadFile(n) ==
  /\ disk # NoDisk
  /\ FileIndex(n) # 0
  /\ UNCHANGED vars

(* ramdisk_find_file: malloc an FSNode describing the file; the caller    *)
(* owns it and nothing in the kernel frees it.                            *)
FindFile(n) ==
  /\ disk # NoDisk
  /\ FileIndex(n) # 0
  /\ CanMalloc(HeapNow, NodeSize)
  /\ SetHeap(MallocIn(HeapNow, NodeSize))
  /\ UNCHANGED diskVars

Init ==
  /\ HeapInit
  /\ disk = NoDisk
  /\ files = [i \in 1 .. MaxFiles |-> Empty]
  /\ freeStart = 0
  /\ freeBlocks = 0

Next ==
  \/ RamdiskCreate
  \/ RamdiskDestroy
  \/ \E n \in Names :
       \/ CreateFile(n)
       \/ DeleteFile(n)
       \/ FindFile(n)
       \/ ReadFile(n)
       \/ \E off \in Offsets, sz \in Sizes : WriteFile(n, off, sz)

Spec == Init /\ [][Next]_vars

-----------------------------------------------------------------------------
InUse == {i \in 1 .. MaxFiles : files[i].inUse}
Owned(i) == {files[i].start + k : k \in 0 .. files[i].count - 1}

TypeOK ==
  /\ HeapTypeOK
  /\ disk \in [fs : Nat, dev : Nat, data : Nat]
  /\ files \in [1 .. MaxFiles -> [name : Names \cup {NoName}, size : Nat,
                                  start : Nat, count : Nat, inUse : BOOLEAN]]
  /\ freeStart \in Nat /\ freeBlocks \in 0 .. TotalBlocks

(* The blocks of the files in use are blocks of the data area, and no    *)
(* block belongs to two files: a write never lands in another file's      *)
(* data or past RAMDISK_SIZE.                                             *)
BlocksDisjoint ==
  /\ \A i \in InUse : Owned(i) \subseteq 0 .. TotalBlocks - 1
  /\ \A i, j \in InUse : i # j => Owned(i) \cap Owned(j) = {}

(* Whatever offset and size a caller passes, the bytes ramdisk_read      *)
(* copies lie inside the blocks the file holds: the read's clamp to       *)
(* file->size and the block count ramdisk_write computes from offset +    *)
(* size must agree across any sequence of writes.                         *)
ReadInOwnBlocks ==
  \A i \in InUse, off \in Offsets, sz \in Sizes :
    LET f == files[i] IN
    ReadSize(f, off, sz) > 0 =>
      f.start * BlockSize + off + ReadSize(f, off, sz) <= (f.start + f.count) * BlockSize

=============================================================================

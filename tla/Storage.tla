------------------------------- MODULE Storage -------------------------------
(***************************************************************************)
(* The storage registry of drivers/storage/storage.c and the IDE driver of *)
(* drivers/storage/ide.c, over the kernel heap (Heap), with an ATA drive  *)
(* pair on the primary channel (0x1F0) as the other side of the port I/O. *)
(*                                                                         *)
(*   registry  devices[0 .. num_devices - 1], in order                     *)
(*   devs      the StorageDevice blocks ide_init_device returned and that *)
(*             are not yet freed: dev ptr -> [ide, slave, lba48], ide     *)
(*             the IDEDevice block private_data points at                 *)
(*   drive     each drive's status bits and the command it is executing:  *)
(*             next sector, sectors left, and pend while the status still *)
(*             shows what it showed before the command was written        *)
(*   sel       the drive select bit of register base + 6                   *)
(*   call      the driver call in progress and where it is               *)
(*   last      what the last finished call returned, and ok: every       *)
(*             sector it moved was the one asked for, with DRQ set        *)
(*   uaf       storage_unregister_device has read a freed device          *)
(*                                                                         *)
(* Nothing in the kernel calls these drivers yet (main.c only keeps a     *)
(* storage_mode setting), so the caller is the environment: it creates   *)
(* devices, registers, unregisters and frees them, and reads and writes   *)
(* through ide_read_sectors / ide_write_sectors (ide.h) or through the    *)
(* StorageDeviceOps table.  Register and port numbers are abstracted to   *)
(* the status bits and command parameters the drive acts on; the          *)
(* identify strings (model, serial), which are discarded, are left out.   *)
(***************************************************************************)
EXTENDS Heap, FiniteSets, TLC
LOCAL INSTANCE SequencesExt

CONSTANTS
  Present,      \* the drives (0 master, 1 slave) attached to the channel
  Lba48,        \* the present drives whose identify data sets bit 26 of words 82-83
  Capacity,     \* sectors on each drive
  Lbas,         \* sector numbers the caller asks for
  Counts,       \* sector counts the caller asks for
  StatusLag,    \* the status may still show the old value right after a command
  DevSize,      \* sizeof(struct StorageDevice)
  IdeSize,      \* sizeof(struct IDEDevice)
  MaxDevices,   \* MAX_STORAGE_DEVICES
  MaxCalls      \* bound on the caller's driver calls

VARIABLES registry, devs, drive, sel, call, last, ncalls, uaf

vars == <<blocks, brk, registry, devs, drive, sel, call, last, ncalls, uaf>>

Slaves  == {0, 1}
Bits    == {"BSY", "DRDY", "DRQ", "ERR"}
Cmds    == {"none", "identify", "read", "write", "flush"}
NoPtr   == 0

DriveIdle == [st |-> {"DRDY"}, cmd |-> "none", next |-> 0, left |-> 0, pend |-> FALSE]

NoCall == [fn |-> "none", step |-> "none", dev |-> NoPtr, ide |-> NoPtr, slave |-> 0,
           lba |-> 0, n |-> 0, left |-> 0, ok |-> TRUE, via |-> "direct"]

(* Port base + 7 read through the selected drive: a drive that is absent  *)
(* reads 0 while the other one answers, and a channel with no drive        *)
(* floats to 0xFF, every bit set.                                         *)
StatusOf(s) ==
  IF s \in Present THEN drive[s].st
  ELSE IF 1 - s \in Present THEN {} ELSE Bits

(* ide_wait_ready's exit condition. *)
Ready(S) == "BSY" \notin S /\ "DRDY" \in S

(* A call through the ops table passes the StorageDevice where the IDE     *)
(* functions expect an IDEDevice: base is the first two bytes of          *)
(* info.name ("id", 0x6469), where no device decodes the ports, so the    *)
(* status read there never shows a ready drive.                           *)
ReadyFor(c) == c.via = "direct" /\ Ready(StatusOf(sel))

(* The sector number and count the drive takes from the register writes. *)
(* LBA28 writes each register once.  The LBA48 path writes ports 2-4      *)
(* twice, low bytes first: each of those registers keeps the last two     *)
(* bytes as (previous, current), so the drive reads the count as          *)
(* sectors * 256 + lba[31:24] and the address with lba[7:0] and lba[15:8]  *)
(* in bits 24-39.  Port 5 is written once; its previous byte is the last  *)
(* command's lba[23:16], 0 for the sector numbers of the model.           *)
RECURSIVE Byte(_, _)
Byte(x, k) == IF k = 0 THEN x % 256 ELSE Byte(x \div 256, k - 1)
Lba28Command(lba, n) == [lba |-> lba % (2 ^ 28), count |-> IF n = 0 THEN 256 ELSE n]
Lba48Command(lba, n) ==
  LET count == n * 256 + Byte(lba, 3) IN
  [lba   |-> ((((Byte(lba, 1) * 256 + Byte(lba, 0)) * 256 + Byte(lba, 2)) * 256
             + Byte(lba, 5)) * 256 + Byte(lba, 4)),
   count |-> IF count = 0 THEN 65536 ELSE count]

(* Writing the command register of a drive in state dr.  The ATA         *)
(* standard leaves a command written while BSY or DRQ is set              *)
(* indeterminate: the drive takes it or ignores it.  A taken command      *)
(* shows BSY at once, or (StatusLag) only once the drive gets to it.      *)
Taken(dr, c, lba, cnt) ==
  [st |-> IF StatusLag THEN dr.st ELSE {"BSY"}, cmd |-> c, next |-> lba,
   left |-> cnt, pend |-> StatusLag]

CommandOutcomes(dr, c, lba, cnt) ==
  IF dr.st \cap {"BSY", "DRQ"} = {} THEN {Taken(dr, c, lba, cnt)}
  ELSE {Taken(dr, c, lba, cnt), dr}

IssueCommand(s, c, lba, cnt) ==
  IF s \in Present
    THEN \E dr \in CommandOutcomes(drive[s], c, lba, cnt) : drive' = [drive EXCEPT ![s] = dr]
    ELSE UNCHANGED drive

(* The drive's side of one sector of data moved while DRQ is set: after   *)
(* identify and the last sector of a read it is done; otherwise it is     *)
(* busy reading the next sector or writing the one it received.           *)
AfterSector(dr) ==
  IF dr.cmd = "identify" \/ (dr.cmd = "read" /\ dr.left = 1)
    THEN DriveIdle
    ELSE [dr EXCEPT !.st = {"BSY"}, !.next = @ + 1, !.left = @ - 1]

(* The host moves 256 words through port base: the drive advances only    *)
(* if it was really asking for them.                                      *)
Sector(dr) == IF "DRQ" \in dr.st /\ ~dr.pend THEN AfterSector(dr) ELSE dr

Finish(ret, ok) ==
  /\ last' = [fn |-> call.fn, ret |-> ret, ok |-> ok]
  /\ call' = NoCall

-----------------------------------------------------------------------------
(* ide_init_device(0x1F0, s) up to ide_identify's status loop: malloc the *)
(* StorageDevice and the IDEDevice, fill them in, select the drive, zero  *)
(* the count and LBA registers and write IDENTIFY.                         *)
IdeInitDevice(s) ==
  LET h1 == MallocIn(HeapNow, DevSize)
      h2 == MallocIn(h1, IdeSize)
  IN  /\ call = NoCall /\ ncalls < MaxCalls
      /\ CanMalloc(HeapNow, DevSize) /\ CanMalloc(h1, IdeSize)
      /\ SetHeap(h2)
      /\ sel' = s
      /\ IssueCommand(s, "identify", 0, 1)
      /\ call' = [NoCall EXCEPT !.fn = "init", !.step = "poll", !.dev = h1.ptr,
                                !.ide = h2.ptr, !.slave = s]
      /\ ncalls' = ncalls + 1
      /\ UNCHANGED <<registry, devs, last, uaf>>

(* Mutant: the failure path frees the StorageDevice only. *)
InitFailedNoIdeFree(h, c) == {FreeIn(h, c.dev)}

(* ide_init_device when ide_identify returns -1: free(ide_dev), then      *)
(* free(dev) (a set of one heap, so that TLC computes it once).            *)
InitFailed(h, c) == {FreeIn(h1, c.dev) : h1 \in {FreeIn(h, c.ide)}}

(* ide_identify's loop sees ERR (tested first) or DRQ.  ERR returns -1.  *)
(* On DRQ it reads 256 words: use_lba48 is the drive's when they answer   *)
(* this IDENTIFY, and whatever bit 26 of a stale sector holds otherwise;  *)
(* ide_init_device then gives the device ide_ops and returns it.          *)
IdentifyStatus ==
  LET S     == StatusOf(sel)
      fresh == sel \in Present /\ drive[sel].cmd = "identify" /\ ~drive[sel].pend
  IN  /\ call.step = "poll" /\ S \cap {"ERR", "DRQ"} # {}
      /\ IF "ERR" \in S
           THEN /\ call' = [call EXCEPT !.step = "failed"]
                /\ UNCHANGED <<drive, devs, last>>
           ELSE \E l \in IF fresh THEN {sel \in Lba48} ELSE BOOLEAN :
                  /\ drive' = [drive EXCEPT ![sel] = Sector(@)]
                  /\ devs' = (call.dev :> [ide |-> call.ide, slave |-> call.slave, lba48 |-> l])
                               @@ devs
                  /\ Finish(0, fresh)
      /\ UNCHANGED <<blocks, brk, registry, sel, ncalls, uaf>>

(* The identify loop runs out of its 100000 polls without ERR or DRQ: -1. *)
IdentifyTimeout ==
  /\ call.step = "poll" /\ StatusOf(sel) \cap {"ERR", "DRQ"} = {}
  /\ call' = [call EXCEPT !.step = "failed"]
  /\ UNCHANGED <<blocks, brk, registry, devs, drive, sel, last, ncalls, uaf>>

(* ide_init_device after ide_identify returned -1: free both, NULL. *)
InitUnwind ==
  /\ call.step = "failed"
  /\ \E r \in InitFailed(HeapNow, call) : SetHeap(r)
  /\ Finish(-1, TRUE)
  /\ UNCHANGED <<registry, devs, drive, sel, ncalls, uaf>>

(* ide_read_sectors / ide_write_sectors(dev, lba, n, buf) on a device the *)
(* caller holds, on its IDEDevice (ide.h) or through dev->ops: select the *)
(* drive (the ops path writes a port nothing decodes) and wait.           *)
StartIO(fn, d, via, lba, n) ==
  /\ call = NoCall /\ ncalls < MaxCalls
  /\ sel' = IF via = "direct" THEN devs[d].slave ELSE sel
  /\ call' = [NoCall EXCEPT !.fn = fn, !.step = "ready", !.dev = d, !.ide = devs[d].ide,
                            !.slave = devs[d].slave, !.lba = lba, !.n = n, !.left = n,
                            !.via = via]
  /\ ncalls' = ncalls + 1
  /\ UNCHANGED <<blocks, brk, registry, devs, drive, last, uaf>>

(* The first ide_wait_ready returned 0: write the count and LBA registers *)
(* and READ or WRITE (PIO, or PIO EXT when use_lba48).                     *)
IssueIO ==
  LET c == IF devs[call.dev].lba48 THEN Lba48Command(call.lba, call.n)
                                   ELSE Lba28Command(call.lba, call.n)
  IN  /\ call.step = "ready" /\ ReadyFor(call)
      /\ IssueCommand(sel, call.fn, c.lba, c.count)
      /\ call' = [call EXCEPT !.step = "sector"]
      /\ UNCHANGED <<blocks, brk, registry, devs, sel, last, ncalls, uaf>>

(* The sector moved now is the one asked for, with DRQ set for it. *)
SectorOK(c) ==
  LET dr == drive[sel] IN
  /\ "DRQ" \in dr.st /\ ~dr.pend
  /\ dr.cmd = c.fn /\ dr.next = c.lba + (c.n - c.left)

(* Mutant: the sector loop never advances. *)
NextLeftNoDecrement(c) == c.left

(* i++ of the sector loop, counted down. *)
NextLeft(c) == c.left - 1

(* Mutant: the sector loop run as i <= sectors: the last sector is taken *)
(* to be the one after it.                                                *)
LastSectorOffByOne(c) == c.left = 0

(* i == sectors - 1: the sector being moved is the last. *)
LastSector(c) == c.left = 1

(* A per-sector ide_wait_ready returned 0 (the code never looks at DRQ or *)
(* ERR): move 256 words.  After the last sector a read returns 0 and a    *)
(* write writes CACHE FLUSH at once.                                      *)
TransferSector ==
  LET ok   == call.ok /\ SectorOK(call)
      d1   == Sector(drive[sel])
      next == [call EXCEPT !.left = NextLeft(call), !.ok = ok]
  IN  /\ call.step = "sector" /\ ReadyFor(call)
      /\ IF call.fn = "write" /\ LastSector(call)
           THEN /\ \E dr \in CommandOutcomes(d1, "flush", 0, 0) :
                     drive' = [drive EXCEPT ![sel] = dr]
                /\ call' = [next EXCEPT !.step = "flush"]
                /\ UNCHANGED last
           ELSE /\ drive' = [drive EXCEPT ![sel] = d1]
                /\ IF call.fn = "read" /\ LastSector(call)
                     THEN Finish(0, ok)
                     ELSE call' = next /\ UNCHANGED last
      /\ UNCHANGED <<blocks, brk, registry, devs, sel, ncalls, uaf>>

(* The wait after CACHE FLUSH ends, ready or timed out: its result is     *)
(* ignored and the write returns 0.                                       *)
FlushDone ==
  /\ call.step = "flush"
  /\ Finish(0, call.ok)
  /\ UNCHANGED <<blocks, brk, registry, devs, drive, sel, ncalls, uaf>>

(* ide_wait_ready runs out of polls before the drive is ready: -1. *)
WaitTimeout ==
  /\ call.step \in {"ready", "sector"} /\ ~ReadyFor(call)
  /\ Finish(-1, call.ok)
  /\ UNCHANGED <<blocks, brk, registry, devs, drive, sel, ncalls, uaf>>

-----------------------------------------------------------------------------
(* storage_register_device(dev) for an IDE device (its ops->init is       *)
(* NULL): -1 when the registry is full, else append.  The caller          *)
(* registers a device of its own that is not registered yet.              *)
StorageRegisterDevice(d) ==
  /\ call = NoCall /\ d \notin Range(registry)
  /\ IF Len(registry) >= MaxDevices
       THEN UNCHANGED registry /\ last' = [fn |-> "register", ret |-> -1, ok |-> TRUE]
       ELSE registry' = Append(registry, d) /\ last' = [fn |-> "register", ret |-> 0, ok |-> TRUE]
  /\ UNCHANGED <<blocks, brk, devs, drive, sel, call, ncalls, uaf>>

(* storage_init: the registry is cleared (its devices are not freed). *)
StorageInit ==
  /\ call = NoCall /\ registry # <<>>
  /\ registry' = <<>>
  /\ UNCHANGED <<blocks, brk, devs, drive, sel, call, last, ncalls, uaf>>

(* ide_cleanup_device(dev): free(private_data), then free(dev) (a set of *)
(* one heap, as InitFailed).                                              *)
IdeCleanup(h, d) == {FreeIn(h1, d) : h1 \in {FreeIn(h, devs[d].ide)}}

Forget(d) == devs' = [p \in DOMAIN devs \ {d} |-> devs[p]]

(* Mutant: the last entry is cut off instead of shifting the rest down. *)
RemoveEntryNoShift(reg, i) == SubSeq(reg, 1, Len(reg) - 1)

(* The removal loop: devices[j] = devices[j + 1] for j >= i, then the     *)
(* last slot is NULLed and num_devices drops by one.                      *)
RemoveEntry(reg, i) == RemoveAt(reg, i)

(* storage_unregister_device(dev): the first entry equal to dev; its      *)
(* ops->cleanup frees the device; the entry is removed; then the message  *)
(* reads dev->info.name from the freed block.                              *)
StorageUnregisterDevice(d) ==
  LET i == SelectInSeq(registry, LAMBDA x : x = d) IN
  /\ call = NoCall /\ i > 0
  /\ \E r \in IdeCleanup(HeapNow, d) : SetHeap(r)
  /\ registry' = RemoveEntry(registry, i)
  /\ Forget(d)
  /\ uaf' = TRUE
  /\ UNCHANGED <<drive, sel, call, last, ncalls>>

(* The caller frees a device it has not registered. *)
IdeCleanupDevice(d) ==
  /\ call = NoCall /\ d \notin Range(registry)
  /\ \E r \in IdeCleanup(HeapNow, d) : SetHeap(r)
  /\ Forget(d)
  /\ UNCHANGED <<registry, drive, sel, call, last, ncalls, uaf>>

-----------------------------------------------------------------------------
(* The drive takes the command written to it: BSY. *)
DriveAccept(s) ==
  /\ drive[s].pend
  /\ drive' = [drive EXCEPT ![s].st = {"BSY"}, ![s].pend = FALSE]

(* A busy phase ends: FLUSH and a fully written command are done; else    *)
(* DRQ for the next sector (IDENTIFY always has its one), or ERR with no  *)
(* command when that sector is past the end of the drive.                  *)
DriveReady(s) ==
  LET dr == drive[s] IN
  /\ "BSY" \in dr.st /\ ~dr.pend
  /\ drive' = [drive EXCEPT ![s] =
       CASE dr.cmd = "flush" \/ dr.left = 0              -> DriveIdle
         [] dr.cmd = "identify" \/ dr.next < Capacity    -> [dr EXCEPT !.st = {"DRDY", "DRQ"}]
         [] OTHER -> [DriveIdle EXCEPT !.st = {"DRDY", "ERR"}]]

Init ==
  /\ HeapInit
  /\ registry = <<>>
  /\ devs = [p \in {} |-> NoCall]
  /\ drive = [s \in Slaves |-> DriveIdle]
  /\ sel = 0
  /\ call = NoCall
  /\ last = [fn |-> "none", ret |-> 0, ok |-> TRUE]
  /\ ncalls = 0
  /\ uaf = FALSE

Caller ==
  \/ StorageInit
  \/ \E s \in Slaves : IdeInitDevice(s)
  \/ \E d \in DOMAIN devs :
       \/ StorageRegisterDevice(d)
       \/ StorageUnregisterDevice(d)
       \/ IdeCleanupDevice(d)
       \/ \E fn \in {"read", "write"}, via \in {"direct", "ops"}, lba \in Lbas, n \in Counts :
            StartIO(fn, d, via, lba, n)

Driver ==
  \/ IdentifyStatus \/ IdentifyTimeout \/ InitUnwind
  \/ IssueIO \/ TransferSector \/ FlushDone \/ WaitTimeout

Drives ==
  /\ \E s \in Present : DriveAccept(s) \/ DriveReady(s)
  /\ UNCHANGED <<blocks, brk, registry, devs, sel, call, last, ncalls, uaf>>

(* The caller has made its calls and every drive is quiet. *)
Done == ncalls = MaxCalls /\ call = NoCall /\ UNCHANGED vars

Next == Caller \/ Driver \/ Drives \/ Done

(* The CPU keeps executing a driver call (its loops poll with interrupts  *)
(* playing no part); the caller and the drives are not assumed to act.    *)
Spec == Init /\ [][Next]_vars /\ WF_vars(Driver)

-----------------------------------------------------------------------------
TypeOK ==
  /\ HeapTypeOK
  /\ registry \in Seq(Nat)
  /\ \A d \in DOMAIN devs : devs[d] \in [ide : Nat, slave : Slaves, lba48 : BOOLEAN]
  /\ drive \in [Slaves -> [st : SUBSET Bits, cmd : Cmds, next : Nat, left : Nat,
                           pend : BOOLEAN]]
  /\ sel \in Slaves
  /\ call.fn \in {"none", "init", "read", "write"} /\ call.left \in 0 .. call.n
  /\ last.ret \in {-1, 0}
  /\ ncalls \in 0 .. MaxCalls
  /\ uaf \in BOOLEAN

(* Every heap block in use is the StorageDevice or the IDEDevice of a     *)
(* device the caller holds, or of the ide_init_device in progress: the    *)
(* identify failure, the timeout, unregister and cleanup each free both.  *)
NoLeak ==
  UsedPtrs(HeapNow) =
    DOMAIN devs \cup {devs[d].ide : d \in DOMAIN devs}
    \cup (IF call.fn = "init" THEN {call.dev, call.ide} ELSE {})

(* Every registry entry is a live StorageDevice and none is there twice:  *)
(* the shift in storage_unregister_device removes exactly the entry whose *)
(* device it frees, wherever it stands, and keeps the others.              *)
RegistryLive ==
  /\ Range(registry) \subseteq DOMAIN devs
  /\ IsInjective(registry)

(* Every driver call returns: the identify loop and each ide_wait_ready   *)
(* give up after their polls, and the sector loop runs out, whatever the  *)
(* drives do.                                                              *)
CallsReturn == call.fn # "none" ~> call.fn = "none"

(* A read or write that returns 0 moved every sector it was asked for,    *)
(* each while the drive asked for data of that command at that sector.   *)
SuccessMeansTransferred ==
  last.fn \in {"read", "write"} /\ last.ret = 0 => last.ok

(* storage_unregister_device never reads the device it has just freed. *)
NoUseAfterFree == ~uaf

=============================================================================

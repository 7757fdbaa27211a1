# TLA+ models of the NansOS kernel

This directory holds TLA+ specifications of the NansOS x86-64 kernel
(`src/src/impl`) and the TLC configurations that check them.
`PROJECT.json` lists:

- the components, with their status;
- every run, with its expected outcome;
- a mutant for every checked property;
- the map from each TLA+ definition to the source lines it translates;
- the findings;
- the hazards that the properties are aimed at.

## 1. The system (inventory)

NansOS is a single-CPU kernel with no tasks. One main line runs `kernel_main`. Interrupt handlers nest on top of it. Its parts are listed below.

| Part | Source | State | Operations | Interacts with |
|------|--------|-------|------------|----------------|
| PIC driver | `drivers/pic/pic.c` | The two 8259A chips: IMR, IRR and ISR, and the vector offsets | `pic_init`, `pic_clear_mask`, `pic_set_mask` (unused), `pic_send_eoi`, `pic_disable` (unused) | Every IRQ handler and driver init |
| IDT | `kernel/idt.c` | 256 gate descriptors and the loaded IDTR | `idt_set_entry`, `idt_init`, `idt_enable_interrupts` (sti), `idt_disable_interrupts` (cli) | The CPU dispatches through it |
| Handlers / fault policy | `kernel/isr.c` | None of their own | 19 exception handlers (halting or resuming), 16 IRQ handlers and the default handler | PIC (EOI), the drivers' handlers |
| Boot sequence | `kernel/main.c` | The order of `init_system` | `kernel_main`, `init_system`, then the `hlt` main loop | Every init routine |
| Setup wizard | `kernel/main.c` | `current_setup_state`, `setup_complete` | `keyboard_char` (the keyboard callback), `handle_setup_input`, `run_setup_wizard` | Starts the window manager from inside the keyboard IRQ |
| PIT | `drivers/pit/pit.c` | `tick_count`, the callback | `pit_init` (unmasks IRQ 0), `pit_handler` (EOI 0) | PIC |
| PS/2 keyboard | `drivers/keyboard/*.c` | Modifier state (`keyboard_state`) and callbacks | `keyboard_init` (cli, disable both ports, flush, rewrite the 8042 configuration, reset and enable with their waits (timeouts `sti; return`), unmask 1, `mouse_init`, sti), `keyboard_handler` (cli, read port 0x60, `update_keyboard_state`, callbacks, `scancode_to_ascii`, EOI, sti) | PIC, the 8042, the mouse, main.c callbacks |
| 8042 controller (hardware) | | One output buffer, the configuration byte, the keyboard and mouse ports | Answers command 0x20, forwards bytes to the devices, loads device bytes into the buffer (translating set 2 to set 1 when configuration bit 6 is set) and raises IRQ 1 or 12 | Both PS/2 drivers share its buffer |
| PS/2 mouse | `drivers/mouse/mouse.c` | The packet `cycle`, the packet, `mouse_state` | `mouse_init` (cli, disable, flush, configure, four commands through 0xD4 and two argument bytes that reach the keyboard, one wait for 0xFA, unmask 12, sti), `mouse_handler` (status bit 5 check, the three-byte packet cycle, EOI 12) | PIC, the 8042's shared buffer |
| RTC | `drivers/rtc/rtc.c` | Status registers B and C | `rtc_init` (unmask 8), `rtc_enable_interrupt` (periodic on, read C), `rtc_handler` (read C, EOI; never called) | PIC |
| MMU | `kernel/mmu.c` | The 4-level page tables and the bump pointer `next_free_page` | `mmu_init`, `mmu_alloc_page`, `mmu_free_page` (no-op), `mmu_map_page`, `mmu_is_mapped`, `mmu_unmap_page` | Heap, the CPU (CR3) |
| Heap | `kernel/stdlib.c` | The block list from `heap_start` | `malloc`, `free` (`calloc`, `realloc` have no callers) | MMU allocator (`mmu_alloc_page`); window manager, RAM disk, IDE driver |
| Window manager | `drivers/video/window.c` | `windows[]`, `num_windows`, `active_window`, `dragging_window`; each window's flags and content | `window_init`, `window_create(_terminal, _file_browser, _text_editor)`, `window_destroy`, `show`, `hide`, `bring_to_front`, `minimize`, `maximize`, `restore`, `move`, `resize`, `window_handle_mouse`, `window_handle_key`, `window_init_gui` | Heap; the wizard; VGA for drawing |
| RAM disk | `kernel/ramdisk.c` | The files table, `free_block_start`, `free_blocks` | `ramdisk_create`, `ramdisk_destroy`, `create_file`, `delete_file`, `read`, `write`, `find_file` | Heap; nothing in the kernel calls `ramdisk_create` |
| String library | `kernel/string.c` | None | `print_num`, `vsprintf`, `sprintf`, `vsnprintf`, `snprintf` (no caller), the mem*/str* primitives | Every caller that formats a message: the taskbar clock, the fault handlers, the mouse log |
| VFS | `kernel/fs.c` | The mount list, `root_node`, the descriptor table, a static path buffer | `vfs_normalize_path`, `vfs_lookup`, `vfs_mount` (always fails), `vfs_open`/`close`/`read`/`write`/`seek`/`mkdir` | Nothing mounts: `root_node` is never assigned |
| Storage registry | `drivers/storage/storage.c` | `devices[]`, `num_devices` | `storage_init`, `storage_register_device`, `storage_unregister_device` (calls `ops->cleanup`), `storage_get_device`, `storage_get_device_list`, `storage_print_device_info`, `storage_probe_devices` (does nothing) | The IDE driver through `StorageDeviceOps`; nothing in the kernel calls it |
| IDE driver | `drivers/storage/ide.c` | A `StorageDevice` and an `IDEDevice` heap block per device, the drive's registers | `ide_init_device` (two mallocs, `ide_identify`), `ide_read_sectors`, `ide_write_sectors` (with a CACHE FLUSH after the last sector), `ide_wait_ready`, `ide_cleanup_device`, `ide_ops` | Heap; the ATA drives on ports 0x1F0-0x1F7 |
| VGA driver | `drivers/video/vga.c` | `current_mode` (width, height, pitch), the static `back_buffer[0x10000]` | `vga_init`, `vga_set_mode`, `vga_set_pixel`, `draw_rect`, `draw_line`, `draw_text`, `draw_window`, `draw_button`, `draw_taskbar`, `draw_desktop_icons`, `init_desktop`, `update_cursor`, `clear_screen`, `swap_buffers` | The window manager and the main loop's clock and cursor |
| Other | `serial.c`, `port.c`, `sysinfo.c`, `scheduler.h` | | Polled I/O, CPUID, a header with no implementation | |

Behaviours that make this code hard:

- **Interrupt nesting.** An interrupt gate clears IF. `keyboard_handler` sets IF again before it returns, so a second IRQ can nest on top of it.
- **The 8259A cascade.** A slave line holds master input 2 in service until the slave is acknowledged first. A non-specific EOI retires whatever line has the highest priority at that moment.
- **Handlers are plain C functions.** They are installed directly in the IDT (`idt.c:37-73`) and return with `ret`, not `iretq`, so the interrupted IF is never restored.
- **Boot order.** Interrupts are enabled several times in the middle of `init_system` (`mouse_init`, `keyboard_init`), not once at the end.
- **One buffer, three writers.** The 8042 holds one byte at a time for the keyboard, the mouse and its own answers. The init routines' wait loops, `keyboard_handler` (which never checks whose byte it reads) and `mouse_handler` all read it, and the requests for IRQ 1 and 12 are latched while interrupts are off.
- **Vector aliasing.** IRQs taken before `pic_init` arrive on the exception vectors 8..15.
- **Page tables.** There are huge pages set up by the boot loader, intermediate tables created with the leaf's flags, and an unmap that walks a hard-coded root.
- **Polled hardware.** The IDE driver writes a command and polls the drive's status with bounded loops; the drive may still show its old status, take or ignore a command written while it is busy, and fail a sector past its end.
- **Pointers shared across components.** A window is a heap block; the window list, `active_window` and `dragging_window` hold its address, and `window_destroy` frees it. A block larger than a page still gets one page.

## 2. Modules

### `PIC.tla` (the 8259A pair)

State: `imr`, `irr` and `isr` are sets of the global lines 0..15. `remapped` records whether `pic_init` has set the offsets to 0x20/0x28.

The hardware part follows the 8259A in fully nested mode:

- `SlaveCandidates`, `MasterCandidates`, `NextLine` and `IntPending` resolve priority.
- `Acknowledge` is the INTA cycle. A slave line also sets master bit 2.
- `EoiChip` is a non-specific EOI: it clears the chip's lowest-numbered in-service bit.

The driver part follows `pic.c`: `PicInit` (masks 0xF8/0xFF, offsets), `ClearMask` and `VectorOf`.

### `Interrupts.tla` (CPU interrupt flag, IDT, handlers, boot)

It extends `PIC`, sharing its four variables. The code is represented as *programs*. A program is a sequence of the operations that touch interrupt state:

- cli and sti;
- `idt_init` and `pic_init`;
- unmask, `rtc_arm`, `eoi_slave` and `eoi_master`;
- ret and halt.

The variables are:

- `main`: the rest of the boot program (`BootProg`, which is `init_system` in order). The empty sequence is the `hlt` loop of `kernel_main`.
- `stack`: the activations of taken interrupts and exceptions. Each one records the line, the vector and the rest of its handler's program. Only the top one runs.
- `ifl` is RFLAGS.IF and `idt` maps a vector to the installed handler.
- `halted` records that a handler reached `cli; for(;;) hlt`.
- `rtcArmed` records that status C has been read, so the RTC may raise IRQ 8.
- `nexc` counts the exceptions raised.

Actions:

- One action per operation of the running program: `DoCli`, `DoSti`, `IdtInit`, `DoPicInit`, `DoUnmask`, `RtcEnableInterrupt`, `SendEoiMaster`, `SendEoiSlave`, `HandlerReturn`, `HaltForever`.
- `TakeInterrupt`: the CPU accepts the PIC's request through the interrupt gate (type 0x8E) that `idt_init` installs for vectors 32-47. The handler is looked up in `idt` at the vector `VectorOf` gives, and IF is cleared.
- `RaiseException(v)`: a synchronous exception, or an NMI, which is also taken while halted.
- `DeviceRaise(l)`: a device edge. The PIT, which `pit_set_frequency` programs as a square-wave generator, raises IRQ 0 again and again. The RTC raises IRQ 8 once after `rtc_enable_interrupt` has read status C, and again only after the next read of C.

Each handler's program comes from `isr.c` and the driver handler it calls:

- the resuming exceptions run `pic_send_eoi(0); ret`;
- the fatal ones run `halt`;
- `isr_default_handler` runs EOI 0, then EOI 8, then ret;
- `keyboard_handler` runs `cli`, EOI 1, `sti`, ret;
- the other IRQ handlers run EOI on their own line, then ret.

Where a handler branches on a device status register, each branch is a member of `Progs(h)`. Each PS/2 handshake of `keyboard_init` and `mouse_init` either succeeds or times out (which does `sti; return`). `Init` chooses the outcomes for the whole boot.

Logging, `sprintf`, scancode translation and the callbacks' drawing do not touch interrupt state and are left out.

### `MMU.tla` (page tables and the page allocator, `kernel/mmu.c`)

State:

- `mem` is physical memory: a function from a frame number (address >> 12) to a frame of entries. An entry is `[frame, flags]`, with flags from `PAGE_PRESENT`, `PAGE_WRITABLE`, `PAGE_USER` and `PAGE_HUGE`, or a data word that is no entry.
- `next` is `next_free_page >> 12`.
- `faulted` records that a memset by the allocator page-faulted.
- `call` is the last call with its arguments, kept for the properties and the refinement mapping.

The frame numbers the code names keep their values:

- 0x1000 (frame 1) is the root that `mmu_unmap_page` assumes.
- 0x400000 (frame 1024) is the start of the allocator.
- Directory entry i of a loader huge page maps frames i*512 ...

Each level's index ranges over a small set instead of 0..511. The boot loader's tables (CR3 → PDP → PD, with 2 MiB huge entries `LoaderHuge`) are `InitMem`. The loader itself is not in the repository; its layout is a constant.

Actions:

- `MapPage(p, v, fl)` is `mmu_map_page`, made of these definitions:
  - `BelowBoot` is the early return;
  - `EnsureTable` is one "allocate if not present, store `table | flags`, descend" level;
  - `AllocPage` is `mmu_alloc_page`, whose memset faults unless the loader's identity mapping reaches the frame;
  - `MapWalk` includes the huge-page check and the leaf write.
- `UnmapPage(v)` is `mmu_unmap_page`: the walk from 0x1000 in `UnmapLeafTable`, with no huge check, then a cleared leaf.
- `IsMappedIn(m, v)` is `mmu_is_mapped`, used by the properties.
- `mmu_init`, `vmm_init` and `mmu_free_page` change no state the model keeps.

### `VirtualMemory.tla` (what the MMU promises)

This is the abstract specification. `vmap` maps each virtual page to a frame and rights, or to unmapped, and `req` is the last request.

- `Map(p, v, fl)` sets page v and no other.
- `Unmap(v)` clears page v.
- Both leave the loader's fixed pages alone.

`MMU` instantiates it with `vmap <- [v \in VA |-> Translation(v)]`, which is the walk the CPU does, with the rights combined over all levels. It also maps `req <- call`. `VMRefinement` checks `VM!Spec` as a property.

### `Heap.tla` (the kernel heap, `kernel/stdlib.c`)

State: `blocks` is the list from `heap_start` in list order, each `[addr, size, free]` with `addr` the header's byte address and `size` the data bytes after the 24-byte header. `brk` is `next_free_page`, the page `mmu_alloc_page` hands out next (the heap is its only caller once the kernel runs).

The operators take and return a heap record so that a caller's handler can chain several calls into one step:

- `MallocIn(h, size)` is `malloc`: `Align8`, first fit (`find_free_block`), or a fresh page appended as a block of `max(size + 24, MIN_ALLOC)` bytes while `brk` moves by one page, then `SplitBlock` (`split_block`, which splits only if 32 bytes remain past a new header) and the block marked used.
- `FreeIn(h, p)` is `free`: mark free, absorb the next block if it is free.
- `CanMalloc` is the model's bound `MaxPages` on the pages taken.

`HeapTiles` says the blocks lie back to back from `HeapBase` and end exactly at `brk`: no block overlaps another or reaches past memory the heap owns.

### `Desktop.tla` (window manager and setup wizard over the heap)

It extends `Heap`. A window is named by the pointer `malloc` returned for its `struct Window`, so the window list and the heap speak of the same addresses.

- `list` is `windows[0..num_windows-1]`, `win` maps a live window to `[flags, content]` (content is the terminal buffer's pointer), `active` and `dragging` are `active_window` and `dragging_window` (0 is NULL).
- `setup` is `current_setup_state` (0 = `SETUP_WELCOME` .. 7 = `SETUP_COMPLETE`) and `complete` is `setup_complete`.

Handlers are operators over a record of the whole state (`Now`), chained as the C calls are: `Create` (`window_create`: the `MAX_WINDOWS` check, malloc, append, `BringToFront`), `CreateTerminal` (plus the buffer's malloc), `Destroy` (unlink the first occurrence, move `active_window` to the new top, free content and window), `Show`, `BringToFront`, `WindowInit`.

Actions:

- `KeyboardChar(key)` is `keyboard_char` before completion: `SetupNext` (`handle_setup_input`; keys are Enter, a digit 1-4, or anything else), and on completion (`WizardDone`, `run_setup_wizard`) `window_init` and `window_init_gui` (a terminal and a file browser, each created and shown) in the same step, as they run inside the keyboard interrupt with IF clear.
- After completion, the window API: `CreateWindow` (file browser and text editor differ only in title and paint callback), `CreateTerminalWindow`, `DestroyWindow`, `ShowWindow`, `HideWindow`, `BringWindowToFront`, `MinimizeWindow`, `MaximizeWindow`, `RestoreWindow`.
- `window_handle_mouse`: `MouseTitle(p)` (left button on the title bar: drag and bring to front), `MouseClose(p, left)` (the close button, which lies inside the title bar: the drag starts if the left button is down, then the window is destroyed), `MouseRelease` (an event without the left button ends a drag). A click may land on any visible window: the geometry is abstracted away, which over-approximates which window a click hits. A drag move (`window_move` through `dragging_window`) changes only coordinates.

After completion `keyboard_char` passes the key to `window_handle_key` (`WindowHandleKey`): when the active window has a terminal buffer, `terminal_key` (`TerminalKey`) advances its `cursor` (the `win[p].cursor` field) while `cursor < TERMINAL_BUFFER_SIZE - 1`. The characters themselves are not kept. `window_move`, `window_resize` (`RESIZABLE` is never set) and `window_update` change no state the model keeps. In the kernel as built, nothing calls `window_handle_mouse` (`mouse_event` only logs) and only `window_init_gui` and the key path call the API; the model checks the window manager for every caller the API admits.

### `RamDisk.tla` (`kernel/ramdisk.c` over the heap)

It extends `Heap`. `disk` holds the three pointers `ramdisk_create` got from malloc (all 0 before), `files` is the table `[name, size, start, count, inUse]`, `freeStart` and `freeBlocks` are `free_block_start` and `free_blocks`. Names are strings; `LongNames` are those of 32 characters or more; "" is a zeroed name.

Actions: `RamdiskCreate` (three mallocs, table zeroed, all blocks free), `RamdiskDestroy` (three frees), `CreateFile`, `DeleteFile` (blocks back to `free_blocks`, entry zeroed), `WriteFile(n, off, sz)` (`ramdisk_write` with `allocate_blocks`, `CanAllocate`: a growing write reserves the missing blocks at `free_block_start` and moves the file there with all its blocks) and `FindFile` (an `FSNode` malloc'd and never freed). `ReadFile(n)` is `ramdisk_read`: it changes only `access_time`, which is not kept, so it is a stuttering step; the byte count it copies is the operator `ReadSize(f, off, sz)`, which `ReadInOwnBlocks` checks for every file, offset and size. Calls that return -1 change nothing and are stuttering steps. `MaxStart` bounds the bump pointer.

### `Strings.tla` (`kernel/string.c` and `vfs_normalize_path`)

Pure functions, written as operators over sequences of one-character strings. A string is a sequence without its NUL.

- `vfs_normalize_path` (`fs.c:27-75`):
  - `VfsNormalizePath(p)` is the loop `NormalizeLoop(p, o)` over the input, with `o` the output written so far. It skips runs of '/' (`SkipSlashes`), drops a "." component (`IsDot`), and pops on ".." (`IsDotDot`, `PopComponent`: step back one character, then back to the previous '/', never past the root). Any other component is copied with the '/' that ends it (`Component`, `AfterComponent`).
  - The result starts with '/', and a lone '/' stands for an empty output.
- `print_num` is `PrintNum(num, base, width, pad)`: the digits of `DigitChars`, which are upper case, padded to the width.
- `vsprintf` is `Format(f, a)`, a recursive walk over the format:
  - after '%', one digit is read as the width (`DecDigits`, `DigitVal`), and the next character is the conversion (`Conversion`);
  - only `TakesArg` conversions consume an argument; an unknown one writes '?' and itself (`NoArg`).
  - An argument is a record `[n, s]` holding a number or a string.
- `vsnprintf` is `Vsnprintf(f, a, n)` = `VsnLoop`. It stops writing at `n - 1` characters (`Take`), knows only `%s`, `%d` and `%x` (in lower case, `LowerHex`), and copies any other character after '%' as it is.
- `WellTerminated(f)` is assumed of every format checked: vsprintf never steps past the end.

The mem*/str* primitives (`string.c:11-141`) work on one memory, `Mem`, a function from the offsets `0 .. MemLen - 1` to `Bytes`, with 0 as NUL. A pointer is an offset and NULL is -1. Each C loop is one recursion that moves one byte per step, so a copy whose source and destination overlap behaves as the code does:

- `memcpy` is `CopyUp` and `memset` is `Memset`.
- `memmove` is `CopyUp` when dest lies below src, otherwise `CopyDown` (`string.c:31-38`).
- `strcpy`, `strcat` (`CatLoop`) and `strncat` are their loops; `strncpy` is `CopyAtMost` followed by its NUL padding.
- `memcmp`, `strcmp` and `strncmp` return the byte difference. `strncmp` uses `StrncmpLoop` and then tests `n == 0`.
- `strlen`, `strchr` and `strrchr` use `StrrchrLoop`; `strrchr` returns the NUL itself for `c == '\0'`.

The state is the last call only: `fn` names the function, `input`, `args` and `size` are its arguments and `output` is its result (for a primitive, the memory after the call or the scalar it returns). The actions are:

- `NormalizeCall(p)` over every path of `Paths`;
- `Sprintf(f, a)` and `VsnprintfCall(f, a, n)` over every argument list a format admits (`ArgLists`);
- `PrimitiveCall(f, m, x, y, n)` over every memory and every argument the C standard defines (`Defined`). Defined means: bytes read or written lie in the memory, strings are terminated, and regions are disjoint except for `memmove`.

A call starts only from the idle state, and `Return` brings it back. Keeping only the last call makes the state space the sum of the inputs and not their product.

Reference definitions, against which the code's operators are checked:

- `RefFormat` is C's printf for the '0' flag, one width digit, `ll`, and `%d`/`%s`/`%x`/`%%`.
- `Resolve(Components(p))` is POSIX path resolution over `Components`: "." dropped, ".." popping one component, never past the root.
- `RefCopy` and `RefCompare` are the C standard's definitions of the primitives:
  - the copies are writes of the source's bytes taken before the call (`WriteAt`, `StrOf`, `BytesAt`);
  - the comparisons are the sign of a lexicographic order on unsigned bytes (`RefOrder`);
  - the searches are the first or last offset of `c` up to and including the NUL (`Hits`).

### `Keymap.tla` (`drivers/keyboard/keymap.c`)

Pure operators. `AsciiLowercase` and `AsciiUppercase` are the two 58-entry tables (scancodes 0x00..0x39), as sequences of one-character strings with names for the control characters. `IsSpecialKey`, `UpdateKeyboardState` (the `KeyboardState` bit field as a record; left and right Shift write one flag) and `ScancodeToAscii` (release or after 0xE0: nothing; past the table: nothing; Ctrl with a letter: its control code; Shift xor CapsLock: the upper table) follow the C line by line. `handle_special_key` only calls keymap.c's own `special_callback`, which is never set, and is not an operator.

### `PS2.tla` (the 8042, the PS/2 drivers and the boot from `keyboard_init` on)

It extends `PIC` and `Keymap`. The state is:

- the CPU's IF (`ifl`), the line whose handler is running (`handling`), and `main`, the boot program still to run, from `keyboard_init` to `init_system`'s final sti;
- the 8042: the output buffer `obf` (empty or one byte), its configuration byte `cfg` (bits 0/1 the IRQs, 4/5 the disabled ports, 6 translation), its pending answer `ctlQ`;
- the devices: the bytes the keyboard and the mouse have yet to send (`kbdQ`, `auxQ`), whether the mouse streams, the keys held;
- the drivers: `kst` (`keyboard_state`), `charCb` (`char_callback` set), `cycle` and `pkt` (`mouse_handler`'s statics), `buttons` (`mouse_state.buttons`);
- history variables, which the code never reads: the byte each handler read last, the last completed packet, the last character typed with its byte, and where the last configuration byte came from. Every byte is a record carrying its origin: device, key and make or break, packet number and position.

The boot program is a sequence of port operations built from `KeyboardInitProg` and `MouseInitProg`, which are the code's statements in order:

- the common `Preamble` (cli, 0xAD, 0xA7, flush, 0x20, take the first byte as the configuration and write it back rewritten: `KeyboardConfig`, `MouseConfig`);
- the keyboard's reset and enable with their three waits;
- the mouse's four commands through 0xD4 and its one wait. The rate and resolution arguments (100, 0x03) are written to port 0x60 without 0xD4, which routes only the next byte to the mouse, so they are keyboard writes (`KbdCommand`), and the keyboard answers each with 0xFE (`KbdReply`);
- the unmasks and the sti.

Each operation is an action: `DoCli`, `DoSti`, `CtlCommand`, `FlushRead`/`FlushDone`, `ReadConfig`, `WriteConfig`, `KbdCommand`, `AuxCommand`, `WaitFor` (read a byte; move on only if it is the one awaited), `Unmask`, `MouseStateReset`, `SetCallbacks` (main.c:414-416).

Between any two operations:

- the user presses or releases a key (set 2: make code; 0xF0 and the make code);
- the mouse queues a packet;
- the timer raises IRQ 0;
- the controller loads the buffer (`DeliverCtl`, `DeliverKbd`, `DeliverAux`) and raises IRQ 1 or 12 if the configuration says so;
- with IF set, the CPU acknowledges the request the PIC offers (`TakeInterrupt`) and then runs the handler body (`TimerHandler`, `KeyboardHandler`, `MouseHandler`) up to its EOI. The devices and the controller may act between the acknowledge and the body, which is the window `mouse_handler`'s status check is for.

The timeout exits of the wait loops are in `Interrupts`; here each wait gets a byte, and `BootCompletes` checks that it is always the byte awaited.

### `Storage.tla` (`drivers/storage/storage.c` and `ide.c` over the heap)

It extends `Heap`: both structs of a device are heap blocks (`struct StorageDevice` is 144 bytes, `struct IDEDevice` 20). The state is:

- `registry`, the sequence `devices[0 .. num_devices - 1]`;
- `devs`, the `StorageDevice` blocks that `ide_init_device` returned and nobody has freed yet, each with its `IDEDevice` block, slave bit and `use_lba48`;
- `drive`, each drive's status bits (BSY, DRDY, DRQ, ERR), the command it is executing, its next sector and the sectors left, and `pend` while its status still shows what it showed before the command;
- `sel`, the drive select bit;
- `call`, the driver call in progress and the loop it is in (`poll` for identify, `ready`, `sector`, `flush`, `failed`);
- `last`, what the last call returned and whether every sector it moved was the one asked for, with DRQ set (a history variable);
- `uaf`, set when `storage_unregister_device` reads the device it has freed.

The caller's actions are the API: `StorageInit`, `IdeInitDevice`, `StorageRegisterDevice`, `StorageUnregisterDevice`, `IdeCleanupDevice`, and `StartIO` for a read or write called directly (`ide.h`) or through `dev->ops`. Each loop of the driver is an action: `IdentifyStatus` and `IdentifyTimeout` for `ide_identify`'s status loop, `InitUnwind` for `ide_init_device`'s failure path (both frees), `IssueIO` after the first `ide_wait_ready` (the register writes, as `Lba28Command` or `Lba48Command` compute what the drive reads from them), `TransferSector` for each per-sector wait and 256-word move (and the CACHE FLUSH after the last written sector), `FlushDone`, and `WaitTimeout` when a wait runs out of polls. `malloc` returns NULL only for size 0 or when `mmu_alloc_page` does, and `mmu_alloc_page` is a bump pointer that never does, so the NULL branches of `ide_init_device` are dead code.

The drives (`DriveAccept`, `DriveReady`) are the other side of the port I/O and are not in the map:

- a command written while BSY or DRQ is set is taken or ignored (the ATA standard leaves it indeterminate);
- with `StatusLag` a drive raises BSY only some time after a command, and shows its old status until then;
- each sector needs a busy phase, then DRQ; a sector at or past `Capacity` gives ERR and ends the command;
- an absent drive reads 0 while the other drive is present, and a channel with no drive reads 0xFF.

`ide_ops` casts `ide_read_sectors` and friends to take a `StorageDevice*`, so a call through the table reads `base` from the first two bytes of `info.name` ("id", 0x6469). No device decodes those ports, and `ReadyFor` never sees a ready drive there: such a call always times out. In LBA28 mode the drive select byte sets the LBA bit; the LBA48 path never writes it and the model treats the address as LBA, which is the case in the drive's favour.

### `Vga.tla` (`drivers/video/vga.c` and the drawing the kernel does)

The state is:

- `mode`, which is `current_mode` (mode number, width, height, pitch), all zero before `vga_init`;
- `phase`: boot, then gui once the setup wizard completes;
- `windows`: the window geometry that `window_update` draws, with each title's length;
- `termLen`: the length of the terminal's text;
- `maxOffset`: the highest `back_buffer` offset that `vga_set_pixel` has written.

Pixel colours and the buffer's contents are abstracted away. Each drawing call is an operator that gives the highest offset it writes:

- `PixelOffset` is `vga_set_pixel`'s clip and `y * pitch + x`.
- `DrawRect` takes the highest clipped row and column of the rectangle (`SpanMax`, with the uint16 wrap of `x + j`).
- `DrawText` draws a 7x16 rectangle per character.
- `DrawLine` is the Bresenham loop `LineLoop`. A horizontal or vertical line, where the loop never steps the other coordinate, is the straight run `StraightLine`; an `ASSUME` checks that the two agree on every short line.
- `DrawButton`, `DrawTaskbar`, `DrawDesktopIcons`, `DrawWindow`, `Paint` (`window_clear` plus the window's text), `UpdateCursor` and `WindowUpdate` follow the C call for call.

The actions are:

- `WindowInitGui`: the `keyboard_char` step that completes the wizard. It runs `window_init`'s `vga_init`, then `window_init_gui` with its two `vga_set_mode(0x12)` calls, the desktop, the two windows and the swap.
- `ClockFrame`: the main loop's once-a-second `window_update` and clock text.
- `CursorFrame(x, y)`: the main loop's cursor.
- `WindowMove(w, x, y)`: the `window_move` API call.
- `TerminalKey`: the text grows.

`InBackBuffer` states that no write reaches past `VGA_MEMORY_SIZE`.

## 3. Runs

| Run | Cfg | Expect | What it shows |
|-----|-----|--------|---------------|
| dispatch | `MC_Interrupts.cfg` | pass | Boot under every PS/2 outcome, then IRQs 0, 1, 8 and 12 (nested up to depth 3) and one general-protection fault. `CascadeConsistent`: master bit 2 is held while a slave line is in service. `EoiAcksOwnLine`: every EOI a device handler writes retires its own line. `IrqReachesOwnHandler`: no IRQ is dispatched through a vector of another handler. `InServiceEventuallyAcked`: every serviced line is acknowledged. |
| timer_stops | `MC_Interrupts_timer.cfg` | violation | `TimerKeepsTicking` fails. The timer handler returns with `ret`, IF stays clear, and the pending tick is never taken. |
| mmu | `MC_MMU.cfg` | pass | Maps into a new directory, a new PDP branch, a loader huge page and the boot region, plus unmaps, with CR3 = 0x1000. `VMRefinement`: the tables implement `VirtualMemory`. `FramesIntact`: no frame other than a reachable table or an allocated frame is written. `MapThenMapped`: after a map, `is_mapped` holds for that page and for no page that was unmapped before. `UnmapClears`: after an unmap, the page is unmapped. |
| desktop | `MC_Desktop.cfg` | pass | The wizard to completion, `window_init_gui`'s two windows, then any sequence of window calls and clicks. `HeapTiles`: the heap keeps tiling its pages. `HeldObjects`: the listed windows and their buffers are distinct blocks in use. `NoLeak`: every block in use is a listed window or its buffer. `ActiveListed`: `active_window` is NULL or listed. |
| drag_uaf | `MC_Desktop_drag.cfg` | violation | `DraggingListed` fails. A left click on a close button makes the window `dragging_window` and then destroys it. |
| ramdisk | `MC_RamDisk.cfg` | pass | Create, files created, grown, filled, refused, deleted and looked up, destroy. `ReadInOwnBlocks`: for every offset and size, the bytes `ramdisk_read` copies lie in the file's own blocks. |
| ramdisk_overlap | `MC_RamDisk_overlap.cfg` | violation | `BlocksDisjoint` fails. A growing write moves the file to a reservation that covers only the new blocks, so it overruns into other files' blocks or past the disk. |
| strings | `MC_Strings.cfg` | pass | `vfs_normalize_path` on every path of '/', '.' and 'a' up to 6 characters; `sprintf` and `vsnprintf` on the kernel's `%dx%d`, `%d%%` and `%s (%s)` formats with every argument list and sizes 0, 1, 3 and 8. `NormalizedFits`: the output is never longer than the input, so `normalized[256]` cannot overflow for a path that fits. `NoDotComponents`: no "." or ".." component is left. `SprintfConforms`, `VsnprintfConforms`: the output is C's printf output (cut to `size - 1` characters). The twelve mem*/str* primitives run on every 5-byte memory over {0, 1, 2} with every defined argument. `MemmoveConforms`: `memmove` leaves the old source bytes at dest for every overlap. `CopiesConform`: `memcpy`, `strcpy`, `strncpy` (with its padding), `strcat` and `strncat` write what C says and nothing else. `ComparesConform`: `memcmp`, `strcmp` and `strncmp` order as C does, and `strlen`, `strchr` and `strrchr` find what C says. |
| ps2 | `MC_PS2.cfg` | pass | `keyboard_init`, the nested and the second `mouse_init` and the final sti, with a key pressed and released, a mouse packet, timer ticks and every interrupt the PIC offers, in every order. `ConfigFromController`: both inits take the controller's answer to 0x20 as the configuration byte. `BootCompletes`: every wait loop gets the byte it waits for and the boot ends. |
| ps2_mouse | `MC_PS2_mouse.cfg` | violation | `MousePacketsReal` fails. `mouse_init` waits for one of the four 0xFA it provokes; the other three reach `mouse_handler`, which takes three of them as a packet with the right button down. |
| storage | `MC_Storage.cfg` | pass | Devices created on a channel with one drive (and a probe of the absent slave), registered until the registry is full, unregistered, freed, read and written directly and through `ide_ops`, with sectors 0 and 1 and counts 1 and 2 on a two-sector drive that lags, ignores commands and fails past its end. `NoLeak`: every heap block in use belongs to a device the caller holds or the init in progress. `RegistryLive`: the registry holds only live devices, each once. `CallsReturn`: every driver call returns. |
| storage_error | `MC_Storage_error.cfg` | violation | `SuccessMeansTransferred` fails. A two-sector read from sector 1 of a two-sector drive returns 0 although the drive answered the second sector with ERR. |

Seventeen more configurations reproduce findings that no run slot is spent on; each makes TLC report the property named, under the same module:

| Finding | Cfg | What it shows |
|---------|-----|---------------|
| (finding 2) | `MC_Interrupts_rtc.cfg` | `RtcKeepsInterrupting` fails. `isr_rtc` never reads status C. |
| (finding 4) | `MC_Interrupts_nmi_eoi.cfg` | `EoiAcksOwnLine` fails. An NMI during a timer or keyboard IRQ retires that IRQ's in-service bit. |
| (finding 5) | `MC_Interrupts_gp.cfg` | `HaltOnlyOnFatal` fails. General protection halts, but the spec's fault policy lists it as non-fatal. |
| (finding 6) | `MC_MMU_unmap_root.cfg` | `UnmapClears` fails when CR3 is not 0x1000: unmap walks a hard-coded root. |
| (finding 7) | `MC_MMU_unmap_huge.cfg` | `VMRefinement` fails. Unmapping a page under a huge page zeroes a word of the memory that the huge page maps. |
| (finding 8) | `MC_MMU_perm.cfg` | `VMRefinement` fails. A read-only first mapping makes the directory entries read-only, so a later writable mapping through them is not writable. |
| (finding 9) | `MC_MMU_alloc_fault.cfg` | `NoAllocFault` fails when the loader maps only 4 MiB: the first frame allocated, at 0x400000, is outside the identity mapping. |
| (finding 11) | `MC_RamDisk_heap.cfg` | `HeapTiles` fails at `ramdisk_create`: `struct RamDisk` (5144 bytes) gets one page and the data area's page starts inside it. |
| (findings 13-15) | `MC_Strings_printf.cfg` | `SprintfConforms` fails. On `0x%x` of 42 `sprintf` writes `0x2A`; on the clock's `%02d:%02d:%02d` it writes `?d:?d:?d`; on the fault handlers' `0x%llx` it writes `0x?lx`. |
| (finding 16) | `MC_Strings_normalize.cfg` | `NormalizeResolves` fails (paths up to 7 characters). `vfs_normalize_path("/a/./..")` is `/a/`, not `/`. |
| (finding 3) | `MC_Interrupts_early_sti.cfg` | `IrqOnlyAfterBoot` fails. The sti of `mouse_init`/`keyboard_init` opens interrupts before `init_system` ends. |
| (finding 21) | `MC_Storage_lba48.cfg` | `SuccessMeansTransferred` fails. On an LBA48 drive, a read of sector 1 makes the drive read 256 sectors from sector 16777216. |
| (finding 22) | `MC_Storage_lag.cfg` | `SuccessMeansTransferred` fails. A read takes the DRDY still shown from before its command as ready and moves the words before the drive has the sector. |
| (finding 23) | `MC_Storage_uaf.cfg` | `NoUseAfterFree` fails. `storage_unregister_device` prints the name of the device its `cleanup` just freed. |
| (finding 18) | `MC_PS2_xlate.cfg` | `CharsMatchKeys` fails. `keyboard_init` switches the 8042's translation off, so the set 2 code of 'a' (0x1C) is read as Enter and `char_callback` gets a newline. |
| (finding 24) | `MC_Vga_overflow.cfg` (module `MC_Vga`) | `InBackBuffer` fails in the step that completes the setup wizard: `window_init_gui`'s taskbar writes `back_buffer[153919]`. |
| (finding 19) | `MC_PS2_stale.cfg` | `CharsMatchKeys` fails with no key pressed at all: `keyboard_handler` reads a mouse packet's first byte (0x08) and types '7'. |

Each property of the passing runs is paired with a mutant: a plausible bug in the definition it depends on, for which TLC reports the property violated.

- `TypeOK`: an `idt_init` without its default-fill loop.
- `CascadeConsistent`: `pic_send_eoi` acknowledging the master before the slave.
- `IrqReachesOwnHandler`: `pic_init` called after the PS/2 drivers.
- `EoiAcksOwnLine`: `isr_timer` sending a second EOI.
- `InServiceEventuallyAcked`: `keyboard_handler`'s early return without its EOI.
- MMU `TypeOK`: `mmu_alloc_page` advancing the cursor before taking the page.
- `VMRefinement`: intermediate entries stored with `PAGE_PRESENT` only.
- `FramesIntact`: `mmu_map_page` without its huge-page check.
- `MapThenMapped`: the leaf stored without its flags.
- `UnmapClears`: unmap clearing the entry at the directory index instead of the table index.
- Desktop `TypeOK`: `window_create`'s `MAX_WINDOWS` check off by one (`>` for `>=`), which writes past `windows[]`.
- `HeapTiles`: `split_block` placing the remainder's header without skipping the block's own header.
- `HeldObjects`: `window_bring_to_front` writing the window over the last slot without the shift.
- `NoLeak`: `window_destroy` freeing the window but not its terminal buffer.
- `ActiveListed`: `window_destroy` leaving `active_window` on the destroyed window.
- RamDisk `TypeOK`: `allocate_blocks` without its `count > free_blocks` check.
- `ReadInOwnBlocks`: `ramdisk_read` copying `size` bytes without clamping to the end of the file.
- Strings `TypeOK`: `vfs_normalize_path` without the final "/" it writes when the loop leaves the buffer empty.
- `NormalizedFits`: the leading '/' copied without `pp` advancing past it.
- `NoDotComponents`: "." recognised only when followed by '/', not at the end of the path.
- `SprintfConforms`: `print_num`'s conversion loop as a `while` instead of a `do-while`, so 0 has no digit.
- `VsnprintfConforms`: `vsnprintf` writing past `size - 1`.
- `MemmoveConforms`: `memmove` always copying forwards, whichever way the regions overlap.
- `CopiesConform`: `strncpy` without its NUL-padding loop.
- `ComparesConform`: `strncmp` without its `n == 0` test after the loop, so it compares the bytes after the limit.
- PS2 `TypeOK`: `mouse_handler`'s case 1 without `cycle = 2`, so the packet grows past three bytes.
- `ConfigFromController`: the inits without 0xA7, leaving the mouse port enabled while they read the configuration.
- `BootCompletes`: `keyboard_init` waiting for 0xAA before 0xFA after the reset.
- Storage `TypeOK`: the sector loops run as `i <= sectors`, so a call moves one sector past its count.
- Storage `NoLeak`: `ide_init_device`'s identify-failure path freeing `dev` but not `ide_dev`.
- `RegistryLive`: `storage_unregister_device` dropping the last entry instead of shifting the rest down over the removed one.
- `CallsReturn`: the sector loop without its `i++`.

### Bounds

The bounds are these, and each one is large enough for the cases the properties are about:

- **Lines.** `DevLines = {0, 1, 8, 12}` covers two master lines, the RTC and the mouse. This gives both kinds of slave line (8 and 12), each chip's own priority order, and the cascade.
- **Firmware mask.** `BiosImr` leaves these lines open, the way the firmware hands over.
- **Nesting.** `MaxDepth = 3` allows a keyboard IRQ nested over another IRQ, and an NMI or fault on top of that.
- **Exceptions.** `MaxExceptions = 1`. One exception is enough to reach every handler state. Every violation trace has at most one.
- **Vectors.** `Vectors` runs from 0 to 127, so the firmware's slave vectors 0x70..0x77 are covered.
- **MMU indices.** PML4 and PDP take {0, 1}, PD takes {0, 1, 2} and PT takes {0, 1}, with three slots per frame. This gives:
  - a second PML4 entry (a whole new branch, three tables);
  - a second PDP entry (a new directory and table);
  - PD entries 0 and 1, below 0x400000;
  - PD entry 2, the first above 0x400000, which is huge when the loader maps all of PD 0;
  - two pages per table, so two mappings share a table.
- **MMU allocation.** `MaxAlloc = 6` frames are enough for the mappings of `MCMapVirts` (at most 1 + 2 + 3 tables).
- **MMU inputs.** `PhysChoices` holds two data frames. `FlagChoices` is `{P,W}`, or `{P}` and `{P,W}` for the permission run.
- **Desktop.** The sizes are those of the x86-64 build: `struct Window` is 80 bytes, `struct TerminalBuffer` 1028 (1032 aligned). `MaxPages = 1`: one 4 KiB page holds the two initial windows and the terminal buffer, and every window or terminal created after a destroy; a second page would change only addresses. `MAX_WINDOWS` is lowered from 16 to 2: `window_init_gui` already fills the list, so the refusal path, destroy-then-create reuse of freed blocks and bring-to-front with a shift are all reached (with 3 the space exceeds five minutes). `TERMINAL_BUFFER_SIZE` is lowered from 1024 to 3, so the cursor reaches its bound in two keys and the refusal at the end of the buffer is reached; the bound is the same arithmetic at any size.
- **Strings.** The path characters are '/', '.' and 'a'. Every path of up to 6 characters is checked, or 7 for `NormalizeResolves`. This includes every mix of "", ".", "..", a name, runs of slashes, and trailing slashes: "/a/./.." needs 7. Numbers are 0 (the special case of `print_num`), 7, 42 (two hex digits, one a letter) and 1024 (four digits). Strings are "a" and "bc", and sizes are 0, 1, 3 and 8. Size 0 writes nothing, 1 only the NUL, and 3 and 8 cut the formats at different points. The primitives' memory has 5 bytes over {0, 1, 2}: enough for two strings with a shared NUL, a one-byte string after a two-byte one, overlaps shifted by one and by two in both directions, `strncpy` padding of up to four bytes, and a common prefix followed by a difference in either direction.
- **RAM disk.** Struct sizes of the build (`FileSystem` 56, `RamDisk` 5144, `FSNode` 328 bytes). `RAMDISK_SIZE` is lowered from 1 MiB to 8 KiB (16 blocks): like 1 MiB it is larger than a page, so the heap treats it alike, and a write of the whole disk fills it in one step. Two file slots (`RAMDISK_MAX_FILES` is 64) and three short names, so the full table is reached; one long name. Writes of 512 bytes at offsets 0 and 512 (so a one-block file grows to two) and of 8192 bytes. `MaxStart = 20` bounds `free_block_start`, past the 16 blocks of the disk. `MaxPages = 3`: the three pages `ramdisk_create` takes.
- **PS/2.** One key ('a', set 2 0x1C, set 1 0x1E) with `MaxKeyEvents = 2`, a press and a release, which is what a make and a break code need. One mouse packet (`MaxPackets = 1`) with movement 1 and either button state: one packet is enough to be read out of phase. The firmware's configuration byte is 0x45 or 0x47, with translation on and the mouse IRQ off or on. The `xlate` configuration sends no packet, so that only keys reach `keyboard_handler`; the `stale` configuration presses no key, so that every character typed comes from the mouse. The timer may tick at any point. Device timeouts are not modelled here (see `Interrupts`).

- **Storage.** One drive (the master) with the slave absent, so `ide_init_device(0x1F0, 1)` exercises the empty slot; two sectors per drive, so a two-sector request from sector 1 runs past the end. Sectors {0, 1} and counts {1, 2} give one- and multi-sector transfers and the last-sector flush. `MAX_STORAGE_DEVICES` is lowered from 16 to 2, so the full registry is reached with two devices and the refusal with a third; the comparison is the same at 16. `MaxCalls = 4` driver calls: enough for two inits and two transfers, or three inits and one, and for an unregister between them. `MaxPages = 2`: five structs of 144 and 20 bytes fit in one page, and the second lets malloc grow. The reproductions vary the drive: no lag and no LBA48 (error, uaf), lag (lag), and LBA48 with a capacity past 2^24 (lba48).

- **VGA.** The constants of the build: `VGA_MEMORY_SIZE` 0x10000, the mode table, the window sizes and positions of `window_init_gui`. The cursor is at 0, 512 or 1023 across and 0, 384 or 767 down (the start and `mouse_handler`'s clamps), and windows move to 0, 300 or 65530, which wraps under the uint16 sums. The terminal's text runs to 3 characters; characters further right add only rectangles to the right, which are clipped. The violation occurs in the first GUI step, so no bound is needed to reach it.

### Fairness

The fairness is `WF(Step) /\ SF(TakeInterrupt)`.

- The CPU keeps executing the running program.
- While IF is set, the CPU samples INTR at every instruction boundary. A request that stays enabled infinitely often is therefore eventually taken.
- Devices and exceptions are not fair: nothing forces a device to raise a line.

`PS2` assumes `WF(HostRuns) /\ WF(Handler) /\ WF(Deliver)`: the CPU keeps running the boot code and any handler it has entered, and the controller keeps loading its empty buffer while a byte is waiting for it. Keys, packets and ticks are not fair. `BootCompletes` needs no more.

`Storage` assumes `WF(Driver)`: once a call has started, the CPU keeps running its polling loops, and each loop ends, with the drive ready or after its 100000 polls. Nothing is assumed of the caller or the drives; a drive may never answer, which is the case `CallsReturn` is about.

`Desktop`, `RamDisk`, `Strings` and `Vga` state safety properties only and assume no fairness: their actions are calls and input events that a user or caller may never make.

## 4. Findings

There are twenty-four findings; `PROJECT.json` holds the details.

1. Handlers end in `ret`, not `iretq`. After the first timer IRQ, interrupts stay off except through `keyboard_handler`'s `sti`.
2. The RTC interrupts only once.
3. Interrupts are enabled during boot, not last.
4. The resuming exception handlers (and the NMI handler) send a master EOI even though they have no PIC line.
5. General protection is fatal in the code but non-fatal in the spec.
6. `mmu_unmap_page` walks from 0x1000, not CR3.
7. `mmu_unmap_page` descends into huge pages and zeroes their memory.
8. Intermediate entries take the first caller's flags, which narrows later mappings.
9. `mmu_alloc_page` starts at 0x400000, where the comments say the loader's mapping ends, so its memset can fault.
10. A left click on a window's close button starts a drag and destroys the window; `dragging_window` is left pointing at freed memory and the next mouse event writes through it.
11. `malloc` gives a block larger than a page a single page, so the next page handed out lies inside it: `ramdisk_create`'s data area overlaps its files table.
12. `ramdisk_write` moves a growing file to a reservation that holds only its new blocks, and `ramdisk_delete_file` never moves `free_block_start` back: files overrun each other and the end of the disk.
13. `vsprintf` reads one digit as the width and the next character as the conversion: the taskbar clock's `%02d` shows `?d`, and `mouse.c`'s `0x%02x, cycle: %d` prints the wrong argument.
14. `%x` prints upper-case digits, where `tests/test_stdio.c` expects `0xdead`.
15. `%llx` is not understood: the fault diagnostics print `0x?lx` instead of the address (spec scenario 11).
16. `vfs_normalize_path` resolves "/a/./.." to "/a/": a ".." after a "." pops only the slash the "." left behind.
17. `mouse_init` reads only the first of the four 0xFA it provokes (its two argument bytes go to the keyboard, not the mouse); the rest, and a `cycle` that is never reset, make `mouse_handler` report packets the mouse never sent (buttons 0xFA & 7 = right button) and read real ones out of phase.
18. `keyboard_init` clears configuration bit 6 under the comment "Enable translation": keys arrive in set 2 and `keymap.c`'s set 1 tables map 'a' to Enter.
19. `keyboard_handler` reads port 0x60 without checking status bit 5, so a mouse byte can be typed as a character.
20. `ide_read_sectors` and `ide_write_sectors` never check ERR or DRQ: a transfer the drive failed returns 0.
21. The LBA48 path writes the high and low register bytes in the wrong order and puts `lba[31:24]` in the count register: every LBA48 request reads another count and address.
22. The status is read right after the command without the 400 ns delay, so a stale DRDY passes `ide_wait_ready` before the drive has started.
23. `storage_unregister_device` reads `dev->info.name` after `ops->cleanup` has freed `dev`.
24. In mode 0x12, `vga_set_mode` sets pitch 320 (half the width) while `vga_set_pixel` stores one byte per pixel at `y * pitch + x`. Every pixel from row 204, column 256 on lies past the 64 KiB `back_buffer`, so the first desktop frame and every clock frame write up to 88 KB beyond it, and pixels (x, y) and (x - 320, y + 1) share a byte.

## 5. Not modelled, and the plan

Next, in order:

1. **Stray vectors.** A run in which a vector reaches `isr_default_handler`.
2. **Heap calls from the RAM disk and the desktop together**, over one heap.
3. **Modifier keys.** `Keymap` already has Shift, Ctrl and the locks; `PS2` presses only 'a'. With translation off, Shift's set 2 code 0x12 decodes as 'e', so the shared Shift flag of `update_keyboard_state` is unreachable until translation is fixed.

Not modelled, and why:

- serial and port I/O: pure output, with no state read back;
- VGA register programming in `vga_init` and `vga_set_mode`, `vga_clear_screen` and `vga_swap_buffers`: port writes and fixed 64 KiB `memset`/`memcpy` that never go through `vga_set_pixel`. The pixels' colours are not modelled either: `Vga` keeps only where writes land;
- `window_resize` (no caller) and the terminal buffer's characters: `Vga` keeps only the terminal's length;
- `calloc` and `realloc`: no callers;
- the VFS descriptor table (`fs.c`): `vfs_mount` never finds a file system type and `root_node` is never assigned, so `vfs_lookup` returns NULL and every descriptor call returns -1 (only `vfs_normalize_path` is modelled);
- `snprintf` (no caller) and `strdup` (`malloc` then `memcpy`; its one caller, `vfs_mount` at `fs.c:153`, lies behind `if (!fs) return -1` with `fs` always NULL);
- `keyboard_enable`, `keyboard_disable`, `mouse_enable`, `mouse_disable`: called only from `tests/test_drivers.c` or not at all;
- the mouse position arithmetic and the scancode and special-key callbacks: data and logging;
- `storage_get_device`, `storage_get_device_list`, `storage_print_device_info`, `storage_probe_devices`, `ide_read_identify_space`: they change no state (probe is empty, the identify strings are discarded); `ide_wait_busy` has no caller;
- `sysinfo`: CPUID reads, with no state after boot;
- `idt.h` and `asm_utils.h`: declarations and inline assembly wrappers (`cli`, `sti`, `hlt`, port I/O). `Interrupts` models their effects where the code uses them.

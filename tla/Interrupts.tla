----------------------------- MODULE Interrupts -----------------------------
(***************************************************************************)
(* Interrupt dispatch of the kernel: the CPU interrupt flag, the IDT       *)
(* (kernel/idt.c), the handlers it installs (kernel/isr.c and the driver   *)
(* handlers they call), the boot sequence that brings them up              *)
(* (kernel/main.c kernel_main/init_system and the driver init routines)    *)
(* and the two 8259A controllers (module PIC).                             *)
(*                                                                         *)
(* Code runs as programs: a sequence of the operations that touch          *)
(* interrupt state (cli, sti, lidt, PIC programming, EOI, return, halt).   *)
(* The main line runs the boot program and then idles in the hlt loop of  *)
(* kernel_main; every taken interrupt or exception pushes an activation    *)
(* running its handler's program.  Only the top activation runs.  Between  *)
(* any two operations a device may raise its line, the PIC may hand a      *)
(* request to the CPU (when IF is set) and an exception may be raised.     *)
(*                                                                         *)
(* The handlers are installed straight into the IDT as ordinary C          *)
(* functions (idt.c:37-73): they end in a plain return, not iretq, so      *)
(* returning never restores the interrupted RFLAGS.IF.                     *)
(***************************************************************************)
EXTENDS PIC, Naturals, Sequences, FiniteSets, TLC

CONSTANTS
  DevLines,       \* lines whose devices raise requests
  Exceptions,     \* exception vectors that code may raise (2 = NMI)
  MaxDepth,       \* bound on nested activations
  MaxExceptions   \* bound on the number of exceptions in a behaviour

VARIABLES
  ifl,        \* RFLAGS.IF
  idt,        \* vector -> handler installed in the loaded IDT
  main,       \* what is left of the main line's boot program
  stack,      \* interrupt/exception activations, innermost last
  halted,     \* a handler reached cli; for(;;) hlt
  rtcArmed,   \* the RTC may raise IRQ 8 (status register C has been read)
  nexc        \* exceptions raised so far

vars == <<imr, irr, isr, remapped, ifl, idt, main, stack, halted, rtcArmed, nexc>>

ASSUME DevLines \subseteq Lines \ {Cascade}
ASSUME Exceptions \subseteq 0 .. 31
ASSUME MaxDepth \in Nat \ {0} /\ MaxExceptions \in Nat

Vectors == 0 .. 127      \* covers the firmware's 0x70..0x77 slave vectors
NoLine  == 16            \* line field of an exception activation
RtcLine == 8

Range(f) == {f[x] : x \in DOMAIN f}

(***************************************************************************)
(* Operations of a program.                                                *)
(***************************************************************************)
Op(o)       == [op |-> o, irq |-> NoLine]
OpIrq(o, l) == [op |-> o, irq |-> l]
Cli == Op("cli")
Sti == Op("sti")
Ret == Op("ret")
Hlt == Op("halt")

(* pic_send_eoi(irq): slave command port first for a slave line, then the *)
(* master command port.                                                    *)
(* Mutant: master acknowledged before the slave. *)
SendEoiMasterFirst(l) ==
  IF l >= 8 THEN <<Op("eoi_master"), Op("eoi_slave")>> ELSE <<Op("eoi_master")>>

SendEoi(l) ==
  IF l >= 8 THEN <<Op("eoi_slave"), Op("eoi_master")>> ELSE <<Op("eoi_master")>>

(***************************************************************************)
(* The IDT that idt_init builds: vectors 0..20 get the exception handlers  *)
(* (9 and 15 keep the default), 32..47 the sixteen IRQ handlers, every     *)
(* other vector isr_default_handler.                                       *)
(***************************************************************************)
ExceptionHandler ==
  LET names == <<"divide_by_zero", "debug", "nmi", "breakpoint", "overflow",
                 "bound_range", "invalid_opcode", "device_not_available",
                 "double_fault", "-", "invalid_tss", "segment_not_present",
                 "stack_segment", "general_protection", "page_fault", "-",
                 "fpu_fault", "alignment_check", "machine_check",
                 "simd_exception", "virtualization_exception">>
  IN  [v \in (0 .. 20) \ {9, 15} |-> names[v + 1]]

IrqHandler ==
  <<"timer", "keyboard", "cascade", "com2", "com1", "lpt2", "floppy", "lpt1",
    "rtc", "irq9", "irq10", "irq11", "mouse", "coproc", "primary_ata",
    "secondary_ata">>

(* Mutant: idt_init without the loop that first fills all 256 entries. *)
IdtInitTableNoFill ==
  [v \in Vectors |->
     IF v \in DOMAIN ExceptionHandler THEN ExceptionHandler[v]
     ELSE IF v \in 32 .. 47 THEN IrqHandler[v - 31]
     ELSE "none"]

IdtInitTable ==
  [v \in Vectors |->
     IF v \in DOMAIN ExceptionHandler THEN ExceptionHandler[v]
     ELSE IF v \in 32 .. 47 THEN IrqHandler[v - 31]
     ELSE "default"]

(***************************************************************************)
(* Handler programs (isr.c and the driver handlers).                       *)
(***************************************************************************)
(* Exception handlers that log, send pic_send_eoi(0) and return. *)
ResumingHandlers ==
  {"debug", "nmi", "breakpoint", "overflow", "bound_range",
   "device_not_available", "invalid_tss", "segment_not_present",
   "stack_segment", "fpu_fault", "alignment_check", "simd_exception",
   "virtualization_exception"}
ResumeProg == SendEoi(0) \o <<Ret>>

(* Exception handlers that end in asm_cli(); for(;;) asm_hlt(). *)
HaltingHandlers ==
  {"divide_by_zero", "invalid_opcode", "double_fault", "general_protection",
   "page_fault", "machine_check"}
HaltProg == <<Hlt>>

(* isr_default_handler: pic_send_eoi(0); pic_send_eoi(8). *)
DefaultProg == SendEoi(0) \o SendEoi(8) \o <<Ret>>

(* isr_timer -> pit_handler: count, callback, pic_send_eoi(0). *)
(* Mutant: isr_timer also acknowledging after pit_handler did. *)
TimerProgDoubleEoi == SendEoi(0) \o SendEoi(0) \o <<Ret>>

TimerProg == SendEoi(0) \o <<Ret>>

(* isr_keyboard -> keyboard_handler, status bit 0 clear: cli, EOI, sti. *)
(* Mutant: the early return of keyboard_handler without its EOI. *)
KeyboardNoDataProgNoEoi == <<Cli, Sti, Ret>>

KeyboardNoDataProg == <<Cli>> \o SendEoi(1) \o <<Sti, Ret>>
(* keyboard_handler with data: cli, read, callbacks, EOI, sti. *)
KeyboardDataProg == <<Cli>> \o SendEoi(1) \o <<Sti, Ret>>

(* isr_mouse -> mouse_handler, status bit 5 clear: EOI and return. *)
MouseNotMouseProg == SendEoi(12) \o <<Ret>>
(* mouse_handler with a mouse byte: packet state machine, EOI. *)
MouseDataProg == SendEoi(12) \o <<Ret>>

(* The remaining IRQ handlers log and acknowledge their own line; isr_rtc *)
(* does not call rtc_handler, so RTC status register C is never read.     *)
IrqEoiProg(l) == SendEoi(l) \o <<Ret>>

(* The programs a handler may run; the choice is the device status read. *)
Progs(h) ==
  CASE h = "timer"            -> {TimerProg}
    [] h = "keyboard"         -> {KeyboardNoDataProg, KeyboardDataProg}
    [] h = "mouse"            -> {MouseNotMouseProg, MouseDataProg}
    [] h \in ResumingHandlers -> {ResumeProg}
    [] h \in HaltingHandlers  -> {HaltProg}
    [] h = "default"          -> {DefaultProg}
    [] h = "none"             -> {HaltProg}   \* no IDT: triple fault
    [] OTHER -> {IrqEoiProg(CHOOSE l \in Lines : IrqHandler[l + 1] = h)}

(***************************************************************************)
(* The main line: kernel_main (cli, init_system) up to the hlt loop.       *)
(* kbdOk / mouseOk1 / mouseOk2 are the outcomes of the PS/2 controller     *)
(* handshakes, whose timeouts end the init routine early with sti.         *)
(***************************************************************************)
(* mouse_init: cli; configure; on timeout sti and return; else unmask     *)
(* IRQ 12 and sti.                                                         *)
MouseInitProg(ok) ==
  <<Cli>> \o (IF ok THEN <<OpIrq("unmask", 12)>> ELSE <<>>) \o <<Sti>>

(* keyboard_init: cli; handshakes (timeout: sti, return); unmask IRQ 1;   *)
(* mouse_init(); sti.                                                      *)
KeyboardInitProg(ok, mouseOk) ==
  <<Cli>> \o
  (IF ok THEN <<OpIrq("unmask", 1)>> \o MouseInitProg(mouseOk) \o <<Sti>>
         ELSE <<Sti>>)

(* kernel_main's asm_cli and init_system in order: mmu/vmm/sysinfo (no    *)
(* interrupt state), idt_init, pic_init, pit_init (unmask 0), rtc_init    *)
(* (unmask 8), rtc_enable_interrupt (reads status C), keyboard_init,       *)
(* mouse_init, idt_enable_interrupts.                                      *)
(* Mutant: init_system programming the PIC after the PS/2 drivers. *)
BootProgLatePic(kbdOk, mouseOk1, mouseOk2) ==
  <<Cli, Op("idt_init"), OpIrq("unmask", 0),
    OpIrq("unmask", RtcLine), Op("rtc_arm")>>
  \o KeyboardInitProg(kbdOk, mouseOk1)
  \o <<Op("pic_init")>>
  \o MouseInitProg(mouseOk2)
  \o <<Sti>>

BootProg(kbdOk, mouseOk1, mouseOk2) ==
  <<Cli, Op("idt_init"), Op("pic_init"), OpIrq("unmask", 0),
    OpIrq("unmask", RtcLine), Op("rtc_arm")>>
  \o KeyboardInitProg(kbdOk, mouseOk1)
  \o MouseInitProg(mouseOk2)
  \o <<Sti>>

(***************************************************************************)
(* The running context.                                                    *)
(***************************************************************************)
Running == IF stack = <<>> THEN main ELSE stack[Len(stack)].prog

SetRunning(p) ==
  IF stack = <<>>
    THEN main' = p /\ UNCHANGED stack
    ELSE stack' = [stack EXCEPT ![Len(stack)].prog = p] /\ UNCHANGED main

Exec(o) == Running # <<>> /\ Head(Running).op = o

Advance == SetRunning(Tail(Running))

(* The IRQ line the running activation serves (NoLine for an exception). *)
RunningLine == IF stack = <<>> THEN NoLine ELSE stack[Len(stack)].line

BootDone == main = <<>>

Init ==
  /\ PicInit0
  /\ ifl = FALSE        \* long mode is entered with no IDT, so IF is clear
  /\ idt = [v \in Vectors |-> "none"]
  /\ main \in {BootProg(k, m1, m2) : k, m1, m2 \in BOOLEAN}
  /\ stack = <<>>
  /\ halted = FALSE
  /\ rtcArmed = FALSE
  /\ nexc = 0

(***************************************************************************)
(* Operations of the running context.                                      *)
(***************************************************************************)
DoCli ==
  /\ Exec("cli") /\ ifl' = FALSE /\ Advance
  /\ UNCHANGED <<imr, irr, isr, remapped, idt, halted, rtcArmed, nexc>>

DoSti ==
  /\ Exec("sti") /\ ifl' = TRUE /\ Advance
  /\ UNCHANGED <<imr, irr, isr, remapped, idt, halted, rtcArmed, nexc>>

(* idt_init: fill the table and lidt. *)
IdtInit ==
  /\ Exec("idt_init") /\ idt' = IdtInitTable /\ Advance
  /\ UNCHANGED <<imr, irr, isr, remapped, ifl, halted, rtcArmed, nexc>>

DoPicInit ==
  /\ Exec("pic_init") /\ PicInit /\ Advance
  /\ UNCHANGED <<ifl, idt, halted, rtcArmed, nexc>>

DoUnmask ==
  /\ Exec("unmask") /\ ClearMask(Head(Running).irq) /\ Advance
  /\ UNCHANGED <<ifl, idt, halted, rtcArmed, nexc>>

(* rtc_enable_interrupt: periodic interrupt on, read status C. *)
RtcEnableInterrupt ==
  /\ Exec("rtc_arm") /\ rtcArmed' = TRUE /\ Advance
  /\ UNCHANGED <<imr, irr, isr, remapped, ifl, idt, halted, nexc>>

SendEoiMaster ==
  /\ Exec("eoi_master") /\ EoiChip(MasterLines) /\ Advance
  /\ UNCHANGED <<ifl, idt, halted, rtcArmed, nexc>>

SendEoiSlave ==
  /\ Exec("eoi_slave") /\ EoiChip(SlaveLines) /\ Advance
  /\ UNCHANGED <<ifl, idt, halted, rtcArmed, nexc>>

(* The handler's C return: pops the activation, leaves IF as it is. *)
HandlerReturn ==
  /\ Exec("ret") /\ stack # <<>>
  /\ stack' = SubSeq(stack, 1, Len(stack) - 1)
  /\ UNCHANGED <<imr, irr, isr, remapped, ifl, idt, main, halted, rtcArmed, nexc>>

(* asm_cli(); for(;;) asm_hlt(); the operation stays at the head. *)
HaltForever ==
  /\ Exec("halt") /\ ~halted
  /\ halted' = TRUE /\ ifl' = FALSE
  /\ UNCHANGED <<imr, irr, isr, remapped, idt, main, stack, rtcArmed, nexc>>

(***************************************************************************)
(* The CPU and the devices.                                                *)
(***************************************************************************)
(* An interrupt gate: INTA, vector from the PIC, handler from the IDT,    *)
(* IF cleared.                                                             *)
TakeInterrupt ==
  /\ ifl /\ IntPending /\ Len(stack) < MaxDepth
  /\ LET l == NextLine
         v == VectorOf(l)
     IN  /\ Acknowledge(l)
         /\ \E p \in Progs(idt[v]) :
              stack' = Append(stack, [line |-> l, vec |-> v, prog |-> p])
  /\ ifl' = FALSE
  /\ UNCHANGED <<remapped, idt, main, halted, rtcArmed, nexc>>

(* A synchronous exception (or an NMI, also while halted). *)
RaiseException(v) ==
  /\ nexc < MaxExceptions /\ Len(stack) < MaxDepth
  /\ ~halted \/ v = 2
  /\ \E p \in Progs(idt[v]) :
       stack' = Append(stack, [line |-> NoLine, vec |-> v, prog |-> p])
  /\ ifl' = FALSE
  /\ nexc' = nexc + 1
  /\ UNCHANGED <<imr, irr, isr, remapped, idt, main, halted, rtcArmed>>

(* A device edge.  The RTC raises IRQ 8 once per read of status C. *)
DeviceRaise(l) ==
  /\ l = RtcLine => rtcArmed
  /\ Raise(l)
  /\ rtcArmed' = IF l = RtcLine THEN FALSE ELSE rtcArmed
  /\ UNCHANGED <<ifl, idt, main, stack, halted, nexc>>

Step ==
  \/ DoCli \/ DoSti \/ IdtInit \/ DoPicInit \/ DoUnmask \/ RtcEnableInterrupt
  \/ SendEoiMaster \/ SendEoiSlave \/ HandlerReturn \/ HaltForever

Next ==
  \/ Step
  \/ TakeInterrupt
  \/ \E v \in Exceptions : RaiseException(v)
  \/ \E l \in DevLines : DeviceRaise(l)

(* The CPU keeps executing the running context, and samples INTR at every *)
(* instruction boundary, so a request is taken whenever IF is set.        *)
Fairness == WF_vars(Step) /\ SF_vars(TakeInterrupt)

Spec == Init /\ [][Next]_vars /\ Fairness

-----------------------------------------------------------------------------
(***************************************************************************)
(* Properties.                                                             *)
(***************************************************************************)
TypeOK ==
  /\ PicTypeOK
  /\ ifl \in BOOLEAN
  /\ \/ idt = [v \in Vectors |-> "none"]
     \/ idt \in [Vectors -> {"default"} \cup Range(ExceptionHandler)
                                     \cup Range(IrqHandler)]
  /\ main \in Seq([op : STRING, irq : Lines \cup {NoLine}])
  /\ \A i \in DOMAIN stack :
       stack[i].line \in Lines \cup {NoLine} /\ stack[i].vec \in Vectors
  /\ Len(stack) <= MaxDepth
  /\ halted \in BOOLEAN /\ rtcArmed \in BOOLEAN
  /\ nexc \in 0 .. MaxExceptions

(* The master keeps its cascade input 2 in service as long as the slave   *)
(* has a line in service: pic_send_eoi must acknowledge the slave before  *)
(* the master, and no other EOI may release input 2 early.                *)
CascadeConsistent ==
  isr \cap SlaveLines # {} => Cascade \in isr

(* Every EOI written to a chip retires exactly the in-service bit of the  *)
(* IRQ whose handler wrote it: no handler acknowledges a line it is not   *)
(* serving, and none writes an EOI when its own line is not in service.   *)
EoiAcksOwnLine ==
  [][ /\ SendEoiMaster =>
           /\ RunningLine # NoLine
           /\ EoiTarget(MasterLines) = {MasterBitOf(RunningLine)}
      /\ SendEoiSlave =>
           /\ RunningLine \in SlaveLines
           /\ EoiTarget(SlaveLines) = {RunningLine} ]_vars

(* An IRQ is always dispatched to the handler installed for its own line: *)
(* no request reaches the CPU before idt_init and pic_init have run.      *)
IrqReachesOwnHandler ==
  \A i \in DOMAIN stack :
    stack[i].line # NoLine => idt[stack[i].vec] = IrqHandler[stack[i].line + 1]

(* Every line taken into service is eventually acknowledged, unless the   *)
(* machine has halted: every path of every IRQ handler sends its EOI.     *)
InServiceEventuallyAcked ==
  \A l \in DevLines : (l \in isr) ~> (l \notin isr \/ halted)

(* A pending, unmasked timer request is eventually taken (the periodic    *)
(* tick keeps arriving after boot).                                       *)
TimerKeepsTicking ==
  (BootDone /\ 0 \in irr) ~> (0 \notin irr)

(* After an RTC interrupt has been serviced, the RTC is eventually able   *)
(* to interrupt again (status register C is read).                        *)
RtcKeepsInterrupting ==
  (RtcLine \in isr) ~> rtcArmed

(* Interrupts are accepted only once init_system's final                  *)
(* idt_enable_interrupts has run (enabling is performed last).            *)
IrqOnlyAfterBoot ==
  (\E i \in DOMAIN stack : stack[i].line # NoLine) => BootDone

(* The exceptions the fault policy of the specification calls non-fatal  *)
(* (log, acknowledge, resume at the faulting instruction).                 *)
SpecNonFatal ==
  {"breakpoint", "overflow", "bound_range", "device_not_available",
   "invalid_tss", "segment_not_present", "stack_segment",
   "general_protection", "alignment_check", "simd_exception",
   "virtualization_exception"}

(* The machine halts only in the handler of a fatal exception: no handler *)
(* of an exception the fault policy calls non-fatal ends in cli; hlt.     *)
HaltOnlyOnFatal ==
  halted => idt[stack[Len(stack)].vec] \notin SpecNonFatal

=============================================================================

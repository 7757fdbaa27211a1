-------------------------------- MODULE PS2 --------------------------------
(***************************************************************************)
(* The PS/2 input path: the 8042 controller with its keyboard and mouse    *)
(* ports, the keyboard and mouse drivers (drivers/keyboard/keyboard.c,     *)
(* keymap.c, drivers/mouse/mouse.c) and the part of the boot in            *)
(* kernel/main.c init_system from keyboard_init to the final sti.          *)
(*                                                                         *)
(* The 8042 has one output buffer (port 0x60, status bit 0) shared by the  *)
(* keyboard, the mouse (status bit 5 marks its bytes) and the controller's *)
(* own answers.  The boot program runs as a sequence of port operations;   *)
(* between any two of them a device may queue a byte, the controller may   *)
(* load one into the buffer and raise IRQ 1 or IRQ 12, the timer may raise *)
(* IRQ 0, and, while IF is set, the CPU takes the request the PIC (module  *)
(* PIC) offers.  The acknowledge is one step and the handler's body, up to *)
(* its EOI, the next of the CPU's; the devices and the controller may act  *)
(* in between.  As in module Interrupts, handlers are plain C functions:   *)
(* IF stays clear after one returns, except that keyboard_handler ends in  *)
(* sti.                                                                    *)
(*                                                                         *)
(* Bytes carry their origin (history fields, not seen by the code): which  *)
(* device sent them, which key press or release, which mouse packet and    *)
(* which position in it.                                                   *)
(***************************************************************************)
EXTENDS PIC, Keymap, Bitwise, Sequences

CONSTANTS
  Keys,          \* keys the user may press (no modifiers)
  Set2Code,      \* key -> its make code in scan code set 2
  Set1Code,      \* key -> its make code in scan code set 1
  Layout,        \* key -> the character a US keyboard prints for it
  Moves,         \* movement bytes a mouse packet may carry
  BiosConfigs,   \* the 8042 configuration bytes firmware may leave
  MaxKeyEvents,  \* bound on key presses and releases
  MaxPackets     \* bound on mouse packets

VARIABLES
  ifl,         \* RFLAGS.IF
  main,        \* what is left of the boot program
  obf,         \* the 8042 output buffer: <<>> or <<byte>>
  kbdQ,        \* bytes the keyboard has yet to send
  auxQ,        \* bytes the mouse has yet to send
  ctlQ,        \* the controller's own pending answer
  cfg,         \* the 8042 configuration byte
  streaming,   \* the mouse reports movement (after 0xF4)
  kst,         \* keymap.c keyboard_state
  charCb,      \* keyboard.c char_callback is set
  cycle,       \* mouse_handler's static mouse_cycle
  pkt,         \* the bytes of mouse_handler's static packet so far
  buttons,     \* mouse_state.buttons
  held,        \* keys down
  nkeys,       \* key events so far
  npkts,       \* mouse packets so far
  lastKbd,     \* history: the byte keyboard_handler read last
  lastMouse,   \* history: the byte mouse_handler read last
  lastPacket,  \* history: the three bytes of the last completed packet
  typed,       \* history: the last char_callback character and its byte
  cfgFrom,     \* history: origin of the byte an init took as configuration
  handling     \* the line whose handler the CPU is running, or NoLine

vars == <<imr, irr, isr, remapped, ifl, main, obf, kbdQ, auxQ, ctlQ, cfg,
          streaming, kst, charCb, cycle, pkt, buttons, held, nkeys, npkts,
          lastKbd, lastMouse, lastPacket, typed, cfgFrom, handling>>

ACK  == \hFA      \* device acknowledge
BAT  == \hAA      \* keyboard self-test passed
F0   == \hF0      \* set 2 break prefix
RESEND == \hFE    \* keyboard: resend (the byte was no command)

KbdLine   == 1
MouseLine == 12
TimerLine == 0
NoLine    == 16

(***************************************************************************)
(* Bytes.                                                                  *)
(***************************************************************************)
NoKey == "none"
Srcs  == {"kbd", "aux", "ctl", "none"}

Byte(src, v) == [src |-> src, v |-> v, key |-> NoKey, mk |-> FALSE,
                 pkt |-> 0, pos |-> 0]
KeyByte(k, v, mk) == [Byte("kbd", v) EXCEPT !.key = k, !.mk = mk]
PktByte(n, i, v)  == [Byte("aux", v) EXCEPT !.pkt = n, !.pos = i]
NoByte == Byte("none", 0)

Bytes == [src : Srcs, v : 0 .. 255, key : Keys \cup {NoKey}, mk : BOOLEAN,
          pkt : 0 .. MaxPackets, pos : 0 .. 3]

NoTyped == [c |-> NoChar, b |-> NoByte]

(***************************************************************************)
(* The configuration byte (8042 command 0x20 / 0x60).                      *)
(***************************************************************************)
Bit(x, n) == (x \div 2^n) % 2 = 1
Set(x, n)   == x | 2^n
Clear(x, n) == x & (255 - 2^n)

KbdIrqOn    == Bit(cfg, 0)
AuxIrqOn    == Bit(cfg, 1)
KbdDisabled == Bit(cfg, 4)
AuxDisabled == Bit(cfg, 5)
Translate   == Bit(cfg, 6)

(* keyboard_init: config |= 1; config &= ~(1 << 4); config &= ~(1 << 6). *)
KeyboardConfig(c) == Clear(Clear(Set(c, 0), 4), 6)

(* mouse_init: |= 0x02; &= ~0x20; |= 0x01; &= ~0x10. *)
MouseConfig(c) == Clear(Set(Clear(Set(c, 1), 5), 0), 4)

(* Controller commands written to port 0x64. *)
CtlEffect(c, cmd) ==
  CASE cmd = \hAD -> Set(c, 4)      \* disable keyboard port
    [] cmd = \hAE -> Clear(c, 4)    \* enable keyboard port
    [] cmd = \hA7 -> Set(c, 5)      \* disable mouse port
    [] cmd = \hA8 -> Clear(c, 5)    \* enable mouse port

(***************************************************************************)
(* The boot program.                                                       *)
(***************************************************************************)
Op(o)     == [op |-> o, arg |-> 0]
OpA(o, a) == [op |-> o, arg |-> a]
Cli == Op("cli")
Sti == Op("sti")
Ctl(cmd)  == OpA("ctl", cmd)
Wait(v)   == OpA("wait", v)
AuxCmd(v) == OpA("aux", v)

(* Mutant: the inits leave the mouse port enabled (no 0xA7). *)
PreambleNoA7(who) ==
  << Cli, Ctl(\hAD), Op("flush"), Op("rdcfg"), OpA("wrcfg", who) >>

(* Both inits open alike: cli, disable both ports, drain the buffer, and  *)
(* ask for the configuration byte (0x20) to rewrite it (0x60).            *)
Preamble(who) ==
  << Cli, Ctl(\hAD), Ctl(\hA7), Op("flush"), Op("rdcfg"), OpA("wrcfg", who) >>

(* mouse_init: the preamble, enable the mouse port, then four commands   *)
(* through 0xD4 (set rate, set resolution, scaling 1:1, enable            *)
(* reporting).  0xD4 routes only the next byte to the mouse: the rate and *)
(* resolution arguments (100, 0x03) are plain writes to port 0x60 and go  *)
(* to the keyboard.  One wait for 0xFA, re-enable the keyboard port,      *)
(* reset mouse_state, unmask IRQ 12, sti.                                 *)
MouseInitProg ==
  Preamble(1) \o
  << Ctl(\hA8), AuxCmd(\hF3), OpA("kbd", 100), AuxCmd(\hE8), OpA("kbd", 3),
     AuxCmd(\hE6), AuxCmd(\hF4), Wait(ACK), Ctl(\hAE), Op("mreset"),
     OpA("unmask", MouseLine), Sti >>

(* Mutant: the two waits after the reset taken in the other order. *)
KeyboardInitProgBatFirst ==
  Preamble(0) \o
  << Ctl(\hAE), OpA("kbd", \hFF), Wait(BAT), Wait(ACK), OpA("kbd", \hF4),
     Wait(ACK), OpA("unmask", KbdLine) >>
  \o MouseInitProg \o << Sti >>

(* keyboard_init: the preamble, enable the keyboard port, reset (0xFF)    *)
(* waiting for 0xFA then 0xAA, enable scanning (0xF4) waiting for 0xFA,   *)
(* unmask IRQ 1, mouse_init, sti.                                         *)
KeyboardInitProg ==
  Preamble(0) \o
  << Ctl(\hAE), OpA("kbd", \hFF), Wait(ACK), Wait(BAT), OpA("kbd", \hF4),
     Wait(ACK), OpA("unmask", KbdLine) >>
  \o MouseInitProg \o << Sti >>

(* init_system from keyboard_init on: keyboard_init, the keyboard         *)
(* callbacks, mouse_init once more, then idt_enable_interrupts.           *)
BootProg == KeyboardInitProg \o << Op("callbacks") >> \o MouseInitProg \o << Sti >>


BootDone == main = <<>>

Init ==
  /\ imr = Lines \ {0, 1, 2, 8}     \* pic_init, then rtc_init opened IRQ 8
  /\ irr = {}
  /\ isr = {}
  /\ remapped = TRUE
  /\ ifl = FALSE                    \* kernel_main starts with cli
  /\ main = BootProg
  /\ obf = <<>>
  /\ kbdQ = <<>>
  /\ auxQ = <<>>
  /\ ctlQ = <<>>
  /\ cfg \in BiosConfigs
  /\ streaming = FALSE
  /\ kst = KeyboardStateInit
  /\ charCb = FALSE
  /\ cycle = 0
  /\ pkt = <<>>
  /\ buttons = 0
  /\ held = {}
  /\ nkeys = 0
  /\ npkts = 0
  /\ lastKbd = NoByte
  /\ lastMouse = NoByte
  /\ lastPacket = <<>>
  /\ typed = NoTyped
  /\ cfgFrom = "none"
  /\ handling = NoLine

devVars  == <<kbdQ, auxQ, ctlQ, streaming, held, nkeys, npkts>>
drvVars  == <<kst, charCb, cycle, pkt, buttons>>
histVars == <<lastKbd, lastMouse, lastPacket, typed, cfgFrom>>

(***************************************************************************)
(* The boot program's steps.                                               *)
(***************************************************************************)
Exec(o)  == main # <<>> /\ Head(main).op = o
Arg      == Head(main).arg
Advance  == main' = Tail(main)

DoCli == Exec("cli") /\ Advance /\ ifl' = FALSE
         /\ UNCHANGED <<picVars, obf, cfg, devVars, drvVars, histVars>>

DoSti == Exec("sti") /\ Advance /\ ifl' = TRUE
         /\ UNCHANGED <<picVars, obf, cfg, devVars, drvVars, histVars>>

(* A controller command to port 0x64. *)
CtlCommand ==
  /\ Exec("ctl") /\ Advance
  /\ cfg' = CtlEffect(cfg, Arg)
  /\ UNCHANGED <<picVars, ifl, obf, devVars, drvVars, histVars>>

(* The flush loop: read port 0x60 while status bit 0 is set. *)
FlushRead ==
  /\ Exec("flush") /\ obf # <<>>
  /\ obf' = <<>>
  /\ UNCHANGED <<picVars, ifl, main, cfg, devVars, drvVars, histVars>>

FlushDone ==
  /\ Exec("flush") /\ obf = <<>> /\ Advance
  /\ UNCHANGED <<picVars, ifl, obf, cfg, devVars, drvVars, histVars>>

(* Command 0x20: the controller answers with its configuration byte. *)
ReadConfig ==
  /\ Exec("rdcfg") /\ Advance
  /\ ctlQ' = Append(ctlQ, Byte("ctl", cfg))
  /\ UNCHANGED <<picVars, ifl, obf, cfg, kbdQ, auxQ, streaming, held, nkeys,
                 npkts, drvVars, histVars>>

(* The first byte with status bit 0 set is taken as the configuration,    *)
(* rewritten and sent back with command 0x60.                             *)
WriteConfig ==
  /\ Exec("wrcfg") /\ obf # <<>> /\ Advance
  /\ cfg' = IF Arg = 0 THEN KeyboardConfig(obf[1].v) ELSE MouseConfig(obf[1].v)
  /\ cfgFrom' = obf[1].src
  /\ obf' = <<>>
  /\ UNCHANGED <<picVars, ifl, devVars, drvVars, lastKbd, lastMouse,
                 lastPacket, typed>>

(* A byte written to port 0x60 goes to the keyboard, which drops what it *)
(* had yet to send and answers: 0xFA to 0xFF (reset), followed by 0xAA    *)
(* when its self-test passes, and to 0xF4 (enable); 0xFE (resend) to a    *)
(* byte that is no command, as mouse_init's 100 and 0x03 are.             *)
KbdReply(v) ==
  CASE v = \hFF -> << Byte("kbd", ACK), Byte("kbd", BAT) >>
    [] v = \hF4 -> << Byte("kbd", ACK) >>
    [] OTHER    -> << Byte("kbd", RESEND) >>

KbdCommand ==
  /\ Exec("kbd") /\ Advance
  /\ kbdQ' = KbdReply(Arg)
  /\ UNCHANGED <<picVars, ifl, obf, cfg, auxQ, ctlQ, streaming, held, nkeys,
                 npkts, drvVars, histVars>>

(* 0xD4 then a byte: the mouse acknowledges every byte it receives with  *)
(* 0xFA, after what it had queued; 0xF4 starts streaming.                 *)
AuxCommand ==
  /\ Exec("aux") /\ Advance
  /\ auxQ' = Append(auxQ, Byte("aux", ACK))
  /\ streaming' = (streaming \/ Arg = \hF4)
  /\ UNCHANGED <<picVars, ifl, obf, cfg, kbdQ, ctlQ, held, nkeys, npkts,
                 drvVars, histVars>>

(* A wait loop: read every byte that arrives until one equals the value. *)
WaitFor ==
  /\ Exec("wait") /\ obf # <<>>
  /\ main' = IF obf[1].v = Arg THEN Tail(main) ELSE main
  /\ obf' = <<>>
  /\ UNCHANGED <<picVars, ifl, cfg, devVars, drvVars, histVars>>

Unmask ==
  /\ Exec("unmask") /\ Advance
  /\ ClearMask(Arg)
  /\ UNCHANGED <<ifl, obf, cfg, devVars, drvVars, histVars>>

(* mouse_init resets mouse_state (position and buttons); mouse_cycle, a   *)
(* static of mouse_handler, is left as it was.                            *)
MouseStateReset ==
  /\ Exec("mreset") /\ Advance
  /\ buttons' = 0
  /\ UNCHANGED <<picVars, ifl, obf, cfg, devVars, kst, charCb, cycle, pkt,
                 histVars>>

(* main.c: keyboard_set_char_callback(keyboard_char) and the others. *)
SetCallbacks ==
  /\ Exec("callbacks") /\ Advance
  /\ charCb' = TRUE
  /\ UNCHANGED <<picVars, ifl, obf, cfg, devVars, kst, cycle, pkt, buttons,
                 histVars>>

HostStep ==
  \/ DoCli \/ DoSti \/ CtlCommand \/ FlushRead \/ FlushDone \/ ReadConfig
  \/ WriteConfig \/ KbdCommand \/ AuxCommand \/ WaitFor \/ Unmask
  \/ MouseStateReset \/ SetCallbacks

(***************************************************************************)
(* The devices.  Keys are typed in scan code set 2, the keyboard's         *)
(* default: a make code on press, 0xF0 and the make code on release.       *)
(***************************************************************************)
PressKey(k) ==
  /\ nkeys < MaxKeyEvents /\ k \notin held
  /\ kbdQ' = Append(kbdQ, KeyByte(k, Set2Code[k], TRUE))
  /\ held' = held \cup {k}
  /\ nkeys' = nkeys + 1
  /\ UNCHANGED <<picVars, ifl, main, obf, auxQ, ctlQ, cfg, streaming, npkts,
                 drvVars, histVars>>

ReleaseKey(k) ==
  /\ nkeys < MaxKeyEvents /\ k \in held
  /\ kbdQ' = kbdQ \o << KeyByte(k, F0, FALSE), KeyByte(k, Set2Code[k], FALSE) >>
  /\ held' = held \ {k}
  /\ nkeys' = nkeys + 1
  /\ UNCHANGED <<picVars, ifl, main, obf, auxQ, ctlQ, cfg, streaming, npkts,
                 drvVars, histVars>>

(* A movement packet: flags (bit 3 always set, bit 0 the left button),    *)
(* then the X and Y movement bytes.                                        *)
MousePacket ==
  /\ streaming /\ npkts < MaxPackets
  /\ \E left \in 0 .. 1, dx, dy \in Moves :
       auxQ' = auxQ \o << PktByte(npkts + 1, 1, 8 + left),
                          PktByte(npkts + 1, 2, dx),
                          PktByte(npkts + 1, 3, dy) >>
  /\ npkts' = npkts + 1
  /\ UNCHANGED <<picVars, ifl, main, obf, kbdQ, ctlQ, cfg, streaming, held,
                 nkeys, drvVars, histVars>>

(* The PIT raises IRQ 0. *)
Tick ==
  /\ TimerLine \notin irr
  /\ Raise(TimerLine)
  /\ UNCHANGED <<ifl, main, obf, cfg, devVars, drvVars, histVars>>

(***************************************************************************)
(* The controller loads the output buffer when it is empty: its own        *)
(* answer, or the next byte of a device whose port is enabled, raising     *)
(* that port's IRQ when the configuration enables it.  With translation   *)
(* on (bit 6), it turns set 2 codes into set 1, 0xF0 and a make code into *)
(* the set 1 break code.                                                   *)
(***************************************************************************)
Set1Of(v) ==
  IF \E k \in Keys : Set2Code[k] = v
    THEN Set1Code[CHOOSE k \in Keys : Set2Code[k] = v]
    ELSE v

Load(b, on, l) ==
  /\ obf' = << b >>
  /\ irr' = IF on THEN irr \cup {l} ELSE irr
  /\ UNCHANGED <<imr, isr, remapped>>

DeliverCtl ==
  /\ obf = <<>> /\ ctlQ # <<>>
  /\ Load(Head(ctlQ), KbdIrqOn, KbdLine)
  /\ ctlQ' = Tail(ctlQ)
  /\ UNCHANGED <<ifl, main, cfg, kbdQ, auxQ, streaming, held, nkeys, npkts,
                 drvVars, histVars>>

DeliverKbd ==
  /\ obf = <<>> /\ ~KbdDisabled /\ kbdQ # <<>>
  /\ LET b   == Head(kbdQ)
         brk == Translate /\ b.v = F0 /\ Len(kbdQ) >= 2
         out == CASE brk       -> [kbdQ[2] EXCEPT !.v = Set1Of(@) + 128]
                  [] Translate -> [b EXCEPT !.v = Set1Of(@)]
                  [] OTHER     -> b
     IN  /\ Load(out, KbdIrqOn, KbdLine)
         /\ kbdQ' = IF brk THEN Tail(Tail(kbdQ)) ELSE Tail(kbdQ)
  /\ UNCHANGED <<ifl, main, cfg, auxQ, ctlQ, streaming, held, nkeys, npkts,
                 drvVars, histVars>>

DeliverAux ==
  /\ obf = <<>> /\ ~AuxDisabled /\ auxQ # <<>>
  /\ Load(Head(auxQ), AuxIrqOn, MouseLine)
  /\ auxQ' = Tail(auxQ)
  /\ UNCHANGED <<ifl, main, cfg, kbdQ, ctlQ, streaming, held, nkeys, npkts,
                 drvVars, histVars>>

(***************************************************************************)
(* Interrupts.  With IF set the CPU takes the request the PIC offers: the  *)
(* acknowledge cycle puts the line in service and the gate clears IF.      *)
(* The handler body runs next, while the devices and the controller go on; *)
(* it ends with pic_send_eoi and a plain return.                           *)
(***************************************************************************)
TakeInterrupt ==
  /\ ifl /\ IntPending /\ handling = NoLine
  /\ Acknowledge(NextLine)
  /\ ifl' = FALSE
  /\ handling' = NextLine
  /\ UNCHANGED <<main, obf, cfg, devVars, drvVars, histVars>>

(* pic_send_eoi(l): the slave's bit first for a slave line, then the      *)
(* master's; the handler returns.                                         *)
Serviced(l) ==
  /\ handling = l
  /\ isr' = isr \ {l, MasterBitOf(l)}
  /\ handling' = NoLine
  /\ UNCHANGED <<imr, irr, remapped>>

(* isr_timer -> pit_handler: nothing here changes but the EOI. *)
TimerHandler ==
  /\ Serviced(TimerLine)
  /\ ifl' = FALSE
  /\ UNCHANGED <<main, obf, cfg, devVars, drvVars, histVars>>

(* keyboard_handler: cli; nothing to do unless status bit 0 is set; read  *)
(* the byte, whatever port it came from; update the modifier state; a    *)
(* non-special key gives char_callback its character when it has one;    *)
(* EOI; sti.                                                               *)
KeyboardHandler ==
  /\ Serviced(KbdLine)
  /\ ifl' = TRUE
  /\ IF obf = <<>>
       THEN UNCHANGED <<obf, kst, lastKbd, typed>>
       ELSE LET b  == obf[1]
                st == UpdateKeyboardState(b.v, kst)
                c  == ScancodeToAscii(b.v, st)
            IN  /\ obf' = <<>>
                /\ kst' = st
                /\ lastKbd' = b
                /\ typed' = IF charCb /\ ~IsSpecialKey(b.v) /\ c # NoChar
                              THEN [c |-> c, b |-> b] ELSE typed
  /\ UNCHANGED <<main, cfg, devVars, charCb, cycle, pkt, buttons, lastMouse,
                 lastPacket, cfgFrom>>

(* Status bit 5: the byte in the output buffer came from the mouse. *)
IsMouseData(b) == b.src = "aux"

(* Mutant: case 1 forgets cycle = 2. *)
NextCycleNoAdvance(c, b) ==
  CASE c = 0 -> IF Bit(b.v, 3) THEN 1 ELSE 0
    [] c = 1 -> 1
    [] c = 2 -> 0


(* mouse_handler's switch on mouse_cycle: byte 0 of a packet must have   *)
(* bit 3 set, bytes 1 and 2 are the movement.                             *)
NextCycle(c, b) ==
  CASE c = 0 -> IF Bit(b.v, 3) THEN 1 ELSE 0
    [] c = 1 -> 2
    [] c = 2 -> 0

(* mouse_handler: leave unless the status says mouse data; read it; keep  *)
(* byte 0 as packet.buttons and the movement bytes; after byte 2          *)
(* mouse_state.buttons takes the low three bits of byte 0.                *)
MouseHandler ==
  /\ Serviced(MouseLine)
  /\ ifl' = FALSE
  /\ IF obf = <<>> \/ ~IsMouseData(obf[1])
       THEN UNCHANGED <<obf, cycle, pkt, buttons, lastMouse, lastPacket>>
       ELSE LET b == obf[1] IN
            /\ obf' = <<>>
            /\ lastMouse' = b
            /\ cycle' = NextCycle(cycle, b)
            /\ pkt' = CASE cycle = 0 -> IF Bit(b.v, 3) THEN << b >> ELSE pkt
                        [] cycle = 1 -> Append(pkt, b)
                        [] cycle = 2 -> <<>>
            /\ buttons' = IF cycle = 2 THEN pkt[1].v % 8 ELSE buttons
            /\ lastPacket' = IF cycle = 2 THEN Append(pkt, b) ELSE lastPacket
  /\ UNCHANGED <<main, cfg, devVars, kst, charCb, lastKbd, typed, cfgFrom>>

Handler == TimerHandler \/ KeyboardHandler \/ MouseHandler

(* kernel_main's loop (main.c:476-506) touches none of this state. *)
Idle == BootDone /\ UNCHANGED vars

(* The boot code runs only while no handler does. *)
HostRuns == handling = NoLine /\ HostStep /\ UNCHANGED handling

Deliver == (DeliverCtl \/ DeliverKbd \/ DeliverAux) /\ UNCHANGED handling

Next ==
  \/ HostRuns
  \/ (\E k \in Keys : PressKey(k) \/ ReleaseKey(k)) /\ UNCHANGED handling
  \/ MousePacket /\ UNCHANGED handling
  \/ Tick /\ UNCHANGED handling
  \/ Deliver
  \/ TakeInterrupt
  \/ Handler
  \/ Idle

Spec == Init /\ [][Next]_vars

(* The CPU keeps running the boot code and any handler it has entered,    *)
(* and the controller keeps moving bytes into an empty output buffer.     *)
(* Users, the mouse and the timer owe nothing.                            *)
Fairness == WF_vars(HostRuns) /\ WF_vars(Handler) /\ WF_vars(Deliver)

LiveSpec == Spec /\ Fairness

(***************************************************************************)
(* Properties.                                                             *)
(***************************************************************************)
TypeOK ==
  /\ PicTypeOK
  /\ ifl \in BOOLEAN
  /\ obf \in Seq(Bytes) /\ Len(obf) <= 1
  /\ {kbdQ, auxQ, ctlQ} \subseteq Seq(Bytes)
  /\ cfg \in 0 .. 255
  /\ kst \in KeyboardStates
  /\ cycle \in 0 .. 2
  /\ pkt \in Seq(Bytes) /\ Len(pkt) <= 2
  /\ buttons \in 0 .. 7
  /\ held \subseteq Keys
  /\ nkeys \in 0 .. MaxKeyEvents /\ npkts \in 0 .. MaxPackets
  /\ {lastKbd, lastMouse} \subseteq Bytes
  /\ cfgFrom \in Srcs
  /\ handling \in {NoLine, TimerLine, KbdLine, MouseLine}

(* keyboard_init and mouse_init take as the configuration byte the        *)
(* controller's answer to command 0x20, never a device byte left in the  *)
(* buffer: disabling both ports and flushing first must shut them out.    *)
ConfigFromController == cfgFrom \in {"ctl", "none"}

(* Every wait loop of keyboard_init and mouse_init gets the byte it waits *)
(* for, however keys, packets and interrupts interleave with it, so the   *)
(* boot reaches its final sti without leaning on a loop's timeout.        *)
BootCompletes == <>BootDone

(* Every packet mouse_handler completes is the three bytes of one packet *)
(* the mouse sent, in order: its cycle stays aligned with the stream.    *)
MousePacketsReal ==
  lastPacket # <<>> =>
    \A i \in 1 .. 3 : /\ lastPacket[i].pkt = lastPacket[1].pkt
                      /\ lastPacket[i].pkt # 0
                      /\ lastPacket[i].pos = i

(* Every character keyboard_handler hands to char_callback is the one     *)
(* printed on the key whose press produced the byte.                      *)
CharsMatchKeys ==
  typed # NoTyped =>
    /\ typed.b.key # NoKey
    /\ typed.b.mk
    /\ typed.c = Layout[typed.b.key]

=============================================================================

-------------------------------- MODULE PIC --------------------------------
(***************************************************************************)
(* The two cascaded 8259A interrupt controllers as the kernel drives them  *)
(* (src/src/impl/drivers/pic/pic.c).  Lines are numbered globally 0..15:   *)
(* 0..7 on the master, 8..15 on the slave, whose output enters master      *)
(* input 2.                                                                *)
(*                                                                         *)
(* State (one set of lines per 8259A register pair):                       *)
(*   imr      the interrupt mask registers (masked lines)                  *)
(*   irr      the interrupt request registers (latched requests)           *)
(*   isr      the in-service registers (acknowledged, not yet EOI'd)      *)
(*   remapped whether pic_init has moved the vector offsets to 32/40      *)
(*                                                                         *)
(* The hardware part (request latching, fully nested priority, the         *)
(* acknowledge cycle, non-specific EOI) follows the 8259A data sheet; the  *)
(* driver part (pic_init, pic_clear_mask, pic_send_eoi) follows pic.c.     *)
(***************************************************************************)
EXTENDS Naturals, FiniteSets, Sequences

CONSTANT BiosImr          \* the mask the firmware leaves before pic_init

VARIABLES imr, irr, isr, remapped

picVars == <<imr, irr, isr, remapped>>

Lines       == 0 .. 15
MasterLines == 0 .. 7
SlaveLines  == 8 .. 15
Cascade     == 2               \* master input wired to the slave

ASSUME BiosImr \subseteq Lines

LowestOf(S) == CHOOSE l \in S : \A m \in S : l <= m

PicTypeOK ==
  /\ imr \subseteq Lines
  /\ irr \subseteq Lines
  /\ isr \subseteq Lines
  /\ remapped \in BOOLEAN

PicInit0 ==
  /\ imr = BiosImr
  /\ irr = {}
  /\ isr = {}
  /\ remapped = FALSE

(***************************************************************************)
(* Hardware: priority resolution in fully nested mode.  A request is       *)
(* passed on when it is unmasked and no line of the same or higher         *)
(* priority (lower number) on the same chip is in service.  The slave's    *)
(* output is the master's request on input 2.                              *)
(***************************************************************************)
SlaveCandidates ==
  { l \in (SlaveLines \cap irr) \ imr : \A j \in isr \cap SlaveLines : l < j }

SlaveInt == SlaveCandidates # {}

MasterCandidates ==
  { l \in MasterLines \ imr :
      /\ IF l = Cascade THEN SlaveInt ELSE l \in irr
      /\ \A j \in isr \cap MasterLines : l < j }

(* The INT output of the master, seen by the CPU. *)
IntPending == MasterCandidates # {}

(* The global line the next acknowledge cycle hands to the CPU. *)
NextLine ==
  LET m == LowestOf(MasterCandidates)
  IN  IF m = Cascade THEN LowestOf(SlaveCandidates) ELSE m

(* The vector the 8259A puts on the bus for a line: the firmware offsets   *)
(* 0x08 / 0x70 until pic_init programs 0x20 / 0x28 (pic.c:23-25).          *)
VectorOf(l) ==
  IF remapped
    THEN IF l < 8 THEN 32 + l ELSE 40 + (l - 8)
    ELSE IF l < 8 THEN 8 + l  ELSE 112 + (l - 8)

(* The master in-service bit that a line occupies. *)
MasterBitOf(l) == IF l < 8 THEN l ELSE Cascade

(* Hardware: a device raises its line; the edge is latched in the IRR. *)
Raise(l) ==
  /\ irr' = irr \cup {l}
  /\ UNCHANGED <<imr, isr, remapped>>

(* Hardware: the INTA cycle for line l moves it from request to service   *)
(* on its chip, and on the master input 2 as well for a slave line.        *)
Acknowledge(l) ==
  /\ isr' = isr \cup {l, MasterBitOf(l)}
  /\ irr' = irr \ {l}
  /\ UNCHANGED <<imr, remapped>>

(***************************************************************************)
(* Driver operations (pic.c).                                              *)
(***************************************************************************)

(* pic_init: ICW1..ICW4 on both chips (offsets 0x20/0x28, cascade on       *)
(* input 2, 8086 mode), then mask 0xF8 / 0xFF: only lines 0, 1 and 2 stay  *)
(* open.  The saved masks read at its start are overwritten, never used.   *)
PicInit ==
  /\ imr' = Lines \ {0, 1, 2}
  /\ remapped' = TRUE
  /\ UNCHANGED <<irr, isr>>

(* pic_clear_mask(irq): read-modify-write of the data port of the chip     *)
(* that owns the line.                                                     *)
ClearMask(l) ==
  /\ imr' = imr \ {l}
  /\ UNCHANGED <<irr, isr, remapped>>

(* A non-specific EOI written to one chip's command port clears that       *)
(* chip's highest-priority in-service bit (none if nothing is in service). *)
EoiChip(chipLines) ==
  /\ isr' = IF isr \cap chipLines = {} THEN isr
            ELSE isr \ {LowestOf(isr \cap chipLines)}
  /\ UNCHANGED <<imr, irr, remapped>>

(* The in-service bit a non-specific EOI to a chip would clear. *)
EoiTarget(chipLines) ==
  IF isr \cap chipLines = {} THEN {} ELSE {LowestOf(isr \cap chipLines)}

=============================================================================

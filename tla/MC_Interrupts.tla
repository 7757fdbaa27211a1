--------------------------- MODULE MC_Interrupts ---------------------------
(* Model-checking instance of Interrupts: the timer, keyboard, RTC and    *)
(* mouse lines, the firmware's usual mask, bounded nesting.                *)
EXTENDS Interrupts

MCDevLines   == {0, 1, 8, 12}
MCBiosImr    == Lines \ {0, 1, 2, 8, 12}
MCNoExc      == {}
MCHaltExc    == {13}          \* general protection: halts
MCNmi        == {2}           \* NMI: logs, pic_send_eoi(0), returns
MCTimerOnly  == {0}
=============================================================================

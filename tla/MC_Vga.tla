------------------------------- MODULE MC_Vga -------------------------------
(* The VGA back buffer of the kernel's build: 64 KiB, the cursor at its   *)
(* start, centre and clamp limits, and window moves to the origin, into   *)
(* the screen and just below the 16-bit wrap.                             *)
EXTENDS Vga

MCPositions == {0, 300, 65530}
MCCursorXs  == {0, 512, 1023}
MCCursorYs  == {0, 384, 767}
=============================================================================

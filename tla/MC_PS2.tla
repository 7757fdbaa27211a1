------------------------------ MODULE MC_PS2 --------------------------------
(* Model-checking instance of PS2: one key (A), small mouse movements,    *)
(* the configuration byte firmware usually leaves (0x45: keyboard IRQ,    *)
(* system flag, translation on; or 0x47 with the mouse IRQ as well).      *)
EXTENDS PS2

MCKeys        == {"A"}
MCSet2Code    == [k \in MCKeys |-> \h1C]
MCSet1Code    == [k \in MCKeys |-> \h1E]
MCLayout      == [k \in MCKeys |-> "a"]
MCNoKeys      == {}
MCMoves       == {\h01}
MCBiosConfigs == {\h45, \h47}
=============================================================================

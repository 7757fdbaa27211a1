------------------------------- MODULE Keymap -------------------------------
(***************************************************************************)
(* The scancode translation of drivers/keyboard/keymap.c: the US QWERTY    *)
(* tables, is_special_key, update_keyboard_state and scancode_to_ascii.    *)
(* They read scan code set 1 bytes: bit 7 marks a release and 0xE0 is the  *)
(* extended prefix.                                                        *)
(*                                                                         *)
(* A character is a one-character string; "" is the table's 0 (no         *)
(* character), "BS", "TAB", "LF" and "GRAVE" stand for \b, \t, \n and   *)
(* the grave accent, and "^" \o l for the control code of letter l        *)
(* (l - 'a' + 1).                                                          *)
(***************************************************************************)
EXTENDS Naturals, Sequences

NoChar == ""

(* ascii_lowercase[0x00 .. 0x39]; the sequence is indexed from 1. *)
AsciiLowercase ==
  << "", "", "1", "2", "3", "4", "5", "6", "7", "8", "9", "0", "-", "=",
     "BS", "TAB", "q", "w", "e", "r", "t", "y", "u", "i", "o", "p", "[", "]",
     "LF", "", "a", "s", "d", "f", "g", "h", "j", "k", "l", ";", "'", "GRAVE",
     "", "\\", "z", "x", "c", "v", "b", "n", "m", ",", ".", "/", "", "*",
     "", " " >>

(* ascii_uppercase[0x00 .. 0x39]. *)
AsciiUppercase ==
  << "", "", "!", "@", "#", "$", "%", "^", "&", "*", "(", ")", "_", "+",
     "BS", "TAB", "Q", "W", "E", "R", "T", "Y", "U", "I", "O", "P", "{", "}",
     "LF", "", "A", "S", "D", "F", "G", "H", "J", "K", "L", ":", "\"", "~",
     "", "|", "Z", "X", "C", "V", "B", "N", "M", "<", ">", "?", "", "*",
     "", " " >>

Letters == {"a", "b", "c", "d", "e", "f", "g", "h", "i", "j", "k", "l", "m",
            "n", "o", "p", "q", "r", "s", "t", "u", "v", "w", "x", "y", "z"}

KEY_RELEASED  == \h80
KEY_EXTENDED  == \hE0

(* scancode & ~KEY_RELEASED, and the release bit. *)
KeyOf(sc)    == sc % 128
Released(sc) == sc >= KEY_RELEASED

(* keyboard_state as update_keyboard_state keeps it (all 0 at start). *)
KeyboardStateInit ==
  [extended |-> FALSE, shift |-> FALSE, ctrl |-> FALSE, alt |-> FALSE,
   caps |-> FALSE, num |-> FALSE, scroll |-> FALSE]

KeyboardStates ==
  [extended : BOOLEAN, shift : BOOLEAN, ctrl : BOOLEAN, alt : BOOLEAN,
   caps : BOOLEAN, num : BOOLEAN, scroll : BOOLEAN]

(* is_special_key: F1..F12 (0x3B..0x58, which takes in NumLock,            *)
(* ScrollLock and the keypad), Home..Delete, Escape.                       *)
IsSpecialKey(sc) ==
  LET key == KeyOf(sc)
  IN  \/ key \in \h3B .. \h58
      \/ key \in \h47 .. \h53
      \/ key = \h01

(* A lock key toggles on its press only. *)
Toggle(b, sc) == IF Released(sc) THEN b ELSE ~b

(* update_keyboard_state: 0xE0 sets extended; after it only the right     *)
(* Ctrl and Alt are looked at, and extended is cleared.  Left and right    *)
(* Shift (and Ctrl, and Alt) write the same flag.                          *)
UpdateKeyboardState(sc, st) ==
  LET key == KeyOf(sc)
      up  == Released(sc)
  IN  CASE sc = KEY_EXTENDED -> [st EXCEPT !.extended = TRUE]
        [] st.extended ->
             [st EXCEPT !.ctrl = IF key = \h1D THEN ~up ELSE @,
                        !.alt  = IF key = \h38 THEN ~up ELSE @,
                        !.extended = FALSE]
        [] key \in {\h2A, \h36} -> [st EXCEPT !.shift  = ~up]
        [] key = \h1D           -> [st EXCEPT !.ctrl   = ~up]
        [] key = \h38           -> [st EXCEPT !.alt    = ~up]
        [] key = \h3A           -> [st EXCEPT !.caps   = Toggle(@, sc)]
        [] key = \h45           -> [st EXCEPT !.num    = Toggle(@, sc)]
        [] key = \h46           -> [st EXCEPT !.scroll = Toggle(@, sc)]
        [] OTHER                -> st

(* scancode_to_ascii: nothing for a release, after 0xE0, or past the      *)
(* table; Ctrl with a letter gives its control code; else the upper table *)
(* when exactly one of Shift and CapsLock is on.                           *)
ScancodeToAscii(sc, st) ==
  LET key   == KeyOf(sc)
      base  == AsciiLowercase[key + 1]
      upper == (st.shift \/ st.caps) /\ ~(st.shift /\ st.caps)
  IN  CASE Released(sc) \/ st.extended              -> NoChar
        [] key >= Len(AsciiLowercase)                -> NoChar
        [] st.ctrl /\ key \in \h1E .. \h39 /\ base \in Letters -> "^" \o base
        [] upper                                     -> AsciiUppercase[key + 1]
        [] OTHER                                     -> base

=============================================================================

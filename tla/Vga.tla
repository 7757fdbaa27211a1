-------------------------------- MODULE Vga --------------------------------
(***************************************************************************)
(* The VGA driver's back buffer (drivers/video/vga.c) and the drawing the  *)
(* kernel does with it: window_init and window_init_gui when the setup     *)
(* wizard completes (main.c keyboard_char), the main loop's clock frame    *)
(* (window_update and the clock text) and its cursor, and the window and   *)
(* terminal calls that change what a frame draws.                          *)
(*                                                                         *)
(* Every drawing call ends in vga_set_pixel, which clips (x, y) to the     *)
(* current mode and writes back_buffer[y * pitch + x].  The buffer's       *)
(* contents are abstracted away: the state keeps the mode and the highest  *)
(* offset any write has reached, computed per call from its clipped        *)
(* footprint.  Coordinates are uint16, so every sum is taken mod 2^16.     *)
(***************************************************************************)
EXTENDS Integers, Sequences, FiniteSets
LOCAL INSTANCE FiniteSetsExt

CONSTANTS
  BufferSize,     \* VGA_MEMORY_SIZE, the size of back_buffer
  Positions,      \* the coordinates window_move is called with
  CursorXs,       \* mouse_state.x_pos values (mouse_handler clamps to 1023)
  CursorYs,       \* mouse_state.y_pos values (clamped to 767)
  MaxTermLen      \* bound on the terminal's text length (the code's is 1022)

VARIABLES
  phase,          \* "boot" until the setup wizard completes, then "gui"
  mode,           \* current_mode: mode number, width, height, pitch
  windows,        \* the windows: kind, x, y, width, height, title length
  termLen,        \* strlen of the terminal buffer's data
  maxOffset       \* the highest back_buffer offset vga_set_pixel has written

vars == <<phase, mode, windows, termLen, maxOffset>>

W16(v) == v % 65536
Abs(v) == IF v < 0 THEN -v ELSE v
(* C's integer division truncates toward zero. *)
CDiv(a, b) == IF a >= 0 THEN a \div b ELSE -((-a) \div b)
Highest(S) == Max(S \cup {-1})

TextMode == 3
Mode13   == 19      \* VGA_MODE_320x200x256
Mode12   == 18      \* VGA_MODE_640x480x16

(* The static current_mode before vga_init: all zero. *)
NoMode == [mode |-> 0, width |-> 0, height |-> 0, pitch |-> 0]
ModeNumbers == {0, TextMode, Mode13, Mode12}

(* vga_set_mode's table; any other mode returns -1 and leaves it as is.  *)
SetMode(cm, md) ==
  CASE md = TextMode -> [mode |-> md, width |-> 80,  height |-> 25,  pitch |-> 160]
    [] md = Mode13   -> [mode |-> md, width |-> 320, height |-> 200, pitch |-> 320]
    [] md = Mode12   -> [mode |-> md, width |-> 640, height |-> 480, pitch |-> 320]
    [] OTHER         -> cm

(* vga_set_pixel: the offset written, or -1 when (x, y) is clipped. *)
PixelOffset(cm, x, y) ==
  IF x >= cm.width \/ y >= cm.height THEN -1 ELSE y * cm.pitch + x

(* The highest of the coordinates a + 0 .. a + n - 1, each mod 2^16, that *)
(* lie below lim: the part before the wrap ends at a + n - 1 or 65535,    *)
(* the part after it at a + n - 1 - 65536.                                *)
SpanMax(a, n, lim) ==
  IF n = 0 THEN -1
  ELSE LET e == a + n - 1
       IN  Highest({IF a < lim THEN Min({e, lim - 1}) ELSE -1,
                    IF e >= 65536 THEN Min({e - 65536, lim - 1}) ELSE -1})

(* vga_draw_rect: set_pixel(x + j, y + i) for i < height, j < width; the  *)
(* offset grows with the row and the column, so the highest of each.      *)
DrawRect(cm, x, y, w, h) ==
  LET cx == SpanMax(x, w, cm.width)
      cy == SpanMax(y, h, cm.height)
  IN  IF cx < 0 \/ cy < 0 THEN -1 ELSE cy * cm.pitch + cx

(* vga_draw_text: a 7x16 rectangle per character at x + i * 8. *)
DrawText(cm, x, y, len) ==
  Highest({DrawRect(cm, W16(x + i * 8), y, 7, 16) : i \in 0 .. len - 1})

(* vga_draw_line's Bresenham loop from (x1, y1): the highest offset it   *)
(* writes from there to (x2, y2).                                        *)
RECURSIVE LineLoop(_, _, _, _, _, _, _, _, _, _)
LineLoop(cm, x1, y1, x2, y2, dx, dy, sx, sy, err) ==
  LET here == PixelOffset(cm, x1, y1)
      rest == IF x1 = x2 /\ y1 = y2 THEN -1
              ELSE LET stepX == err > -dx
                       stepY == err < dy
                   IN  LineLoop(cm, IF stepX THEN W16(x1 + sx) ELSE x1,
                                    IF stepY THEN W16(y1 + sy) ELSE y1, x2, y2, dx, dy, sx, sy,
                                    err - (IF stepX THEN dy ELSE 0) + (IF stepY THEN dx ELSE 0))
  IN  IF here > rest THEN here ELSE rest

LineFrom(cm, x1, y1, x2, y2) ==
  LET dx == Abs(x2 - x1)
      dy == Abs(y2 - y1)
  IN  LineLoop(cm, x1, y1, x2, y2, dx, dy, IF x1 < x2 THEN 1 ELSE -1,
               IF y1 < y2 THEN 1 ELSE -1, CDiv(IF dx > dy THEN dx ELSE -dy, 2))

(* With dy = 0 the loop never steps y (err stays dx / 2 >= 0), with dx = 0 *)
(* it never steps x (err stays -(dy / 2) <= 0): the line is the straight   *)
(* run between its ends, one pixel wide.                                  *)
StraightLine(cm, x1, y1, x2, y2) ==
  DrawRect(cm, Min({x1, x2}), Min({y1, y2}), Abs(x2 - x1) + 1, Abs(y2 - y1) + 1)

(* vga_draw_line: the straight runs in closed form, so that TLC need not   *)
(* recurse once per pixel of the taskbar's borders; the others by the loop. *)
DrawLine(cm, x1, y1, x2, y2) ==
  IF x1 = x2 \/ y1 = y2 THEN StraightLine(cm, x1, y1, x2, y2)
  ELSE LineFrom(cm, x1, y1, x2, y2)

ASSUME \A x1, y1, x2, y2 \in {0, 1, 5, 13} :
         (x1 = x2 \/ y1 = y2) =>
           StraightLine([mode |-> 0, width |-> 8, height |-> 8, pitch |-> 10], x1, y1, x2, y2)
             = LineFrom([mode |-> 0, width |-> 8, height |-> 8, pitch |-> 10], x1, y1, x2, y2)

(* vga_draw_button: background, four border lines, centred text (its     *)
(* one caller passes a text that fits: "Start" in 60 pixels).             *)
DrawButton(cm, x, y, w, h, len) ==
  Highest({DrawRect(cm, x, y, w, h),
           DrawLine(cm, x, y, W16(x + w - 1), y),
           DrawLine(cm, x, y, x, W16(y + h - 1)),
           DrawLine(cm, x, W16(y + h - 1), W16(x + w - 1), W16(y + h - 1)),
           DrawLine(cm, W16(x + w - 1), y, W16(x + w - 1), W16(y + h - 1)),
           DrawText(cm, W16(x + (w - len * 8) \div 2), W16(y + CDiv(h - 16, 2)), len)})

(* vga_draw_taskbar: bar, "Start" button and "12:00" text. *)
DrawTaskbar(cm) ==
  Highest({DrawRect(cm, 0, W16(cm.height - 30), cm.width, 30),
           DrawButton(cm, 5, W16(cm.height - 25), 60, 20, 5),
           DrawText(cm, W16(cm.width - 50), W16(cm.height - 20), 5)})

(* vga_draw_desktop_icons: three 32x32 icons and their labels. *)
DrawDesktopIcons(cm) ==
  Highest({DrawRect(cm, 20, 20, 32, 32), DrawText(cm, 10, 60, 11),
           DrawRect(cm, 20, 100, 32, 32), DrawText(cm, 10, 140, 9),
           DrawRect(cm, 20, 180, 32, 32), DrawText(cm, 10, 220, 8)})

(* vga_draw_window: frame, title bar, title, background, close button.    *)
DrawWindow(cm, wd) ==
  LET x == wd.x  y == wd.y  w == wd.width  h == wd.height
  IN  Highest({DrawRect(cm, x, y, w, h),
               DrawRect(cm, W16(x + 1), W16(y + 1), W16(w - 2), 20),
               DrawText(cm, W16(x + 5), W16(y + 5), wd.title),
               DrawRect(cm, W16(x + 1), W16(y + 21), W16(w - 2), W16(h - 22)),
               DrawRect(cm, W16(x + w - 18), W16(y + 4), 14, 14),
               DrawText(cm, W16(x + w - 16), W16(y + 6), 1)})

(* on_paint: window_clear, then window_draw_text(window, 2, 2, text) of  *)
(* the terminal's data or the file browser's 27-character notice.        *)
Paint(cm, wd, tl) ==
  Max({DrawRect(cm, W16(wd.x + 1), W16(wd.y + 21), W16(wd.width - 2), W16(wd.height - 22)),
       DrawText(cm, W16(wd.x + 2), W16(wd.y + 22),
                IF wd.kind = "terminal" THEN tl ELSE 27)})

(* vga_update_cursor: three lines of the arrow at (x, y). *)
UpdateCursor(cm, x, y) ==
  Max({DrawLine(cm, x, y, W16(x + 8), W16(y + 8)),
       DrawLine(cm, x, y, W16(x + 2), W16(y + 8)),
       DrawLine(cm, W16(x + 2), W16(y + 8), W16(x + 8), W16(y + 8))})

(* window_update: clear, taskbar, every visible window and its paint.    *)
WindowUpdate(cm, ws, tl) ==
  Highest({DrawTaskbar(cm)} \cup {Max({DrawWindow(cm, wd), Paint(cm, wd, tl)}) : wd \in ws})

(* window_create_terminal and window_create_file_browser, each moved by   *)
(* window_init_gui.                                                       *)
InitialWindows ==
  {[kind |-> "terminal", x |-> 50,  y |-> 50,  width |-> 400, height |-> 300, title |-> 8],
   [kind |-> "browser",  x |-> 200, y |-> 100, width |-> 500, height |-> 400, title |-> 12]}

Reach(off) == maxOffset' = Max({maxOffset, off})

-----------------------------------------------------------------------------
(* keyboard_char on the key that completes the wizard: window_init (and   *)
(* its vga_init, text mode), then window_init_gui: vga_set_mode(0x12),    *)
(* vga_init_desktop (mode 0x12 again, clear, taskbar, icons, swap), the   *)
(* two windows, swap.                                                     *)
WindowInitGui ==
  /\ phase = "boot"
  /\ LET cm == SetMode(SetMode(SetMode(mode, TextMode), Mode12), Mode12)
     IN  /\ mode' = cm
         /\ Reach(Max({DrawTaskbar(cm), DrawDesktopIcons(cm)}))
  /\ phase' = "gui"
  /\ windows' = InitialWindows
  /\ UNCHANGED termLen

(* The main loop once a second: window_update, then the clock text at     *)
(* (width - 70, height - 20) when not in text mode, and a swap.           *)
ClockFrame ==
  /\ phase = "gui"
  /\ Reach(Max({WindowUpdate(mode, windows, termLen),
                IF mode.mode # TextMode THEN DrawText(mode, W16(mode.width - 70), W16(mode.height - 20), 8)
                ELSE -1}))
  /\ UNCHANGED <<phase, mode, windows, termLen>>

(* Every pass of the main loop: vga_update_cursor at the mouse position. *)
CursorFrame(x, y) ==
  /\ phase = "gui"
  /\ Reach(UpdateCursor(mode, x, y))
  /\ UNCHANGED <<phase, mode, windows, termLen>>

(* window_move(window, x, y). *)
WindowMove(wd, x, y) ==
  /\ phase = "gui"
  /\ windows' = (windows \ {wd}) \cup {[wd EXCEPT !.x = x, !.y = y]}
  /\ UNCHANGED <<phase, mode, termLen, maxOffset>>

(* terminal_key: one more character while cursor < TERMINAL_BUFFER_SIZE - 1. *)
TerminalKey ==
  /\ phase = "gui"
  /\ termLen < MaxTermLen
  /\ termLen' = termLen + 1
  /\ UNCHANGED <<phase, mode, windows, maxOffset>>

Init ==
  /\ phase = "boot" /\ mode = NoMode /\ windows = {} /\ termLen = 0 /\ maxOffset = -1

Next ==
  \/ WindowInitGui
  \/ ClockFrame
  \/ \E x \in CursorXs, y \in CursorYs : CursorFrame(x, y)
  \/ \E wd \in windows, x, y \in Positions : WindowMove(wd, x, y)
  \/ TerminalKey

Spec == Init /\ [][Next]_vars

-----------------------------------------------------------------------------
TypeOK ==
  /\ phase \in {"boot", "gui"}
  /\ mode \in [mode : ModeNumbers, width : Nat, height : Nat, pitch : Nat]
  /\ termLen \in 0 .. MaxTermLen
  /\ maxOffset \in Int

(* Every pixel vga_set_pixel writes, for the desktop, the windows, the    *)
(* clock and the cursor, lands inside the VGA_MEMORY_SIZE bytes of the    *)
(* static back_buffer.                                                    *)
InBackBuffer == maxOffset < BufferSize
=============================================================================

------------------------------- MODULE Desktop -------------------------------
(***************************************************************************)
(* The window manager of drivers/video/window.c on top of the kernel heap *)
(* (Heap), driven by the setup wizard of kernel/main.c: keyboard_char,    *)
(* called from keyboard_handler, feeds handle_setup_input until the       *)
(* wizard completes and then runs window_init and window_init_gui.        *)
(*                                                                         *)
(* A window is named by the pointer malloc returned for its struct        *)
(* Window, so the window list, the active and the dragged window and the  *)
(* heap's blocks all speak of the same addresses.                         *)
(*                                                                         *)
(*   list      windows[0 .. num_windows-1]                                 *)
(*   win       pointer -> [flags, content, cursor] of every struct Window *)
(*             created; cursor is the cursor of its TerminalBuffer        *)
(*   active    active_window (0 is NULL)                                   *)
(*   dragging  dragging_window (0 is NULL)                                 *)
(*   setup     current_setup_state, 0 = SETUP_WELCOME .. 7 = SETUP_COMPLETE *)
(*   complete  setup_complete                                              *)
(*                                                                         *)
(* Coordinates, titles and drawing are left out: window_move,             *)
(* window_resize (RESIZABLE is never set), window_update and the paint    *)
(* callbacks change no state the model keeps; of a keystroke only the     *)
(* cursor it advances is kept.  A mouse event is   *)
(* abstracted to the visible window it lands on and the part it hits      *)
(* (title bar, close button), or to no window.                            *)
(***************************************************************************)
EXTENDS Heap, FiniteSets
LOCAL INSTANCE SequencesExt

CONSTANTS
  MaxWindows,   \* MAX_WINDOWS
  WindowSize,   \* sizeof(struct Window)
  TermBufSize,  \* sizeof(struct TerminalBuffer)
  TermCap       \* TERMINAL_BUFFER_SIZE, the length of its data[]

VARIABLES list, win, active, dragging, setup, complete

winVars == <<list, win, active, dragging>>
vars    == <<blocks, brk, list, win, active, dragging, setup, complete>>

NULL == 0
Welcome == 0        \* SETUP_WELCOME
Language == 1       \* SETUP_LANGUAGE
Confirm == 6        \* SETUP_CONFIRM
Complete == 7       \* SETUP_COMPLETE

(* The composed state as a record, so that one handler can chain calls.  *)
Now == [h |-> HeapNow, list |-> list, win |-> win, active |-> active,
        dragging |-> dragging, ret |-> NULL]

Listed(s, p) == \E i \in DOMAIN s.list : s.list[i] = p
IndexIn(s, p) == SelectInSeq(s.list, LAMBDA q : q = p)
Top(l) == IF l = <<>> THEN NULL ELSE l[Len(l)]

(* A freed struct Window is forgotten: nothing the model keeps reads it.  *)
Forget(w, p) == [q \in DOMAIN w \ {p} |-> w[q]]

(* Mutant: the window is written over the last slot without the shift. *)
BringToFrontNoShift(s, p) ==
  IF ~Listed(s, p) THEN s
  ELSE [s EXCEPT !.list = [@ EXCEPT ![Len(@)] = p], !.active = p]

(* window_bring_to_front: move the first occurrence to the end, activate. *)
BringToFront(s, p) ==
  IF p = NULL \/ ~Listed(s, p) THEN s
  ELSE [s EXCEPT !.list = Append(RemoveAt(@, IndexIn(s, p)), p), !.active = p]

(* Mutant: the MAX_WINDOWS check is off by one. *)
CreatePastLimit(s) ==
  IF Len(s.list) > MaxWindows THEN [s EXCEPT !.ret = NULL]
  ELSE LET m == MallocIn(s.h, WindowSize)
           t == [s EXCEPT !.h = [blocks |-> m.blocks, brk |-> m.brk],
                          !.win = (m.ptr :> [flags |-> {"visible", "movable"},
                                             content |-> NULL, cursor |-> 0]) @@ @,
                          !.list = Append(@, m.ptr), !.ret = m.ptr]
       IN  [BringToFront(t, m.ptr) EXCEPT !.ret = m.ptr]

(* window_create: refuse at MAX_WINDOWS, malloc the struct, visible and   *)
(* movable, no content, append, bring to front; ret is the window.        *)
Create(s) ==
  IF Len(s.list) >= MaxWindows THEN [s EXCEPT !.ret = NULL]
  ELSE LET m == MallocIn(s.h, WindowSize)
           t == [s EXCEPT !.h = [blocks |-> m.blocks, brk |-> m.brk],
                          !.win = (m.ptr :> [flags |-> {"visible", "movable"},
                                             content |-> NULL, cursor |-> 0]) @@ @,
                          !.list = Append(@, m.ptr), !.ret = m.ptr]
       IN  [BringToFront(t, m.ptr) EXCEPT !.ret = m.ptr]

(* Mutant: window_destroy leaves active_window pointing at the window. *)
DestroyKeepActive(s, p) ==
  IF p = NULL \/ ~Listed(s, p) THEN s
  ELSE LET c  == s.win[p].content
           h1 == IF c # NULL THEN FreeIn(s.h, c) ELSE s.h
       IN  [s EXCEPT !.list = RemoveAt(@, IndexIn(s, p)), !.h = FreeIn(h1, p),
                     !.win = Forget(@, p)]

(* Mutant: window_destroy frees the window but not its content. *)
DestroyKeepContent(s, p) ==
  IF p = NULL \/ ~Listed(s, p) THEN s
  ELSE LET l == RemoveAt(s.list, IndexIn(s, p))
       IN  [s EXCEPT !.list = l, !.active = IF @ = p THEN Top(l) ELSE @,
                     !.h = FreeIn(@, p), !.win = Forget(@, p)]

(* window_destroy: unlink the first occurrence, move active_window to the *)
(* new top if it was this one, free the content, free the window.         *)
Destroy(s, p) ==
  IF p = NULL \/ ~Listed(s, p) THEN s
  ELSE LET l  == RemoveAt(s.list, IndexIn(s, p))
           c  == s.win[p].content
           h1 == IF c # NULL THEN FreeIn(s.h, c) ELSE s.h
       IN  [s EXCEPT !.list = l, !.active = IF @ = p THEN Top(l) ELSE @,
                     !.h = FreeIn(h1, p), !.win = Forget(@, p)]

(* window_show: set VISIBLE and bring to front. *)
Show(s, p) ==
  IF p = NULL THEN s
  ELSE BringToFront([s EXCEPT !.win[p].flags = @ \cup {"visible"}], p)

(* window_create_terminal: create, malloc the terminal buffer, attach it *)
(* (memset: cursor 0).                                                    *)
CreateTerminal(s) ==
  LET t == Create(s) IN
  IF t.ret = NULL THEN t
  ELSE LET m == MallocIn(t.h, TermBufSize)
       IN  [t EXCEPT !.h = [blocks |-> m.blocks, brk |-> m.brk],
                     !.win[t.ret].content = m.ptr]

(* window_init: an empty list, no active and no dragged window. *)
WindowInit(s) == [s EXCEPT !.list = <<>>, !.active = NULL, !.dragging = NULL]

(* window_init_gui shows (and moves) each window it managed to create. *)
ShowCreated(s) == IF s.ret # NULL THEN Show(s, s.ret) ELSE s

(* Each intermediate state of a handler is bound once, as a value. *)
SetState(s) ==
  \E t \in {s} :
    /\ SetHeap(t.h)
    /\ list' = t.list /\ win' = t.win /\ active' = t.active /\ dragging' = t.dragging

(* handle_setup_input: Enter moves on from the welcome and the confirm    *)
(* screens, a digit 1-4 from each of the five selection screens.          *)
SetupNext(st, key) ==
  CASE key = "enter" /\ st = Welcome -> Language
    [] key = "enter" /\ st = Confirm -> Complete
    [] key = "digit" /\ st \in Language .. Confirm - 1 -> st + 1
    [] OTHER -> st

(* run_setup_wizard, called after every accepted key, sets setup_complete *)
(* on the SETUP_COMPLETE screen; the other screens only print.            *)
WizardDone(st) == st = Complete

(* terminal_key: store the key and a terminator after it while the       *)
(* cursor is below TERMINAL_BUFFER_SIZE - 1; otherwise nothing changes.   *)
TerminalKey(p) ==
  /\ win[p].cursor < TermCap - 1
  /\ win' = [win EXCEPT ![p].cursor = @ + 1]

(* window_handle_key: the active window's on_key, which only a terminal   *)
(* (a window with a buffer) has.                                          *)
WindowHandleKey ==
  /\ active # NULL /\ win[active].content # NULL
  /\ TerminalKey(active)
  /\ UNCHANGED <<blocks, brk, list, active, dragging>>

(* keyboard_char before the wizard completes: handle_setup_input, and on  *)
(* completion (run_setup_wizard set setup_complete) window_init and       *)
(* window_init_gui (a terminal and a file browser, each created and       *)
(* shown), all inside the keyboard interrupt; afterwards every character  *)
(* goes to window_handle_key.                                             *)
KeyboardChar(key) ==
  \/ /\ ~complete
     /\ setup' = SetupNext(setup, key)
     /\ complete' = WizardDone(setup')
     /\ IF complete' THEN /\ CanMalloc(HeapNow, WindowSize + TermBufSize + WindowSize)
                          /\ \E s1 \in {CreateTerminal(WindowInit(Now))} :
                             \E s2 \in {Create(ShowCreated(s1))} :
                               SetState(ShowCreated(s2))
                     ELSE UNCHANGED <<blocks, brk, list, win, active, dragging>>
  \/ /\ complete
     /\ WindowHandleKey
     /\ UNCHANGED <<setup, complete>>

(* Calls of the window API once the desktop exists. *)
GuiCall(s) == /\ complete /\ SetState(s) /\ UNCHANGED <<setup, complete>>

CreateWindow   == CanMalloc(HeapNow, WindowSize) /\ GuiCall(Create(Now))
CreateTerminalWindow ==
  CanMalloc(HeapNow, WindowSize + TermBufSize) /\ GuiCall(CreateTerminal(Now))
DestroyWindow(p) == GuiCall(Destroy(Now, p))
ShowWindow(p)  == GuiCall(Show(Now, p))
BringWindowToFront(p) == GuiCall(BringToFront(Now, p))

(* window_hide: clear VISIBLE; if it was active, the top window becomes   *)
(* active (which may be this very window).                                *)
HideWindow(p) ==
  GuiCall([Now EXCEPT !.win[p].flags = @ \ {"visible"},
                      !.active = IF @ = p THEN Top(list) ELSE @])

(* window_minimize / window_maximize / window_restore. *)
MinimizeWindow(p) ==
  GuiCall([Now EXCEPT !.win[p].flags = (@ \cup {"minimized"}) \ {"maximized"}])
MaximizeWindow(p) ==
  GuiCall([Now EXCEPT !.win[p].flags = (@ \cup {"maximized"}) \ {"minimized"}])
RestoreWindow(p) ==
  GuiCall([Now EXCEPT !.win[p].flags = @ \ {"minimized", "maximized"}])

(* window_handle_mouse with no drag in progress, left button down on the  *)
(* title bar of visible window p: start dragging it, bring it to front.   *)
MouseTitle(p) ==
  /\ dragging = NULL
  /\ "visible" \in win[p].flags
  /\ GuiCall(BringToFront([Now EXCEPT !.dragging = p], p))

(* The same on the close button, inside the title bar: the drag starts   *)
(* when the left button is down, and the window is destroyed either way.  *)
MouseClose(p, left) ==
  /\ dragging = NULL
  /\ "visible" \in win[p].flags
  /\ GuiCall(Destroy(IF left THEN BringToFront([Now EXCEPT !.dragging = p], p)
                     ELSE Now, p))

(* A drag in progress ends when an event arrives without the left button. *)
MouseRelease ==
  /\ dragging # NULL
  /\ GuiCall([Now EXCEPT !.dragging = NULL])

Init ==
  /\ HeapInit
  /\ list = <<>> /\ win = <<>> /\ active = NULL /\ dragging = NULL
  /\ setup = Welcome /\ complete = FALSE

Next ==
  \/ \E key \in {"enter", "digit", "other"} : KeyboardChar(key)
  \/ CreateWindow
  \/ CreateTerminalWindow
  \/ \E i \in DOMAIN list :
       \/ DestroyWindow(list[i]) \/ ShowWindow(list[i]) \/ HideWindow(list[i])
       \/ BringWindowToFront(list[i])
       \/ MinimizeWindow(list[i]) \/ MaximizeWindow(list[i]) \/ RestoreWindow(list[i])
       \/ MouseTitle(list[i])
       \/ \E left \in BOOLEAN : MouseClose(list[i], left)
  \/ MouseRelease

Spec == Init /\ [][Next]_vars

-----------------------------------------------------------------------------
TypeOK ==
  /\ HeapTypeOK
  /\ list \in Seq(DOMAIN win) /\ Len(list) <= MaxWindows   \* windows[MAX_WINDOWS]
  /\ \A p \in DOMAIN win : win[p].flags \subseteq
        {"visible", "movable", "minimized", "maximized"}
     /\ win[p].content \in Nat /\ win[p].cursor \in Nat
  /\ active \in Nat /\ dragging \in Nat
  /\ setup \in Welcome .. Complete /\ complete \in BOOLEAN

(* The objects the window manager holds (the listed windows and their    *)
(* terminal buffers) are pairwise distinct blocks the heap has in use:    *)
(* window_destroy, bring_to_front and the heap's split and merge never    *)
(* leave a window listed twice or a listed object in free memory.         *)
HeldObjects ==
  LET contents == {win[p].content : p \in {list[i] : i \in DOMAIN list}} \ {NULL}
  IN  /\ Len(list) = Cardinality({list[i] : i \in DOMAIN list})
      /\ {list[i] : i \in DOMAIN list} \cap contents = {}
      /\ ({list[i] : i \in DOMAIN list} \cup contents) \subseteq UsedPtrs(HeapNow)

(* Every block in use is a listed window or a listed window's buffer:     *)
(* window_destroy frees all it owns.                                      *)
NoLeak ==
  UsedPtrs(HeapNow) \subseteq
    {list[i] : i \in DOMAIN list} \cup {win[list[i]].content : i \in DOMAIN list}

(* active_window is NULL or a listed window: keystrokes are never passed  *)
(* to a destroyed window (window_handle_key dereferences it).             *)
ActiveListed == active = NULL \/ Listed(Now, active)

(* dragging_window is NULL or a listed window: the next mouse event never *)
(* moves a destroyed window (window_move writes into its struct).         *)
DraggingListed == dragging = NULL \/ Listed(Now, dragging)

=============================================================================

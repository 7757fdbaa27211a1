----------------------------- MODULE MC_Desktop -----------------------------
(* Model-checking instance of Desktop: the heap starts at 0x400000, the   *)
(* window and terminal-buffer sizes are those of the x86_64 build, and    *)
(* MAX_WINDOWS is lowered from 16 to 2 so that the full list is reached,  *)
(* TERMINAL_BUFFER_SIZE from 1024 to 3 so that a terminal fills up.      *)
EXTENDS Desktop

MCHeapBase    == 4194304      \* 0x400000
MCWindowSize  == 80           \* sizeof(struct Window)
MCTermBufSize == 1028         \* sizeof(struct TerminalBuffer)
=============================================================================

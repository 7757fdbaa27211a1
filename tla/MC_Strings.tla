----------------------------- MODULE MC_Strings -----------------------------
(* Model-checking instance of Strings.  Paths are all strings of '/',    *)
(* '.' and one name character up to 6 long (7 for NormalizeResolves,     *)
(* whose counterexample needs a name, a "." and a ".." in one path).      *)
(* The formats are format strings the kernel passes, written out         *)
(* character by character, the text around the conversions shortened.    *)
EXTENDS Strings

MCPathChars == {"/", ".", "a"}

\* "%dx%d" (main.c, the screen resolution)
FmtResolution == <<"%", "d", "x", "%", "d">>
\* "Pass Rate: %d%%" (tests/test_main.c)
FmtPassRate   == <<"%", "d", "%", "%">>
\* "Version: %s (%s)" (sysinfo.c)
FmtVersion    == <<"%", "s", " ", "(", "%", "s", ")">>
\* "%02d:%02d:%02d" (main.c, the taskbar clock)
FmtClock      == <<"%", "0", "2", "d", ":", "%", "0", "2", "d", ":", "%", "0", "2", "d">>
\* "Hex: 0x%x" (tests/test_stdio.c)
FmtHex        == <<"0", "x", "%", "x">>
\* "Page Fault at address 0x%llx" (isr.c)
FmtFault      == <<"0", "x", "%", "l", "l", "x">>

MCFormats     == {FmtResolution, FmtPassRate, FmtVersion}
MCBadFormats  == {FmtClock, FmtHex, FmtFault}
MCValues      == {0, 7, 42, 1024}
MCStrs        == {<<"a">>, <<"b", "c">>}
MCSizes       == {0, 1, 3, 8}
=============================================================================

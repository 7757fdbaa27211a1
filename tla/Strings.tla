------------------------------- MODULE Strings -------------------------------
(***************************************************************************)
(* Two string conversions of the kernel, each checked against a reference *)
(* definition over all inputs up to a bound:                              *)
(*                                                                         *)
(*   vfs_normalize_path (kernel/fs.c), which writes its result into the   *)
(*   static buffer normalized[MAX_PATH_LEN];                              *)
(*   sprintf / vsprintf / print_num (kernel/string.c), the formatter      *)
(*   behind every message the kernel prints and the taskbar clock, and    *)
(*   vsnprintf, its bounded counterpart.                                  *)
(*                                                                         *)
(* A string is a sequence of one-character strings, without its NUL.     *)
(* The state is the last call made and what it wrote:                     *)
(*                                                                         *)
(*   fn      "none", "vfs_normalize_path", "sprintf" or "vsnprintf"       *)
(*   input   the path, or the format                                      *)
(*   args    the formatter's arguments                                    *)
(*   size    vsnprintf's size                                             *)
(*   output  the static buffer normalized[], or the formatter's buffer    *)
(*                                                                         *)
(* Numeric arguments are natural numbers (the kernel passes counters,    *)
(* sizes and bytes); a %d of a negative int is not modelled.  A NULL      *)
(* path is not modelled (no caller passes one).                           *)
(***************************************************************************)
EXTENDS Integers, Sequences
LOCAL INSTANCE SequencesExt

CONSTANTS
  PathChars,    \* the characters paths are made of
  MaxPathLen,   \* bound on the length of the paths tried
  Formats,      \* the format strings tried
  Values,       \* the numbers passed for numeric conversions
  Strs,         \* the strings passed for %s
  Sizes,        \* the buffer sizes passed to vsnprintf
  MemLen,       \* bytes of memory the primitives work on
  Bytes         \* the byte values stored in it

VARIABLES fn, input, args, size, output

vars == <<fn, input, args, size, output>>

-----------------------------------------------------------------------------
(* vfs_normalize_path *)

RECURSIVE SkipSlashes(_)
SkipSlashes(p) == IF p # <<>> /\ Head(p) = "/" THEN SkipSlashes(Tail(p)) ELSE p

(* The characters up to the next '/' (a path component), and what follows. *)
SlashAt(p)   == SelectInSeq(p, LAMBDA c : c = "/")
Component(p) == IF SlashAt(p) = 0 THEN p ELSE SubSeq(p, 1, SlashAt(p) - 1)
AfterComponent(p) == IF SlashAt(p) = 0 THEN <<>> ELSE SubSeq(p, SlashAt(p), Len(p))

(* Mutant: "." is recognised only before a '/', not at the end. *)
IsDotNoEnd(p) == Head(p) = "." /\ Len(p) >= 2 /\ p[2] = "/"

(* A "." component at pp: '.' followed by '/' or the end. *)
IsDot(p) == Head(p) = "." /\ (Len(p) = 1 \/ p[2] = "/")

(* A ".." component at pp. *)
IsDotDot(p) == Head(p) = "." /\ Len(p) >= 2 /\ p[2] = "." /\ (Len(p) = 2 \/ p[3] = "/")

RECURSIVE DropToSlash(_)
DropToSlash(o) == IF o # <<>> /\ Last(o) # "/" THEN DropToSlash(Front(o)) ELSE o

(* "..": if np > normalized + 1, step np back once and then back to just  *)
(* after the previous '/' (or to the start of the buffer).                *)
PopComponent(o) == IF Len(o) > 1 THEN DropToSlash(Front(o)) ELSE o

(* The main loop: p is what pp points at, o the buffer up to np.        *)
RECURSIVE NormalizeLoop(_, _)
NormalizeLoop(p, o) ==
  CASE p = <<>>      -> o
    [] Head(p) = "/" -> LET q == SkipSlashes(p)
                        IN  NormalizeLoop(q, IF q # <<>> THEN Append(o, "/") ELSE o)
    [] IsDot(p)      -> NormalizeLoop(Tail(p), o)
    [] IsDotDot(p)   -> NormalizeLoop(SubSeq(p, 3, Len(p)), PopComponent(o))
    [] OTHER         -> NormalizeLoop(AfterComponent(p), o \o Component(p))

(* Mutant: the leading '/' is copied but pp is not advanced past it. *)
VfsNormalizePathNoAdvance(p) ==
  LET o == IF p # <<>> /\ Head(p) = "/" THEN NormalizeLoop(p, <<"/">>)
                                        ELSE NormalizeLoop(p, <<>>)
  IN  IF o = <<>> THEN <<"/">> ELSE o

(* Mutant: nothing is written when the loop leaves the buffer empty. *)
VfsNormalizePathNoRoot(p) ==
  IF p # <<>> /\ Head(p) = "/" THEN NormalizeLoop(Tail(p), <<"/">>)
                                ELSE NormalizeLoop(p, <<>>)

(* vfs_normalize_path: copy a leading '/', run the loop, and write "/" if *)
(* nothing was written.                                                   *)
VfsNormalizePath(p) ==
  LET o == IF p # <<>> /\ Head(p) = "/" THEN NormalizeLoop(Tail(p), <<"/">>)
                                        ELSE NormalizeLoop(p, <<>>)
  IN  IF o = <<>> THEN <<"/">> ELSE o

-----------------------------------------------------------------------------
(* print_num, vsprintf, sprintf *)

DigitChars == <<"0", "1", "2", "3", "4", "5", "6", "7",
                "8", "9", "A", "B", "C", "D", "E", "F">>   \* digits[] of print_num
LowerHex   == <<"0", "1", "2", "3", "4", "5", "6", "7",
                "8", "9", "a", "b", "c", "d", "e", "f">>   \* '0' + d, 'a' + (d - 10)
DecDigits  == {DigitChars[i] : i \in 1 .. 10}
DigitVal(c) == CHOOSE i \in 0 .. 9 : DigitChars[i + 1] = c

(* The digits of n in base b from the table ds, most significant first;  *)
(* 0 has one digit.                                                       *)
RECURSIVE DigitsIn(_, _, _)
DigitsIn(n, b, ds) ==
  IF n < b THEN <<ds[n + 1]>> ELSE DigitsIn(n \div b, b, ds) \o <<ds[(n % b) + 1]>>

Padded(ds, w, pad) == [i \in 1 .. w - Len(ds) |-> pad] \o ds

(* Mutant: the conversion loop is a while, not a do-while: 0 has no digit. *)
PrintNumNoZero(num, base, width, pad) ==
  IF num = 0 THEN Padded(<<>>, width, pad)
  ELSE Padded(DigitsIn(num, base, DigitChars), width, pad)

(* print_num: the digits of num, padded on the left to width with pad. *)
PrintNum(num, base, width, pad) == Padded(DigitsIn(num, base, DigitChars), width, pad)

(* A va_list slot: read as an int it is n, read as a char* it is s (for  *)
(* %c, s is the one character the int encodes).                           *)
NoArg == [n |-> 0, s |-> <<>>]

(* What one conversion character emits for argument v. *)
Conversion(c, w, v) ==
  CASE c \in {"d", "i", "u"} -> PrintNum(v.n, 10, w, " ")
    [] c \in {"x", "X"}      -> PrintNum(v.n, 16, w, "0")
    [] c \in {"s", "c"}      -> v.s
    [] c = "%"               -> <<"%">>
    [] OTHER                 -> <<"?">>

(* The conversions that take a va_arg. *)
TakesArg(c) == c \in {"d", "i", "u", "x", "X", "s", "c"}

(* The loop of vsprintf: f is what format points at, a the va_list.  A    *)
(* '%' is followed by at most one digit, the width, and then the          *)
(* conversion character.                                                  *)
RECURSIVE Format(_, _)
Format(f, a) ==
  IF f = <<>> THEN <<>>
  ELSE IF Head(f) # "%" THEN <<Head(f)>> \o Format(Tail(f), a)
  ELSE LET g  == Tail(f)
           hw == Head(g) \in DecDigits
           w  == IF hw THEN DigitVal(Head(g)) ELSE 0
           h  == IF hw THEN Tail(g) ELSE g
           c  == Head(h)
       IN  IF TakesArg(c) THEN Conversion(c, w, Head(a)) \o Format(Tail(h), Tail(a))
                          ELSE Conversion(c, w, NoArg) \o Format(Tail(h), a)

Vsprintf(f, a) == Format(f, a)

(* Mutant: the %s copy loop of vsnprintf does not test str < end. *)
TakeNoBound(s, k) == s

(* At most k characters of s: the copy loops of vsnprintf stop at end. *)
Take(s, k) == IF Len(s) <= k THEN s ELSE SubSeq(s, 1, k)

(* The loop of vsnprintf: o is what has been written, room is end - str. *)
(* Only s, d and x take an argument; any other character after '%' is   *)
(* written as it is.                                                      *)
RECURSIVE VsnLoop(_, _, _, _)
VsnLoop(f, a, o, room) ==
  IF f = <<>> \/ room = 0 THEN o
  ELSE IF Head(f) # "%" THEN VsnLoop(Tail(f), a, Append(o, Head(f)), room - 1)
  ELSE LET c   == Head(Tail(f))
           out == CASE c = "s" -> Take(Head(a).s, room)
                    [] c = "d" -> Take(DigitsIn(Head(a).n, 10, DigitChars), room)
                    [] c = "x" -> Take(DigitsIn(Head(a).n, 16, LowerHex), room)
                    [] OTHER   -> <<c>>
           rest == Tail(Tail(f))
       IN  VsnLoop(rest, IF c \in {"s", "d", "x"} THEN Tail(a) ELSE a,
                   o \o out, room - Len(out))

(* vsnprintf: nothing for size 0, else at most size - 1 characters and   *)
(* the NUL.                                                               *)
Vsnprintf(f, a, n) == IF n = 0 THEN <<>> ELSE VsnLoop(f, a, <<>>, n - 1)

(* Every '%' of a format is followed by a conversion character, after    *)
(* at most one digit (the kernel's formats all are: a '%' at the end      *)
(* makes vsprintf read past the NUL).                                     *)
RECURSIVE WellTerminated(_)
WellTerminated(f) ==
  \/ f = <<>>
  \/ Head(f) # "%" /\ WellTerminated(Tail(f))
  \/ /\ Head(f) = "%" /\ Len(f) >= 2
     /\ IF f[2] \in DecDigits THEN Len(f) >= 3 /\ WellTerminated(SubSeq(f, 4, Len(f)))
                              ELSE WellTerminated(SubSeq(f, 3, Len(f)))

ASSUME \A f \in Formats : WellTerminated(f)

-----------------------------------------------------------------------------
(* The mem* and str* primitives on one memory: a function from offsets   *)
(* 0 .. MemLen - 1 to bytes, 0 being NUL.  A pointer is an offset and     *)
(* NULL is -1.  Each loop of the C is one recursion, one byte per step,   *)
(* so an overlap of source and destination acts as it does in the code.  *)

Mem     == [0 .. MemLen - 1 -> Bytes]
Offsets == 0 .. MemLen - 1

(* for (i = 0; i < n; i++) d[i] = s[i]; *)
RECURSIVE CopyUp(_, _, _, _, _)
CopyUp(m, d, s, i, n) ==
  IF i >= n THEN m ELSE CopyUp([m EXCEPT ![d + i] = m[s + i]], d, s, i + 1, n)

(* for (i = n; i > 0; i--) d[i-1] = s[i-1]; *)
RECURSIVE CopyDown(_, _, _, _)
CopyDown(m, d, s, i) ==
  IF i = 0 THEN m ELSE CopyDown([m EXCEPT ![d + i - 1] = m[s + i - 1]], d, s, i - 1)

Memcpy(m, d, s, n) == CopyUp(m, d, s, 0, n)

Memset(m, p, c, n) == [i \in DOMAIN m |-> IF p <= i /\ i < p + n THEN c % 256 ELSE m[i]]

(* Mutant: memmove copies forwards whichever way the regions overlap. *)
MemmoveNoDirection(m, d, s, n) == CopyUp(m, d, s, 0, n)

(* memmove: forwards when dest lies below src, else backwards. *)
Memmove(m, d, s, n) == IF d < s THEN CopyUp(m, d, s, 0, n) ELSE CopyDown(m, d, s, n)

(* memcmp: the difference of the first pair of bytes that differ. *)
RECURSIVE Memcmp(_, _, _, _)
Memcmp(m, p1, p2, n) ==
  CASE n = 0         -> 0
    [] m[p1] # m[p2] -> m[p1] - m[p2]
    [] OTHER         -> Memcmp(m, p1 + 1, p2 + 1, n - 1)

RECURSIVE Strlen(_, _)
Strlen(m, p) == IF m[p] = 0 THEN 0 ELSE 1 + Strlen(m, p + 1)

(* while ((dest[i] = src[i]) != '\0') i++; *)
RECURSIVE Strcpy(_, _, _)
Strcpy(m, d, s) ==
  LET m1 == [m EXCEPT ![d] = m[s]] IN IF m[s] = 0 THEN m1 ELSE Strcpy(m1, d + 1, s + 1)

(* for (i = 0; i < n && src[i] != '\0'; i++) dest[i] = src[i]; the       *)
(* memory and the i it stops at.                                          *)
RECURSIVE CopyAtMost(_, _, _, _, _)
CopyAtMost(m, d, s, i, n) ==
  IF i < n /\ m[s + i] # 0 THEN CopyAtMost([m EXCEPT ![d + i] = m[s + i]], d, s, i + 1, n)
  ELSE [m |-> m, i |-> i]

(* Mutant: strncpy without its NUL padding loop. *)
StrncpyNoPad(m, d, s, n) == CopyAtMost(m, d, s, 0, n).m

(* strncpy: the copy, then dest[i] = '\0' up to n. *)
Strncpy(m, d, s, n) ==
  LET r == CopyAtMost(m, d, s, 0, n) IN Memset(r.m, d + r.i, 0, n - r.i)

(* strcat: from the end of dest, *ptr++ = *src++ up to the NUL, then NUL. *)
RECURSIVE CatLoop(_, _, _)
CatLoop(m, p, s) ==
  IF m[s] = 0 THEN [m EXCEPT ![p] = 0] ELSE CatLoop([m EXCEPT ![p] = m[s]], p + 1, s + 1)

Strcat(m, d, s) == CatLoop(m, d + Strlen(m, d), s)

(* strncat: at most n bytes of src after dest's string, then a NUL. *)
Strncat(m, d, s, n) ==
  LET e == d + Strlen(m, d)
      r == CopyAtMost(m, e, s, 0, n)
  IN  [r.m EXCEPT ![e + r.i] = 0]

(* strcmp: past the common prefix, *s1 - *s2 as unsigned chars. *)
RECURSIVE Strcmp(_, _, _)
Strcmp(m, p1, p2) ==
  IF m[p1] # 0 /\ m[p1] = m[p2] THEN Strcmp(m, p1 + 1, p2 + 1) ELSE m[p1] - m[p2]

(* while (n && *s1 && *s1 == *s2) { s1++; s2++; n--; } *)
RECURSIVE StrncmpLoop(_, _, _, _)
StrncmpLoop(m, p1, p2, n) ==
  IF n # 0 /\ m[p1] # 0 /\ m[p1] = m[p2] THEN StrncmpLoop(m, p1 + 1, p2 + 1, n - 1)
  ELSE [p1 |-> p1, p2 |-> p2, n |-> n]

(* Mutant: strncmp without its n == 0 test after the loop. *)
StrncmpNoLimit(m, p1, p2, n) ==
  LET r == StrncmpLoop(m, p1, p2, n) IN m[r.p1] - m[r.p2]

Strncmp(m, p1, p2, n) ==
  LET r == StrncmpLoop(m, p1, p2, n) IN IF r.n = 0 THEN 0 ELSE m[r.p1] - m[r.p2]

(* strchr: the first c, the NUL when c is '\0', else NULL. *)
RECURSIVE Strchr(_, _, _)
Strchr(m, p, c) ==
  CASE m[p] = c -> p
    [] m[p] = 0 -> -1
    [] OTHER    -> Strchr(m, p + 1, c)

(* strrchr's loop: the last c seen before the NUL, and the NUL. *)
RECURSIVE StrrchrLoop(_, _, _, _)
StrrchrLoop(m, p, c, found) ==
  IF m[p] = 0 THEN [s |-> p, found |-> found]
  ELSE StrrchrLoop(m, p + 1, c, IF m[p] = c THEN p ELSE found)

Strrchr(m, p, c) ==
  LET r == StrrchrLoop(m, p, c, -1) IN IF c = 0 THEN r.s ELSE r.found

-----------------------------------------------------------------------------
(* The reference: C's printf for '%' ['0'] [width] ["ll"] conversion.    *)

(* The conversion specification after a '%', and the format after it. *)
RefSpec(g) ==
  LET z  == Head(g) = "0"
      g1 == IF z THEN Tail(g) ELSE g
      hw == Head(g1) \in DecDigits
      g2 == IF hw THEN Tail(g1) ELSE g1
      ll == Len(g2) >= 2 /\ g2[1] = "l" /\ g2[2] = "l"
      g3 == IF ll THEN SubSeq(g2, 3, Len(g2)) ELSE g2
  IN  [pad |-> IF z THEN "0" ELSE " ", width |-> IF hw THEN DigitVal(Head(g1)) ELSE 0,
       conv |-> Head(g3), rest |-> Tail(g3)]

RefConversion(r, v) ==
  CASE r.conv \in {"d", "i", "u"} -> Padded(DigitsIn(v.n, 10, DigitChars), r.width, r.pad)
    [] r.conv = "x"               -> Padded(DigitsIn(v.n, 16, LowerHex), r.width, r.pad)
    [] r.conv = "X"               -> Padded(DigitsIn(v.n, 16, DigitChars), r.width, r.pad)
    [] r.conv \in {"s", "c"}      -> Padded(v.s, r.width, " ")

RECURSIVE RefFormat(_, _)
RefFormat(f, a) ==
  IF f = <<>> THEN <<>>
  ELSE IF Head(f) # "%" THEN <<Head(f)>> \o RefFormat(Tail(f), a)
  ELSE LET r == RefSpec(Tail(f)) IN
       IF r.conv = "%" THEN <<"%">> \o RefFormat(r.rest, a)
                       ELSE RefConversion(r, Head(a)) \o RefFormat(r.rest, Tail(a))

(* The conversion characters of a format that take an argument, in order. *)
RECURSIVE RefArgConvs(_)
RefArgConvs(f) ==
  IF f = <<>> THEN <<>>
  ELSE IF Head(f) # "%" THEN RefArgConvs(Tail(f))
  ELSE LET r == RefSpec(Tail(f)) IN
       IF r.conv = "%" THEN RefArgConvs(r.rest) ELSE <<r.conv>> \o RefArgConvs(r.rest)

(* The argument lists a caller may pass with format f. *)
Slot(c) == IF c \in {"s", "c"} THEN {[n |-> 0, s |-> t] : t \in Strs}
                               ELSE {[n |-> v, s |-> <<>>] : v \in Values}
ArgLists(f) ==
  LET k == RefArgConvs(f) IN
  {a \in [1 .. Len(k) -> UNION {Slot(c) : c \in {"s", "d"}}] :
     \A i \in 1 .. Len(k) : a[i] \in Slot(k[i])}

(* The components of a path, and the path C resolves them to: "." is     *)
(* dropped and ".." removes the component before it (none at the root).   *)
RECURSIVE Components(_)
Components(p) ==
  LET q == SkipSlashes(p)
  IN  IF q = <<>> THEN <<>> ELSE <<Component(q)>> \o Components(AfterComponent(q))

Resolve(cs) ==
  FoldLeft(LAMBDA st, c : CASE c = <<".">>      -> st
                            [] c = <<".", ".">> -> IF st = <<>> THEN st ELSE Front(st)
                            [] OTHER            -> Append(st, c),
           <<>>, cs)

(* The reference for the primitives: the C standard's definitions. *)
Terminated(m, p) == \E i \in p .. MemLen - 1 : m[i] = 0
NulAt(m, p)   == CHOOSE i \in p .. MemLen - 1 : m[i] = 0 /\ \A j \in p .. i - 1 : m[j] # 0
StrOf(m, p)   == [i \in 1 .. NulAt(m, p) - p |-> m[p + i - 1]]
BytesAt(m, p, n) == [i \in 1 .. n |-> m[p + i - 1]]
WriteAt(m, p, b) == [i \in DOMAIN m |-> IF p <= i /\ i < p + Len(b) THEN b[i - p + 1] ELSE m[i]]
At0(b, i)     == IF i <= Len(b) THEN b[i] ELSE 0
Sign(x)       == IF x > 0 THEN 1 ELSE IF x < 0 THEN -1 ELSE 0

(* The order of two byte strings: the first byte that differs decides,   *)
(* compared as unsigned, the end of a string reading as 0.               *)
RefOrder(a, b) ==
  IF a = b THEN 0
  ELSE LET i == CHOOSE i \in 1 .. Len(a) + Len(b) + 1 :
                  At0(a, i) # At0(b, i) /\ \A j \in 1 .. i - 1 : At0(a, j) = At0(b, j)
       IN  Sign(At0(a, i) - At0(b, i))

(* The offsets of c in the string at p, its NUL included. *)
Hits(m, p, c) == {i \in p .. NulAt(m, p) : m[i] = c}

RefCopy(f, m, x, y, n) ==
  CASE f = "memcpy"  -> WriteAt(m, x, BytesAt(m, y, n))
    [] f = "strcpy"  -> WriteAt(m, x, StrOf(m, y) \o <<0>>)
    [] f = "strncpy" -> WriteAt(m, x, [i \in 1 .. n |-> At0(StrOf(m, y), i)])
    [] f = "strcat"  -> WriteAt(m, NulAt(m, x), StrOf(m, y) \o <<0>>)
    [] f = "strncat" -> WriteAt(m, NulAt(m, x), Take(StrOf(m, y), n) \o <<0>>)

RefCompare(f, m, x, y, n) ==
  CASE f = "memcmp"  -> RefOrder(BytesAt(m, x, n), BytesAt(m, y, n))
    [] f = "strcmp"  -> RefOrder(StrOf(m, x), StrOf(m, y))
    [] f = "strncmp" -> RefOrder(Take(StrOf(m, x), n), Take(StrOf(m, y), n))
    [] f = "strlen"  -> NulAt(m, x) - x
    [] f = "strchr"  -> IF Hits(m, x, y) = {} THEN -1
                        ELSE CHOOSE i \in Hits(m, x, y) : \A j \in Hits(m, x, y) : i <= j
    [] f = "strrchr" -> IF Hits(m, x, y) = {} THEN -1
                        ELSE CHOOSE i \in Hits(m, x, y) : \A j \in Hits(m, x, y) : i >= j

-----------------------------------------------------------------------------
Paths == BoundedSeq(PathChars, MaxPathLen)

(* vfs_normalize_path(p) called with one of the paths. *)
NormalizeCall(p) ==
  /\ fn' = "vfs_normalize_path"
  /\ input' = p /\ args' = <<>> /\ size' = 0
  /\ output' = VfsNormalizePath(p)

(* sprintf(str, f, ...): va_start and vsprintf into the caller's buffer. *)
Sprintf(f, a) ==
  /\ fn' = "sprintf"
  /\ input' = f /\ args' = a /\ size' = 0
  /\ output' = Vsprintf(f, a)

(* vsnprintf(str, n, f, args) into the caller's buffer. *)
VsnprintfCall(f, a, n) ==
  /\ fn' = "vsnprintf"
  /\ input' = f /\ args' = a /\ size' = n
  /\ output' = Vsnprintf(f, a, n)

CopyFns    == {"memmove", "memcpy", "strcpy", "strncpy", "strcat", "strncat"}
CompareFns == {"memcmp", "strcmp", "strncmp", "strlen", "strchr", "strrchr"}
OrderFns   == {"memcmp", "strcmp", "strncmp"}

(* The bytes from a to b are apart from those from c to e. *)
Apart(a, b, c, e) == b < c \/ e < a

(* The calls C defines: every byte read or written lies in the memory,   *)
(* strings are terminated, and only memmove's regions may overlap.        *)
(* Arguments a call does not take are 0.                                  *)
Defined(f, m, x, y, n) ==
  CASE f = "memmove" -> x + n <= MemLen /\ y + n <= MemLen
    [] f = "memcpy"  -> x + n <= MemLen /\ y + n <= MemLen /\ Apart(x, x + n - 1, y, y + n - 1)
    [] f = "memcmp"  -> x + n <= MemLen /\ y + n <= MemLen
    [] f = "strlen"  -> Terminated(m, x) /\ y = 0 /\ n = 0
    [] f \in {"strchr", "strrchr"} -> Terminated(m, x) /\ n = 0
    [] f = "strcmp"  -> Terminated(m, x) /\ Terminated(m, y) /\ n = 0
    [] f = "strncmp" -> Terminated(m, x) /\ Terminated(m, y)
    [] f = "strcpy"  -> Terminated(m, y) /\ n = 0
                        /\ x + Len(StrOf(m, y)) < MemLen
                        /\ Apart(x, x + Len(StrOf(m, y)), y, NulAt(m, y))
    [] f = "strncpy" -> Terminated(m, y) /\ x + n <= MemLen
                        /\ Apart(x, x + n - 1, y, NulAt(m, y))
    [] f = "strcat"  -> Terminated(m, x) /\ Terminated(m, y) /\ n = 0
                        /\ NulAt(m, x) + Len(StrOf(m, y)) < MemLen
                        /\ Apart(x, NulAt(m, x) + Len(StrOf(m, y)), y, NulAt(m, y))
    [] f = "strncat" -> Terminated(m, x) /\ Terminated(m, y)
                        /\ NulAt(m, x) + Len(Take(StrOf(m, y), n)) < MemLen
                        /\ Apart(x, NulAt(m, x) + Len(Take(StrOf(m, y), n)), y, NulAt(m, y))

Primitive(f, m, x, y, n) ==
  CASE f = "memmove" -> Memmove(m, x, y, n)
    [] f = "memcpy"  -> Memcpy(m, x, y, n)
    [] f = "strcpy"  -> Strcpy(m, x, y)
    [] f = "strncpy" -> Strncpy(m, x, y, n)
    [] f = "strcat"  -> Strcat(m, x, y)
    [] f = "strncat" -> Strncat(m, x, y, n)
    [] f = "memcmp"  -> Memcmp(m, x, y, n)
    [] f = "strlen"  -> Strlen(m, x)
    [] f = "strcmp"  -> Strcmp(m, x, y)
    [] f = "strncmp" -> Strncmp(m, x, y, n)
    [] f = "strchr"  -> Strchr(m, x, y)
    [] f = "strrchr" -> Strrchr(m, x, y)

(* f(x, y, n) on memory m: output is the memory after it, or its result. *)
PrimitiveCall(f, m, x, y, n) ==
  /\ fn' = f /\ input' = m /\ args' = <<x, y, n>> /\ size' = 0
  /\ output' = Primitive(f, m, x, y, n)

Init == fn = "none" /\ input = <<>> /\ args = <<>> /\ size = 0 /\ output = <<>>

(* A call is made from the caller's side and returns to it. *)
Return ==
  /\ fn # "none"
  /\ fn' = "none" /\ input' = <<>> /\ args' = <<>> /\ size' = 0 /\ output' = <<>>

Next ==
  \/ /\ fn = "none"
     /\ \/ \E p \in Paths : NormalizeCall(p)
        \/ \E f \in Formats : \E a \in ArgLists(f) : Sprintf(f, a)
        \/ \E f \in Formats : \E a \in ArgLists(f) : \E n \in Sizes : VsnprintfCall(f, a, n)
        \/ \E f \in CopyFns \cup CompareFns, m \in Mem, x, y \in Offsets, n \in 0 .. MemLen :
              Defined(f, m, x, y, n) /\ PrimitiveCall(f, m, x, y, n)
  \/ Return

Spec == Init /\ [][Next]_vars

-----------------------------------------------------------------------------
Normalized == fn = "vfs_normalize_path"

TypeOK ==
  /\ fn \in {"none", "vfs_normalize_path", "sprintf", "vsnprintf"} \cup CopyFns \cup CompareFns
  /\ fn \in CopyFns => input \in Mem /\ output \in Mem
  /\ fn \in CompareFns => input \in Mem /\ output \in Int
  /\ Normalized => input \in Paths /\ output \in Seq(PathChars) \ {<<>>}
  /\ fn \in {"sprintf", "vsnprintf"} => input \in Formats /\ output \in Seq(STRING)

(* The normalized path is never longer than the path given (or "/"): a    *)
(* path that fits in MAX_PATH_LEN never overruns the static buffer.       *)
NormalizedFits ==
  Normalized => Len(output) <= IF Len(input) > 1 THEN Len(input) ELSE 1

(* No "." or ".." component survives normalization: lookup walks only     *)
(* real names.                                                            *)
NoDotComponents ==
  Normalized =>
    \A i \in DOMAIN Components(output) :
      Components(output)[i] \notin {<<".">>, <<".", ".">>}

(* For an absolute path, the normalized path names the same file: its     *)
(* components are those C's resolution of "." and ".." gives.             *)
NormalizeResolves ==
  Normalized /\ input # <<>> /\ Head(input) = "/" =>
    Components(output) = Resolve(Components(input))

(* What sprintf writes is what C's printf writes for the same format and  *)
(* arguments.                                                             *)
SprintfConforms == fn = "sprintf" => output = RefFormat(input, args)

(* What vsnprintf writes is what C's printf writes, cut to size - 1       *)
(* characters: it never writes past the buffer and drops nothing that     *)
(* fits.                                                                  *)
VsnprintfConforms ==
  fn = "vsnprintf" => output = Take(RefFormat(input, args), IF size > 0 THEN size - 1 ELSE 0)


(* memmove leaves at dest the n bytes src held before the call, however   *)
(* the two regions overlap, and touches nothing else.                     *)
MemmoveConforms ==
  fn = "memmove" => output = WriteAt(input, args[1], BytesAt(input, args[2], args[3]))

(* memcpy, strcpy, strncpy (with its NUL padding), strcat and strncat     *)
(* write what the C standard says and nothing else.                       *)
CopiesConform ==
  fn \in CopyFns \ {"memmove"} => output = RefCopy(fn, input, args[1], args[2], args[3])

(* memcmp, strcmp and strncmp order their arguments as the C standard     *)
(* does (the sign of the result), and strlen, strchr and strrchr find     *)
(* what it says, a '\0' searched for included.                            *)
ComparesConform ==
  fn \in CompareFns =>
    IF fn \in OrderFns THEN Sign(output) = RefCompare(fn, input, args[1], args[2], args[3])
    ELSE output = RefCompare(fn, input, args[1], args[2], args[3])
=============================================================================

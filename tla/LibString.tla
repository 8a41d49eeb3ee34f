----------------------------- MODULE LibString -----------------------------
(***************************************************************************)
(* lib/libc/string.c and the character classes of lib/ctype.h it uses.  A  *)
(* call works on a memory of a few bytes; one step is one round of its     *)
(* loop.  What a function calls itself (strlen, memcmp) is taken at its    *)
(* result.                                                                 *)
(***************************************************************************)
EXTENDS Integers, Sequences

CONSTANTS
    Size,    \* bytes of memory
    Byte,    \* values a byte takes
    NumByte, \* and those it takes where a number is parsed
    Base,    \* bases of strtoul
    ULong    \* values of an unsigned long: 2^64

ASSUME LibAssumption ==
    /\ Size \in Nat \ {0} /\ ULong \in Nat \ {0}
    /\ Byte \cup NumByte \subseteq 0 .. 255 /\ Base \subseteq Nat

Addr == 1 .. Size
NULL == 0
Entered == -2000  \* no result yet: the call begins,
Running == -1000  \* or is in its loop

VARIABLES
    call,    \* the function and its arguments
    mem,     \* the memory
    p, q, n, \* its cursors, and the count or, in strtoul, the value
    ret,     \* what it returned
    endp,    \* strtoul: where it stored that the number ends
    old,     \* auxiliary: the memory at the call
    read     \* auxiliary: addresses the call read

vars == <<call, mem, p, q, n, ret, endp, old, read>>

-----------------------------------------------------------------------------
(* Strings                                                                 *)

StringAt(m, a) == \E k \in a .. Size : m[k] = 0
StrEnd(m, a)   == CHOOSE k \in a .. Size :
                      m[k] = 0 /\ \A i \in a .. k - 1 : m[i] # 0
Str(m, a)      == SubSeq(m, a, StrEnd(m, a) - 1)

\* The first n bytes, fewer if a NUL comes before.
Prefix(m, a, k) ==
    SubSeq(m, a, CHOOSE e \in a - 1 .. a + k - 1 :
                     /\ \A i \in a .. e : m[i] # 0
                     /\ e = a + k - 1 \/ m[e + 1] = 0)

unsigned_char(c) == c % 256

\* The classes of the table _ctype that the string functions ask for; of the
\* upper half only the letters.
isdigit(c)  == c \in 48 .. 57
isxdigit(c) == c \in 48 .. 57 \cup 65 .. 70 \cup 97 .. 102
isupper(c)  == c \in 65 .. 90 \cup (192 .. 222 \ {215})
tolower(c)  == IF isupper(c) THEN c + 32 ELSE c

-----------------------------------------------------------------------------
(* What the callers pass                                                   *)

OnString  == {"strlen", "strchr", "strrchr"}
OnBlock   == {"strnlen", "memchr", "memset"}
OnStrings == {"strcpy", "strcmp", "strstr"}
OnBoth    == {"strncpy", "strncmp", "strnsrt", "memcmp", "memcpy", "memmove"}

Disjoint(a, la, b, lb) == a + la <= b \/ b + lb <= a

\* The contract: strings end, blocks lie inside the memory, and only memmove
\* is given overlapping ones.  What bounds a string by a count is given either:
\* strncpy stores over no byte of its source up to the NUL.
Legal(m, fn, a, b, k) ==
    CASE fn \in OnString \cup {"strtoul"} -> StringAt(m, a)
      [] fn \in {"memchr", "memset"} -> a + k <= Size + 1
      [] fn = "strnlen" -> a + k <= Size + 1 \/ StringAt(m, a)
      [] fn \in {"strcmp", "strstr"} -> StringAt(m, a) /\ StringAt(m, b)
      [] fn = "strcpy" ->
             /\ StringAt(m, b)
             /\ LET l == Len(Str(m, b)) + 1
                IN  a + l <= Size + 1 /\ Disjoint(a, l, b, l)
      [] fn = "strncpy" ->
             /\ a + k <= Size + 1
             /\ b + k <= Size + 1 \/ StringAt(m, b)
             /\ \A i \in (a .. a + k - 1) \cap (b .. b + k - 1) :
                   \E j \in b .. i - 1 : m[j] = 0
      [] fn = "strncmp" ->
             /\ a + k <= Size + 1 \/ StringAt(m, a)
             /\ b + k <= Size + 1 \/ StringAt(m, b)
      [] fn = "strnsrt" -> a + k <= Size + 1 /\ StringAt(m, b)
      [] fn \in {"memcmp", "memmove"} -> a + k <= Size + 1 /\ b + k <= Size + 1
      [] fn = "memcpy" ->
             /\ a + k <= Size + 1 /\ b + k <= Size + 1 /\ Disjoint(a, k, b, k)

\* Characters are passed as int: two of them are the same char.
Chars == Byte \cup {c + 256 : c \in Byte}

Moves     == {"memcpy", "memmove", "memset"}
Functions == OnString \cup OnBlock \cup OnStrings \cup OnBoth \cup {"strtoul"}

Memory(fn) == [Addr -> IF fn = "strtoul" THEN NumByte ELSE Byte]
Source(fn) == IF fn \in OnStrings \cup OnBoth THEN Addr ELSE {1}
Count(fn)  == CASE fn \in OnBlock \cup OnBoth -> 0 .. Size
                [] fn = "strtoul" -> {0, 1}  \* whether it is given an endp
                [] OTHER -> {0}
Char(fn)   == CASE fn \in {"strchr", "strrchr", "memchr", "memset"} -> Chars
                [] fn = "strtoul" -> Base
                [] OTHER -> {0}

Init ==
    /\ \E fn \in Functions : \E m \in Memory(fn), a \in Addr, b \in Source(fn),
                                k \in Count(fn), c \in Char(fn) :
          /\ Legal(m, fn, a, b, k)
          /\ call = [fn |-> fn, a |-> a, b |-> b, n |-> k, c |-> c]
          /\ mem = m /\ old = m
          /\ p = a /\ q = b /\ n = k
    /\ ret = Entered /\ endp = NULL /\ read = {}

TypeOK ==
    /\ call \in [fn : Functions, a : Addr, b : Addr, n : Nat, c : Nat]
    /\ mem \in [Addr -> 0 .. 255] /\ old \in [Addr -> 0 .. 255]
    /\ p \in Int /\ q \in Int /\ n \in Int /\ ret \in Int /\ endp \in Int

-----------------------------------------------------------------------------
(* A round of a loop                                                       *)

Loop(fn) == call.fn = fn /\ ret = Running /\ UNCHANGED <<call, old>>
Begin(fn) == call.fn = fn /\ ret = Entered /\ UNCHANGED <<call, old, mem, endp>>

Round(p2, q2, n2) == p' = p2 /\ q' = q2 /\ n' = n2 /\ ret' = Running
Return(r)         == ret' = r /\ UNCHANGED <<p, q, n>>
Reads(s)          == read' = read \cup s

\* A byte; one outside the memory, which no legal call asks for, is a NUL.
At(i) == IF i \in Addr THEN mem[i] ELSE 0

\* What memcmp and strlen return, and the bytes they read for it.
Differ(m, a, b, k)   == {i \in 0 .. k - 1 : m[a + i] # m[b + i]}
FirstOf(s)           == CHOOSE i \in s : \A j \in s : i <= j
Memcmp(m, a, b, k)   == IF Differ(m, a, b, k) = {} THEN 0
                        ELSE LET i == FirstOf(Differ(m, a, b, k))
                             IN  m[a + i] - m[b + i]
Strlen(m, a)         == StrEnd(m, a) - a

WithoutPrologue == Functions \ {"strstr", "strnsrt", "memmove", "strtoul", "strrchr"}

Enter == \E fn \in WithoutPrologue : Begin(fn) /\ Round(p, q, n) /\ Reads({})

strcpy ==
    /\ Loop("strcpy")
    /\ mem' = [mem EXCEPT ![p] = At(q)] /\ UNCHANGED endp
    /\ Reads({q})
    /\ IF At(q) # 0 THEN Round(p + 1, q + 1, n) ELSE Return(call.a)

strncpy ==
    /\ Loop("strncpy")
    /\ IF n = 0
       THEN Return(call.a) /\ Reads({}) /\ UNCHANGED <<mem, endp>>
       ELSE /\ mem' = [mem EXCEPT ![p] = At(q)] /\ UNCHANGED endp
            /\ Reads({q})
            /\ Round(p + 1, IF At(q) # 0 THEN q + 1 ELSE q, n - 1)

\* The comparison both make of two characters; a smaller first one gives 1.
Compare(n2) ==
    /\ Reads({p, q}) /\ UNCHANGED <<mem, endp>>
    /\ IF At(p) # At(q) THEN Return(IF At(p) < At(q) THEN 1 ELSE -1)
       ELSE IF At(p) = 0 THEN Return(0)
       ELSE Round(p + 1, q + 1, n2)

strcmp == Loop("strcmp") /\ Compare(n)

strncmp ==
    /\ Loop("strncmp")
    /\ IF n = 0 THEN Return(0) /\ Reads({}) /\ UNCHANGED <<mem, endp>>
       ELSE Compare(n - 1)

strlen ==
    /\ Loop("strlen") /\ Reads({p}) /\ UNCHANGED <<mem, endp>>
    /\ IF At(p) # 0 THEN Round(p + 1, q, n) ELSE Return(p - call.a)

\* A plausible slip: the byte is looked at before the count.
strnlen_peek ==
    /\ Loop("strnlen") /\ Reads({p}) /\ UNCHANGED <<mem, endp>>
    /\ IF At(p) # 0 /\ n # 0 THEN Round(p + 1, q, n - 1) ELSE Return(p - call.a)

strnlen ==
    /\ Loop("strnlen") /\ Reads(IF n # 0 THEN {p} ELSE {}) /\ UNCHANGED <<mem, endp>>
    /\ IF n # 0 /\ At(p) # 0 THEN Round(p + 1, q, n - 1) ELSE Return(p - call.a)

-----------------------------------------------------------------------------
(* Searches                                                                *)

\* A plausible slip: the last place the string could be at is not tried.
Fits_short(l) == n > l
Fits(l)       == n >= l

\* strstr and strnsrt share their loop: n bytes are left at p.
Search(fn) ==
    LET l == Strlen(mem, call.b)
    IN  /\ Loop(fn) /\ UNCHANGED <<mem, endp>>
        /\ IF ~Fits(l) THEN Return(NULL) /\ Reads({})
           ELSE LET d == Differ(mem, p, q, l)
                    e == IF d = {} THEN l - 1 ELSE FirstOf(d)
                IN  /\ Reads({p + i : i \in 0 .. e} \cup {q + i : i \in 0 .. e})
                    /\ IF Memcmp(mem, p, q, l) = 0 THEN Return(p)
                       ELSE Round(p + 1, q, n - 1)

strstr ==
    \/ Search("strstr")
    \/ /\ Begin("strstr")
       /\ IF Strlen(mem, q) = 0 THEN Return(p) /\ Reads({q})
          ELSE /\ Round(p, q, Strlen(mem, p))
               /\ Reads(p .. StrEnd(mem, p) \cup q .. StrEnd(mem, q))

strnsrt ==
    \/ Search("strnsrt")
    \/ /\ Begin("strnsrt") /\ Reads(q .. StrEnd(mem, q))
       /\ IF Strlen(mem, q) = 0 THEN Return(p) ELSE Round(p, q, n)

strchr ==
    /\ Loop("strchr") /\ Reads({p}) /\ UNCHANGED <<mem, endp>>
    /\ IF At(p) = unsigned_char(call.c) THEN Return(p)
       ELSE IF At(p) = 0 THEN Return(NULL) ELSE Round(p + 1, q, n)

strrchr ==  \* q is last
    \/ Begin("strrchr") /\ Reads({}) /\ Round(p, NULL, n)
    \/ LET last == IF At(p) = unsigned_char(call.c) THEN p ELSE q
       IN  /\ Loop("strrchr") /\ Reads({p}) /\ UNCHANGED <<mem, endp>>
           /\ IF At(p) # 0 THEN Round(p + 1, last, n) ELSE Return(last)

-----------------------------------------------------------------------------
(* Blocks of memory                                                        *)

memcmp ==
    /\ Loop("memcmp") /\ UNCHANGED <<mem, endp>>
    /\ IF n = 0 THEN Return(0) /\ Reads({})
       ELSE /\ Reads({p, q})
            /\ IF At(p) # At(q) THEN Return(At(p) - At(q))
               ELSE Round(p + 1, q + 1, n - 1)

memchr ==
    /\ Loop("memchr") /\ UNCHANGED <<mem, endp>>
    /\ IF n = 0 THEN Return(NULL) /\ Reads({})
       ELSE /\ Reads({p})
            /\ IF At(p) = unsigned_char(call.c) THEN Return(p)
               ELSE Round(p + 1, q, n - 1)

memcpy ==
    /\ Loop("memcpy") /\ UNCHANGED endp
    /\ IF n = 0 THEN Return(call.a) /\ Reads({}) /\ UNCHANGED mem
       ELSE /\ mem' = [mem EXCEPT ![p] = At(q)] /\ Reads({q})
            /\ Round(p + 1, q + 1, n - 1)

\* A plausible slip: memmove copies upwards wherever the blocks lie.
Forward_always == TRUE

Forward == call.a <= call.b

memmove ==
    \/ /\ Begin("memmove") /\ Reads({})
       /\ IF Forward THEN Round(p, q, n) ELSE Round(p + n, q + n, n)
    \/ /\ Loop("memmove") /\ UNCHANGED endp
       /\ IF n = 0 THEN Return(call.a) /\ Reads({}) /\ UNCHANGED mem
          ELSE IF Forward
          THEN /\ mem' = [mem EXCEPT ![p] = At(q)] /\ Reads({q})
               /\ Round(p + 1, q + 1, n - 1)
          ELSE /\ mem' = [mem EXCEPT ![p - 1] = At(q - 1)] /\ Reads({q - 1})
               /\ Round(p - 1, q - 1, n - 1)

memset ==
    /\ Loop("memset") /\ UNCHANGED endp /\ Reads({})
    /\ IF n = 0 THEN Return(call.a) /\ UNCHANGED mem
       ELSE /\ mem' = [mem EXCEPT ![p] = unsigned_char(call.c)]
            /\ Round(p + 1, q, n - 1)

-----------------------------------------------------------------------------
(* Numbers                                                                 *)

Digit(c) == IF isdigit(c) THEN c - 48 ELSE tolower(c) - 97 + 10

Radix == IF call.c = 0 THEN 10 ELSE call.c

strtoul ==  \* n is result
    \/ LET hex == Radix = 16 /\ At(p) = 48
       IN  /\ Begin("strtoul")
           /\ Reads(IF Radix # 16 THEN {} ELSE IF hex THEN {p, p + 1} ELSE {p})
           /\ Round(IF hex /\ tolower(At(p + 1)) = 120 THEN p + 2 ELSE p, q, 0)
    \/ /\ Loop("strtoul") /\ Reads({p}) /\ UNCHANGED mem
       /\ IF isxdigit(At(p)) /\ Digit(At(p)) <= Radix
          THEN Round(p + 1, q, (n * Radix + Digit(At(p))) % ULong) /\ UNCHANGED endp
          ELSE Return(n) /\ endp' = IF call.n # 0 THEN p ELSE endp

Next ==
    \/ Enter \/ strcpy \/ strncpy \/ strcmp \/ strncmp \/ strlen \/ strnlen
    \/ strstr \/ strnsrt \/ strchr \/ strrchr
    \/ memcmp \/ memchr \/ memcpy \/ memmove \/ memset \/ strtoul

Spec == Init /\ [][Next]_vars

-----------------------------------------------------------------------------
(* Properties                                                              *)

Returned == ret \notin {Entered, Running}

\* memcpy, memmove and memset return with exactly the bytes of the target
\* block replaced by those the source block held when they were called (memset:
\* by the character), wherever the two blocks of memmove overlap.
MovesExact ==
    Returned /\ call.fn \in Moves =>
        /\ ret = call.a
        /\ \A i \in Addr :
              mem[i] = IF i < call.a \/ i >= call.a + call.n THEN old[i]
                       ELSE IF call.fn = "memset" THEN unsigned_char(call.c)
                       ELSE old[call.b + i - call.a]

-----------------------------------------------------------------------------
(* What the functions that search, compare and convert are for, stated on  *)
(* whole strings                                                           *)

LeastIn(s)    == IF s = {} THEN NULL ELSE CHOOSE i \in s : \A j \in s : i <= j
GreatestIn(s) == IF s = {} THEN NULL ELSE CHOOSE i \in s : \A j \in s : j <= i

\* The string of b lies at address i.
Occurs(i, b) == \A k \in 0 .. Strlen(old, b) - 1 : old[i + k] = old[b + k]

\* Whether the bytes at b sort before those at a: the sign all three have.
\* (That of strcmp and strncmp is the opposite of the C library's.)
ByteOf(s, i) == IF i > Len(s) THEN 0 ELSE s[i]
Order(s, t) ==
    IF s = t THEN 0
    ELSE LET i == FirstOf({j \in 1 .. Len(s) + 1 : ByteOf(s, j) # ByteOf(t, j)})
         IN  IF ByteOf(s, i) < ByteOf(t, i) THEN 1 ELSE -1

SameResult == IF call.fn = "memcmp"
              THEN LET s == SubSeq(old, call.a, call.a + call.n - 1)
                       t == SubSeq(old, call.b, call.b + call.n - 1)
                   IN  IF s = t THEN ret = 0 ELSE ret * Order(s, t) < 0
              ELSE IF call.fn = "strcmp"
              THEN ret = Order(Str(old, call.a), Str(old, call.b))
              ELSE ret = Order(Prefix(old, call.a, call.n), Prefix(old, call.b, call.n))

\* The number at a: its digits, after an optional 0x in base 16, weighed.
Skip     == IF /\ Radix = 16 /\ old[call.a] = 48
               /\ old[call.a + 1] \in {88, 120} THEN 2 ELSE 0
IsDigit(c)  == isxdigit(c) /\ Digit(c) < Radix
NumEnd      == LeastIn({i \in call.a + Skip .. Size : ~IsDigit(old[i])})
Weigh(from, to) ==
    LET w[i \in from .. to] == IF i = from THEN 0
                               ELSE w[i - 1] * Radix + Digit(old[i - 1])
    IN  w[to]

\* strtoul also takes a digit equal to the base; no caller passes one.
Number ==
    (~isxdigit(old[NumEnd]) \/ Digit(old[NumEnd]) # Radix) =>
        /\ ret = Weigh(call.a + Skip, NumEnd) % ULong
        /\ endp = IF call.n = 0 THEN NULL ELSE NumEnd

\* Every function that searches, compares, copies a string or converts a number
\* returns, and leaves in memory, what its definition on whole strings says:
\* the first (strrchr: the last) match or NULL, 0 exactly for equal contents, the
\* copied string with its NULs, the value modulo the width of unsigned long.
ResultExact ==
    Returned /\ call.fn \notin Moves =>
      LET f == call.fn  a == call.a  b == call.b  k == call.n
          c == unsigned_char(call.c)
          l == StrEnd(old, b) - b
          e == StrEnd(old, a)
          w == Prefix(old, b, k)
      IN  /\ f \notin {"strcpy", "strncpy"} => mem = old
          /\ f = "strlen"  => ret = Len(Str(old, a))
          /\ f = "strnlen" => ret = Len(Prefix(old, a, k))
          /\ f = "strchr"  => ret = LeastIn({i \in a .. e : old[i] = c})
          /\ f = "strrchr" => ret = GreatestIn({i \in a .. e : old[i] = c})
          /\ f = "memchr"  => ret = LeastIn({i \in a .. a + k - 1 : old[i] = c})
          /\ f = "strstr"  => ret = LeastIn({i \in a .. e - l : Occurs(i, b)})
          /\ f = "strnsrt" =>
                ret = IF l = 0 THEN a
                      ELSE LeastIn({i \in a .. a + k - l : Occurs(i, b)})
          /\ f \in {"strcmp", "strncmp", "memcmp"} => SameResult
          /\ f = "strtoul" => Number
          /\ f = "strcpy" =>
                /\ ret = a
                /\ mem = [i \in Addr |-> IF i \in a .. a + l THEN old[b + i - a] ELSE old[i]]
          /\ f = "strncpy" =>
                /\ ret = a
                /\ mem = [i \in Addr |->
                          IF i \notin a .. a + k - 1 THEN old[i]
                          ELSE IF i - a < Len(w) THEN w[i - a + 1] ELSE 0]

\* The bytes a function may read: of a string up to its NUL, of a block up to
\* its count, of what is both up to the first of the two.
UpToNUL(a, last) == {i \in a .. last : \A j \in a .. i - 1 : old[j] # 0}
Block(a)         == a .. a + call.n - 1

MayRead ==
    LET f == call.fn
    IN  CASE f \in OnString \cup {"strtoul"} -> UpToNUL(call.a, Size)
          [] f \in {"strcmp", "strstr"} -> UpToNUL(call.a, Size) \cup UpToNUL(call.b, Size)
          [] f = "strcpy"  -> UpToNUL(call.b, Size)
          [] f = "strncpy" -> UpToNUL(call.b, call.b + call.n - 1)
          [] f = "strnlen" -> UpToNUL(call.a, call.a + call.n - 1)
          [] f = "strncmp" -> UpToNUL(call.a, call.a + call.n - 1)
                                  \cup UpToNUL(call.b, call.b + call.n - 1)
          [] f = "strnsrt" -> Block(call.a) \cup UpToNUL(call.b, Size)
          [] f = "memcmp"  -> Block(call.a) \cup Block(call.b)
          [] f = "memchr"  -> Block(call.a)
          [] f = "memset"  -> {}
          [] f \in {"memcpy", "memmove"} -> Block(call.b)

\* No function reads a byte past the NUL of a string or past the count, also
\* where the two end at the same byte; its cursors and what it stores are of
\* their types.
ReadsInside == TypeOK /\ read \subseteq MayRead
=============================================================================

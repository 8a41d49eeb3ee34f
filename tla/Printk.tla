------------------------------- MODULE Printk -------------------------------
(***************************************************************************)
(* kernel/printk.c, driver/uart/console.c and qemu_uart.c: a call of       *)
(* printk decodes its format directive by directive, renders into a buffer *)
(* on its stack and hands that to the console, which sends it to the UART. *)
(* A character is a string of length one, text a sequence of them.         *)
(***************************************************************************)
EXTENDS Decimal, SequencesExt

CONSTANTS
    Calls,      \* the calls [fmt, args] that are made
    SIZE,       \* sizeof p_buf: 1024
    CHAR_BITS, SHRT_BITS, INT_BITS, LONG_BITS,   \* 8, 16, 32, 64
    WIDTH_HALF, \* 2^23: field_width is a signed bit-field of 24 bits,
    PREC_HALF   \* 2^15: and precision of 16

ASSUME PrintkAssumption ==
    /\ \A c \in Calls : c.fmt \in Seq(STRING)
    /\ SIZE \in Nat \ {0} /\ LONG_BITS \in Nat \ {0}
    /\ WIDTH_HALF \in Nat \ {0} /\ PREC_HALF \in Nat \ {0}

NUL == "NUL"       \* the end of a string
CR  == "CR"
LF  == "LF"
Unset == "unset"   \* what a buffer that nothing wrote to holds

VARIABLES
    call,         \* the call in progress, or the last one
    pc,           \* "idle", "format", "console"
    pos,          \* fmt, an index of call.fmt
    arg,          \* the next argument, an index of call.args
    spec,         \* what format_decode keeps from directive to directive
    p_buf,        \* str < end: an index below SIZE
    str,          \* str - buf
    text,         \* auxiliary: what the call stands for so far, without a bound
    sent,         \* how much of p_buf qemu_console_write has sent
    uart_console, \* the console was found
    uart          \* auxiliary: what this call sent to the data register

vars == <<call, pc, pos, arg, spec, p_buf, str, text, sent, uart_console, uart>>
output == <<sent, uart_console, uart>>

Index == 0 .. SIZE - 1
Flag  == {"SIGN", "LEFT", "PLUS", "SPACE", "ZEROPAD", "SMALL", "SPECIAL"}
Type  == {"NONE", "WIDTH", "PRECISION", "CHAR", "STR", "PTR", "PERCENT_CHAR",
          "INVALID", "LONG_LONG", "ULONG", "LONG", "UBYTE", "BYTE", "USHORT",
          "SHORT", "UINT", "INT", "SIZE_T"}

\* A signed bit-field from -half to half - 1, and what is left of an int in it.
\* skip_atoi's int may have wrapped before: it keeps the bits that count.
Signed(half)     == -half .. half - 1
Kept(half, v)    == ((v + half) % (2 * half)) - half
field_width_of(v) == Kept(WIDTH_HALF, v)
precision_of(v)   == Kept(PREC_HALF, v)

TypeOK ==
    /\ call \in Calls
    /\ pc \in {"idle", "format", "console"}
    /\ pos \in 1 .. Len(call.fmt) + 1 /\ arg \in Nat \ {0}
    /\ spec \in [type : Type, flags : SUBSET Flag, base : {0, 8, 10, 16},
                 field_width : Signed(WIDTH_HALF), precision : Signed(PREC_HALF)]
    /\ DOMAIN p_buf = Index
    /\ str \in Nat /\ sent \in 0 .. str /\ uart_console \in BOOLEAN

-----------------------------------------------------------------------------
(* format_decode                                                           *)

Digit    == {"0", "1", "2", "3", "4", "5", "6", "7", "8", "9"}
\* isalnum, of the characters that format strings here are made of.
AlNum    == Digit \cup {"a", "b", "c", "d", "h", "i", "k", "l", "n", "o", "p",
                       "s", "t", "u", "x", "z", "L", "X"}
ValueOf  == [d \in Digit |-> CHOOSE v \in 0 .. 9 :
               <<"0", "1", "2", "3", "4", "5", "6", "7", "8", "9">>[v + 1] = d]
FlagChar == [c \in {"-", "+", " ", "#", "0"} |->
               CASE c = "-" -> "LEFT" [] c = "+" -> "PLUS" [] c = " " -> "SPACE"
                 [] c = "#" -> "SPECIAL" [] c = "0" -> "ZEROPAD"]
ConvType == [c \in {"c", "s", "p", "%"} |->
               CASE c = "c" -> "CHAR" [] c = "s" -> "STR" [] c = "p" -> "PTR"
                 [] c = "%" -> "PERCENT_CHAR"]
ConvBase == [c \in {"o", "x", "X", "d", "i", "u"} |->
               CASE c = "o" -> 8 [] c \in {"x", "X"} -> 16 [] OTHER -> 10]

At(fmt, i) == IF i <= Len(fmt) THEN fmt[i] ELSE NUL
\* The first place from i on whose character is not in S.
Skip(fmt, i, S) ==
    CHOOSE j \in i .. Len(fmt) + 1 :
        At(fmt, j) \notin S /\ \A k \in i .. j - 1 : fmt[k] \in S
skip_atoi(fmt, i) ==
    LET end == Skip(fmt, i, Digit)
        n[k \in i .. end] == IF k = i THEN 0
                             ELSE n[k - 1] * 10 + ValueOf[fmt[k - 1]]
    IN  n[end]

\* The integer type that a qualifier and the sign of the conversion choose.
IntType(q, signed) ==
    CASE q = "L" -> "LONG_LONG"
      [] q = "l" -> IF signed THEN "LONG" ELSE "ULONG"
      [] q = "z" -> "SIZE_T"
      [] q = "H" -> IF signed THEN "BYTE" ELSE "UBYTE"
      [] q = "h" -> IF signed THEN "SHORT" ELSE "USHORT"
      [] OTHER   -> IF signed THEN "INT" ELSE "UINT"

\* Each phase yields the place it stops at and the spec so far.  From the
\* qualifier to the conversion: a doubled l is L, a doubled h is H.
decode_qualifier(fmt, i, s) ==
    LET has  == At(fmt, i) \in {"h", "l", "L", "z", "t"}
        twin == At(fmt, i) \in {"h", "l"} /\ At(fmt, i + 1) = At(fmt, i)
        k    == IF twin THEN i + 2 ELSE IF has THEN i + 1 ELSE i
        q    == IF ~has THEN NUL
                ELSE IF ~twin THEN fmt[i]
                ELSE IF fmt[i] = "l" THEN "L" ELSE "H"
        c    == At(fmt, k)
        fl   == s.flags \cup (IF c = "x" THEN {"SMALL"} ELSE {})
                        \cup (IF c \in {"d", "i"} THEN {"SIGN"} ELSE {})
    IN  IF c \in DOMAIN ConvType
          THEN [next |-> k + 1,
                spec |-> [s EXCEPT !.base = 10, !.type = ConvType[c]]]
        ELSE IF c \in DOMAIN ConvBase
          THEN [next |-> k + 1,
                spec |-> [s EXCEPT !.base = ConvBase[c], !.flags = fl,
                                   !.type = IntType(q, "SIGN" \in fl)]]
        ELSE [next |-> k, spec |-> [s EXCEPT !.base = 10, !.type = "INVALID"]]

decode_precision(fmt, i, s) ==
    LET none == [s EXCEPT !.precision = -1]
        j    == Skip(fmt, i + 1, Digit)
        p    == precision_of(skip_atoi(fmt, i + 1))
    IN  IF At(fmt, i) # "."
          THEN decode_qualifier(fmt, i, none)
        ELSE IF At(fmt, i + 1) = "*"
          THEN [next |-> i + 2, spec |-> [none EXCEPT !.type = "PRECISION"]]
        ELSE IF j = i + 1
          THEN decode_qualifier(fmt, j, none)
        ELSE decode_qualifier(fmt, j,
                 [none EXCEPT !.precision = IF p < 0 THEN 0 ELSE p])

\* Behind the % at i - 1: flags, then the width.
decode_directive(fmt, i, s) ==
    LET j == Skip(fmt, i, DOMAIN FlagChar)
        n == [s EXCEPT !.field_width = -1,
                       !.flags = {FlagChar[fmt[k]] : k \in i .. j - 1}]
    IN  IF At(fmt, j) = "*"
          THEN [next |-> j + 1, spec |-> [n EXCEPT !.type = "WIDTH"]]
        ELSE IF At(fmt, j) \in Digit
          THEN decode_precision(fmt, Skip(fmt, j, Digit),
                   [n EXCEPT !.field_width = field_width_of(skip_atoi(fmt, j))])
        ELSE decode_precision(fmt, j, n)

\* A width or precision that came as an argument is dealt with first: a
\* negative width means LEFT, a negative precision 0.
format_decode(fmt, i, s) ==
    LET n    == [s EXCEPT !.type = "NONE"]
        lit  == CHOOSE j \in i .. Len(fmt) + 1 :
                    /\ At(fmt, j) \in {"%", NUL}
                    /\ \A k \in i .. j - 1 : fmt[k] # "%"
    IN  CASE s.type = "WIDTH" ->
               decode_precision(fmt, i,
                   IF s.field_width < 0
                     THEN [n EXCEPT !.field_width = field_width_of(-s.field_width),
                                    !.flags = @ \cup {"LEFT"}]
                     ELSE n)
          [] s.type = "PRECISION" ->
               decode_qualifier(fmt, i,
                   IF s.precision < 0 THEN [n EXCEPT !.precision = 0] ELSE n)
          [] OTHER -> IF lit # i THEN [next |-> lit, spec |-> n]
                                 ELSE decode_directive(fmt, i + 1, n)

-----------------------------------------------------------------------------
(* number                                                                  *)

Big(a, b)      == IF a > b THEN a ELSE b
Run(c, n)      == [k \in 1 .. Big(n, 0) |-> c]
Modulus(bits)  == 2 ^ bits
HexChar        == [d \in 0 .. 15 |-> <<"0", "1", "2", "3", "4", "5", "6", "7",
                     "8", "9", "A", "B", "C", "D", "E", "F">>[d + 1]]
Lower(c)       == CASE c = "A" -> "a" [] c = "B" -> "b" [] c = "C" -> "c"
                    [] c = "D" -> "d" [] c = "E" -> "e" [] c = "F" -> "f"
                    [] c = "X" -> "x" [] OTHER -> c

\* The digits of num, lowest first: put_dec, or the loop of shifts.
Shifted(num, base) ==
    LET shift == IF base = 16 THEN 4 ELSE 3
        n == 1 + Cardinality({k \in 1 .. LONG_BITS \div shift :
                                  num \div base ^ k > 0})
    IN  [k \in 1 .. n |-> (num \div base ^ (k - 1)) % base]
Digits(num, base) == IF num < base THEN <<num>>
                     ELSE IF base = 10 THEN put_dec(num) ELSE Shifted(num, base)

Negative(num, s) == "SIGN" \in s.flags /\ num >= Modulus(LONG_BITS - 1)
Magnitude(num, s) == IF Negative(num, s) THEN Modulus(LONG_BITS) - num ELSE num
Sign(num, s) ==
    CASE "SIGN" \notin s.flags -> <<>>
      [] Negative(num, s)      -> <<"-">>
      [] OTHER -> IF "PLUS" \in s.flags THEN <<"+">>
                  ELSE IF "SPACE" \in s.flags THEN <<" ">> ELSE <<>>
Prefix(num, s) ==
    IF "SPECIAL" \notin s.flags \/ s.base = 10 THEN <<>>
    ELSE IF s.base = 16
      THEN <<"0", IF "SMALL" \in s.flags THEN "x" ELSE "X">>
    ELSE IF num # 0 THEN <<"0">> ELSE <<>>
Written(ds, s) ==
    [k \in 1 .. Len(ds) |-> IF "SMALL" \in s.flags THEN Lower(HexChar[ds[k]])
                                                  ELSE HexChar[ds[k]]]

\* The padding loop before the sign counts width down first: it writes one
\* space less than are missing and leaves no width to the loops behind it.
number(num, s) ==
    LET tmp   == Digits(Magnitude(num, s), s.base)
        prec  == Big(Len(tmp), s.precision)
        width == s.field_width - Len(Sign(num, s)) - Len(Prefix(num, s)) - prec
        left  == "LEFT" \in s.flags
        zero  == "ZEROPAD" \in s.flags /\ ~left
    IN  (IF left \/ zero THEN <<>> ELSE Run(" ", width - 1))
          \o Sign(num, s) \o Prefix(num, s)
          \o (IF zero THEN Run("0", width) ELSE <<>>)
          \o Run("0", prec - Len(tmp))
          \o Reverse(Written(tmp, s))
          \o (IF left THEN Run(" ", width) ELSE <<>>)

\* What va_arg and the conversion to unsigned long long make of an argument.
Extended(v, bits) ==
    LET u == v % Modulus(bits)
    IN  (IF u < Modulus(bits - 1) THEN u ELSE u - Modulus(bits))
          % Modulus(LONG_BITS)
Num(v, type) ==
    CASE type = "UBYTE"  -> v % Modulus(CHAR_BITS)
      [] type = "BYTE"   -> Extended(v, CHAR_BITS)
      [] type = "USHORT" -> v % Modulus(SHRT_BITS)
      [] type = "SHORT"  -> Extended(v, SHRT_BITS)
      [] type = "UINT"   -> v % Modulus(INT_BITS)
      [] type = "INT"    -> Extended(v, INT_BITS)
      [] OTHER           -> v % Modulus(LONG_BITS)

pointer_string(v, s) ==
    number(Num(v, "ULONG"),
           [s EXCEPT !.base = 16,
                     !.flags = @ \cup {"SMALL"} \cup
                         (IF s.field_width = -1 THEN {"ZEROPAD"} ELSE {}),
                     !.field_width = IF @ = -1 THEN field_width_of(LONG_BITS \div 4)
                                               ELSE @])

-----------------------------------------------------------------------------
(* The buffer                                                              *)

\* Mutant: no check of end.
Put_past_end(buf, a, txt) ==
    [k \in Index \cup (a .. a + Len(txt) - 1) |->
        IF k \in a .. a + Len(txt) - 1 THEN txt[k - a + 1] ELSE buf[k]]

\* buf with txt from place a on: characters from end on are counted only.
Put(buf, a, txt) ==
    [k \in Index |-> IF k \in a .. a + Len(txt) - 1 THEN txt[k - a + 1]
                                                    ELSE buf[k]]

\* Mutant: a full buffer keeps the text where it is.
move_right_full(buf, a, len, spaces) ==
    IF a >= SIZE \/ SIZE - a <= spaces THEN buf
    ELSE LET moved == IF len > SIZE - a - spaces THEN SIZE - a - spaces ELSE len
         IN  Put(Put(buf, a + spaces, [k \in 1 .. moved |-> buf[a + k - 1]]),
                 a, Run(" ", spaces))

\* The text of len characters at a moves right, as far as there is room.
move_right(buf, a, len, spaces) ==
    IF a >= SIZE THEN buf
    ELSE IF SIZE - a <= spaces THEN Put(buf, a, Run(" ", SIZE - a))
    ELSE LET moved == IF len > SIZE - a - spaces THEN SIZE - a - spaces ELSE len
         IN  Put(Put(buf, a + spaces, [k \in 1 .. moved |-> buf[a + k - 1]]),
                 a, Run(" ", spaces))

\* The n characters before b are padded to the width.
widen_string(buf, b, n, s) ==
    IF n > s.field_width THEN buf
    ELSE IF "LEFT" \in s.flags THEN Put(buf, b, Run(" ", s.field_width - n))
    ELSE move_right(buf, b - n, n, s.field_width - n)

\* At most precision characters of a string, all of it without a precision.
Limited(txt, s) == IF s.precision >= 0 /\ s.precision < Len(txt)
                     THEN SubSeq(txt, 1, s.precision) ELSE txt
string(buf, b, txt, s) ==
    LET t == Limited(txt, s)
    IN  widen_string(Put(buf, b, t), b + Len(t), Len(t), s)

-----------------------------------------------------------------------------
(* vsnprintf, one iteration of its loop per action                         *)

Directive(types) ==
    /\ pc = "format" /\ pos <= Len(call.fmt)
    /\ LET d == format_decode(call.fmt, pos, spec)
       IN  d.spec.type \in types
Decoded == format_decode(call.fmt, pos, spec)
Arg     == call.args[arg]

\* The argument as one of type S; where the caller passed none of that type,
\* what it reads is undefined.
va_arg(S) == IF arg \in DOMAIN call.args /\ Arg \in S THEN {Arg} ELSE S

\* The characters txt, each written if there is room for it.
Emit(txt) == /\ p_buf' = Put(p_buf, str, txt)
             /\ str' = str + Len(txt)
             /\ text' = text \o txt

literal ==
    /\ Directive({"NONE"})
    /\ pos' = Decoded.next /\ spec' = Decoded.spec
    /\ Emit(SubSeq(call.fmt, pos, Decoded.next - 1))
    /\ UNCHANGED <<call, pc, arg, output>>

\* Mutant: the flags do not survive a width from an argument.
set_field_width_resets ==
    /\ Directive({"WIDTH"})
    /\ pos' = Decoded.next /\ arg' = arg + 1
    /\ \E w \in va_arg(Int) :
          spec' = [Decoded.spec EXCEPT !.field_width = field_width_of(w), !.flags = {}]
    /\ UNCHANGED <<call, pc, p_buf, str, text, output>>

set_field_width ==
    /\ Directive({"WIDTH"})
    /\ pos' = Decoded.next /\ arg' = arg + 1
    /\ \E w \in va_arg(Int) :
          spec' = [Decoded.spec EXCEPT !.field_width = field_width_of(w)]
    /\ UNCHANGED <<call, pc, p_buf, str, text, output>>

set_precision ==
    /\ Directive({"PRECISION"})
    /\ pos' = Decoded.next /\ arg' = arg + 1
    /\ \E p \in va_arg(Int) :
          spec' = [Decoded.spec EXCEPT !.precision = precision_of(p)]
    /\ UNCHANGED <<call, pc, p_buf, str, text, output>>

\* The loop while (--field_width > 0) writes this many spaces, of which the
\* lowest width makes the longest run, and leaves this width.
Spaces(w) == Big(field_width_of(w - 1), 0)
Spent(w)  == IF Spaces(w) > 0 THEN 0 ELSE field_width_of(w - 1)

char ==
    /\ Directive({"CHAR"})
    /\ pos' = Decoded.next /\ arg' = arg + 1
    /\ LET width == Decoded.spec.field_width
           left  == "LEFT" \in Decoded.spec.flags
           rest  == IF left THEN width ELSE Spent(width)
       IN  /\ spec' = [Decoded.spec EXCEPT !.field_width = Spent(rest)]
           /\ \E c \in va_arg(STRING) :
                 Emit((IF left THEN <<>> ELSE Run(" ", Spaces(width)))
                        \o <<c>> \o Run(" ", Spaces(rest)))
    /\ UNCHANGED <<call, pc, output>>

\* The pads of a string are what its width misses, before it or, if LEFT,
\* behind it.
str_arg ==
    /\ Directive({"STR"})
    /\ pos' = Decoded.next /\ spec' = Decoded.spec /\ arg' = arg + 1
    /\ \E txt \in va_arg(Seq(STRING)) :
          LET s   == Decoded.spec
              t   == Limited(txt, s)
              pad == Run(" ", s.field_width - Len(t))
          IN  /\ p_buf' = string(p_buf, str, txt, s)
              /\ str' = str + Len(t) + Len(pad)
              /\ text' = text \o IF "LEFT" \in s.flags THEN t \o pad ELSE pad \o t
    /\ UNCHANGED <<call, pc, output>>

\* Letters and digits right behind %p are swallowed.
pointer ==
    /\ Directive({"PTR"})
    /\ pos' = Skip(call.fmt, Decoded.next, AlNum)
    /\ spec' = Decoded.spec /\ arg' = arg + 1
    /\ \E v \in va_arg(Int) : Emit(pointer_string(v, Decoded.spec))
    /\ UNCHANGED <<call, pc, output>>

percent ==
    /\ Directive({"PERCENT_CHAR"})
    /\ pos' = Decoded.next /\ spec' = Decoded.spec
    /\ Emit(<<"%">>)
    /\ UNCHANGED <<call, pc, arg, output>>

integer ==
    /\ Directive(Type \ {"NONE", "WIDTH", "PRECISION", "CHAR", "STR", "PTR",
                         "PERCENT_CHAR", "INVALID"})
    /\ pos' = Decoded.next /\ spec' = Decoded.spec /\ arg' = arg + 1
    /\ \E v \in va_arg(Int) :
          Emit(number(Num(v, Decoded.spec.type), Decoded.spec))
    /\ UNCHANGED <<call, pc, output>>

\* The end of the format, or a directive that is none.
Ends == \/ pos > Len(call.fmt) \/ Directive({"INVALID"})

\* Mutant: a full buffer is not terminated.
vsnprintf_end_full ==
    /\ pc = "format" /\ Ends
    /\ p_buf' = Put(p_buf, str, <<NUL>>)
    /\ pc' = "console" /\ sent' = 0 /\ uart' = <<>>
    /\ UNCHANGED <<call, pos, arg, spec, str, text, uart_console>>

vsnprintf_end ==
    /\ pc = "format" /\ Ends
    /\ p_buf' = Put(p_buf, IF str < SIZE THEN str ELSE SIZE - 1, <<NUL>>)
    /\ pc' = "console" /\ sent' = 0 /\ uart' = <<>>
    /\ UNCHANGED <<call, pos, arg, spec, str, text, uart_console>>

-----------------------------------------------------------------------------
(* vprintk and the console                                                 *)

\* p_buf is a fresh array on the stack.
printk(c) ==
    /\ pc = "idle" /\ pc' = "format"
    /\ call' = c /\ pos' = 1 /\ arg' = 1
    /\ spec' = [type |-> "NONE", field_width |-> 0, flags |-> {}, base |-> 0,
                precision |-> 0]
    /\ p_buf' = [k \in Index |-> Unset] /\ str' = 0 /\ text' = <<>>
    /\ sent' = 0 /\ uart' = <<>>
    /\ UNCHANGED uart_console

\* Mutant: a line feed goes out alone.
qemu_console_write_lf ==
    /\ pc = "console" /\ uart_console /\ sent < str
    /\ uart' = Append(uart, IF sent \in Index THEN p_buf[sent] ELSE Unset)
    /\ sent' = sent + 1
    /\ UNCHANGED <<call, pc, pos, arg, spec, p_buf, str, text, uart_console>>

\* All of the length that vsnprintf returned, behind the buffer if it is
\* longer: what lies there is not known.
qemu_console_write ==
    /\ pc = "console" /\ uart_console /\ sent < str
    /\ LET c == IF sent \in Index THEN p_buf[sent] ELSE Unset
       IN  uart' = uart \o IF c = LF THEN <<CR, LF>> ELSE <<c>>
    /\ sent' = sent + 1
    /\ UNCHANGED <<call, pc, pos, arg, spec, p_buf, str, text, uart_console>>

\* Without a console console_write drops the text.
printk_return ==
    /\ pc = "console" /\ (sent = str \/ ~uart_console)
    /\ pc' = "idle"
    /\ UNCHANGED <<call, pos, arg, spec, p_buf, str, text, output>>

\* Its only console is called qemu and has no init of its own.
console_init ==
    /\ pc = "idle" /\ uart_console' = TRUE
    /\ UNCHANGED <<call, pc, pos, arg, spec, p_buf, str, text, sent, uart>>

Init ==
    /\ call \in Calls /\ pc = "idle" /\ pos = 1 /\ arg = 1
    /\ spec = [type |-> "NONE", field_width |-> 0, flags |-> {}, base |-> 0,
               precision |-> 0]
    /\ p_buf = [k \in Index |-> Unset] /\ str = 0 /\ text = <<>>
    /\ sent = 0 /\ uart_console = FALSE /\ uart = <<>>

vsnprintf == \/ literal \/ set_field_width \/ set_precision \/ char
             \/ str_arg \/ pointer \/ percent \/ integer \/ vsnprintf_end
Next == \/ \E c \in Calls : printk(c)
        \/ console_init \/ vsnprintf \/ qemu_console_write \/ printk_return
Spec == Init /\ [][Next]_vars

-----------------------------------------------------------------------------
(* Properties                                                              *)
\* Wherever the buffer ends, in a pad, in a string that is being moved to the
\* right, between two directives: it holds the text up to there and is not
\* touched further on, and str counts the text as if there were room.  What
\* vsnprintf leaves is always a string: the text and a NUL, cut to fit.
BufferHoldsText ==
    /\ pc = "format" =>
         /\ str = Len(text)
         /\ \A k \in Index : p_buf[k] = IF k < str THEN text[k + 1] ELSE Unset
    /\ pc = "console" =>
         \E n \in Index : /\ p_buf[n] = NUL
                          /\ n = IF str < SIZE THEN str ELSE SIZE - 1
                          /\ \A k \in 0 .. n - 1 : p_buf[k] = text[k + 1]

\* Once there is a console, the UART has received what the call stands for, a
\* carriage return before every line feed; of a text that does not fit p_buf
\* only what fits is sure.
ConsoleShows ==
    pc = "console" /\ uart_console /\ sent = str =>
        LET sure  == SubSeq(text, 1, IF str < SIZE THEN str ELSE SIZE - 1)
            wired == FoldLeft(LAMBDA u, c : u \o IF c = LF THEN <<CR, LF>>
                                                           ELSE <<c>>,
                              <<>>, sure)
        IN  IF str < SIZE THEN uart = wired ELSE IsPrefix(wired, uart)
=============================================================================

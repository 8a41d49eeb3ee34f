----------------------------- MODULE PrintkText -----------------------------
(***************************************************************************)
(* What the comments of kernel/printk.c at the flags and at struct         *)
(* printf_spec say that a text and its conversions stand for, written from *)
(* what the author of a call means and not from how the code reads it.     *)
(* What is meant is a sequence of pieces:                                  *)
(*   [kind |-> "literal", txt]                                             *)
(*   [kind |-> "text", flags, width, precision, txt]           %s and %c   *)
(*   [kind |-> "integer", flags, width, precision, conv, bits, val]        *)
(*   [kind |-> "open"]       a rest of which the comments say nothing      *)
(* with the flags as in the format, and a precision of -1 if there is none.*)
(***************************************************************************)
EXTENDS Integers, Sequences

Spaces(n) == [k \in 1 .. n |-> " "]
Zeros(n)  == [k \in 1 .. n |-> "0"]

\* The digits of n, highest first.
RECURSIVE Digits(_, _)
Digits(n, base) == IF n < base THEN <<n>>
                   ELSE Append(Digits(n \div base, base), n % base)

Base(p)  == CASE p.conv = "o" -> 8 [] p.conv \in {"x", "X"} -> 16 [] OTHER -> 10
Small    == <<"0", "1", "2", "3", "4", "5", "6", "7", "8", "9", "a", "b", "c",
              "d", "e", "f">>
Large    == <<"0", "1", "2", "3", "4", "5", "6", "7", "8", "9", "A", "B", "C",
              "D", "E", "F">>
Glyph(p, d) == IF p.conv = "X" THEN Large[d + 1] ELSE Small[d + 1]

\* val as the integer type of p.bits bits that the conversion names holds it.
HasSign(p) == p.conv \in {"d", "i"}
Value(p) ==
    LET low == p.val % 2 ^ p.bits
    IN  IF HasSign(p) /\ low >= 2 ^ (p.bits - 1) THEN low - 2 ^ p.bits ELSE low

\* PLUS "show plus", SPACE "space if plus", SPECIAL "prefix hex with "0x",
\* octal with "0"".
Lead(p) ==
    CASE HasSign(p) /\ Value(p) < 0 -> <<"-">>
      [] HasSign(p) /\ Value(p) >= 0 ->
             IF "+" \in p.flags THEN <<"+">>
             ELSE IF " " \in p.flags THEN <<" ">> ELSE <<>>
      [] p.conv \in {"x", "X"} /\ "#" \in p.flags -> <<"0", p.conv>>
      [] p.conv = "o" /\ "#" \in p.flags /\ Value(p) # 0 -> <<"0">>
      [] OTHER -> <<>>

\* "# of digits/chars": at least so many digits.
Number(p) ==
    LET abs == IF Value(p) < 0 THEN -Value(p) ELSE Value(p)
        ds  == Digits(abs, Base(p))
    IN  Zeros(p.precision - Len(ds)) \o [k \in DOMAIN ds |-> Glyph(p, ds[k])]

\* LEFT "left justified", ZEROPAD "pad with zero", and spaces in front
\* otherwise, of which this says only that they do not exceed the width.
IntegerTexts(p) ==
    LET text == Lead(p) \o Number(p)
        gap  == p.width - Len(text)
    IN  CASE "-" \in p.flags -> {text \o Spaces(gap)}
          [] "0" \in p.flags /\ "-" \notin p.flags ->
                 {Lead(p) \o Zeros(gap) \o Number(p)}
          [] OTHER -> {text} \cup {Spaces(k) \o text : k \in 1 .. gap}

\* ... of a string at most so many chars, and all the spaces of the width.
StringTexts(p) ==
    LET text == IF p.precision \in 0 .. Len(p.txt)
                  THEN SubSeq(p.txt, 1, p.precision) ELSE p.txt
        gap  == p.width - Len(text)
    IN  {IF "-" \in p.flags THEN text \o Spaces(gap) ELSE Spaces(gap) \o text}

Texts(p) == CASE p.kind = "literal" -> {p.txt}
              [] p.kind = "text"    -> StringTexts(p)
              [] p.kind = "integer" -> IntegerTexts(p)

\* txt is what the pieces ps stand for, one after the other.
RECURSIVE Reads(_, _)
Reads(txt, ps) ==
    IF ps = <<>> THEN txt = <<>>
    ELSE \/ Head(ps).kind = "open"
         \/ /\ Head(ps).kind # "open"
            /\ \E t \in Texts(Head(ps)) :
                  /\ Len(t) <= Len(txt) /\ t = SubSeq(txt, 1, Len(t))
                  /\ Reads(SubSeq(txt, Len(t) + 1, Len(txt)), Tail(ps))
=============================================================================

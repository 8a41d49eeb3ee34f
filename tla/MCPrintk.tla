------------------------------ MODULE MCPrintk ------------------------------
(* Calls of printk that meet each directive, flag and qualifier, widths    *)
(* below, at and above the text and at the ends of their bit-fields, and   *)
(* ends of the buffer at every place.  Each call says with means, a        *)
(* sequence of pieces of PrintkText, what its author wants to see.         *)
EXTENDS Printk

M == INSTANCE PrintkText

-----------------------------------------------------------------------------
(* Calls                                                                   *)

Literal(t) == [fmt |-> t, args |-> <<>>,
               means |-> <<[kind |-> "literal", txt |-> t]>>]

\* What a width or precision is written as, and what it means.
None    == [txt |-> <<>>, width |-> 0, precision |-> -1]
Size(t, w, p) == [txt |-> t, width |-> w, precision |-> p]

Bits(q) == CASE q = <<"h">> -> SHRT_BITS [] q = <<"h", "h">> -> CHAR_BITS
             [] q \in {<<>>, <<"t">>} -> INT_BITS [] OTHER -> LONG_BITS

\* An integer directive with flags f, size s, qualifier q and conversion c.
Integer(f, s, q, c, v) ==
    [fmt |-> <<"%">> \o f \o s.txt \o q \o <<c>>, args |-> <<v>>,
     means |-> <<[kind |-> "integer", flags |-> ToSet(f), width |-> s.width,
                  precision |-> s.precision, conv |-> c, bits |-> Bits(q),
                  val |-> v]>>]
\* %s, and %c for a single character that is passed as such.
String(f, s, t) ==
    [fmt |-> <<"%">> \o f \o s.txt \o <<"s">>, args |-> <<t>>,
     means |-> <<[kind |-> "text", flags |-> ToSet(f), width |-> s.width,
                  precision |-> s.precision, txt |-> t]>>]
Char(f, s, c) == [String(f, s, <<c>>) EXCEPT
                    !.fmt = <<"%">> \o f \o s.txt \o <<"c">>, !.args = <<c>>]
Pointer(f, s, v) ==
    [Integer(f, s, <<"l">>, "x", v) EXCEPT
        !.fmt = <<"%">> \o f \o s.txt \o <<"p">>]

\* A call whose sizes are stars, passed before the argument.
Starred(c, sizes) == [c EXCEPT !.args = sizes \o @]
Join(c, d) == [fmt |-> c.fmt \o d.fmt, args |-> c.args \o d.args,
               means |-> c.means \o d.means]

FlagSeqs == {<<>>, <<"-">>, <<"0">>, <<"+">>, <<" ">>, <<"#">>, <<"-", "0">>,
             <<"+", "0">>, <<"#", "0">>, <<"#", "-">>}
Sizes == {None, Size(<<"3">>, 3, -1), Size(<<"6">>, 6, -1),
          Size(<<".", "4">>, 0, 4), Size(<<"6", ".", "2">>, 6, 2),
          Size(<<"1", "5">>, 15, -1)}
Convs == {"d", "u", "x", "X", "o"}
Ints  == {Integer(f, s, <<>>, c, v) :
            f \in FlagSeqs, s \in Sizes, c \in Convs, v \in {7, -42}} \cup
         {Integer(f, s, <<>>, c, 0) :
            f \in {<<>>, <<"0">>, <<"#">>}, c \in Convs,
            s \in {None, Size(<<"6">>, 6, -1), Size(<<".", "4">>, 0, 4)}}

\* Every qualifier, with values that it cuts and that put_dec cuts in two.
Quals == {<<>>, <<"h">>, <<"h", "h">>, <<"l">>, <<"l", "l">>, <<"L">>, <<"z">>,
          <<"t">>}
Longs == {Integer(<<>>, None, q, c, v) : q \in Quals, c \in {"i", "u", "x"},
            v \in {300, 90909, 100000042, 500090909}} \cup
         {Integer(<<>>, None, q, c, v) : q \in Quals, c \in {"i", "x"},
            v \in {-1, -100000042}} \cup
         {Integer(<<>>, None, q, "u", -1) : q \in {<<"h">>, <<"h", "h">>}}

\* Strings and characters padded on both sides, cut, and at the end of p_buf.
Fronts  == {<<>>, <<"a", "b">>, <<"a", "b", "c", "d", "a", "b", "c">>}
Strings == {Join(Join(Literal(front), String(f, s, t)), Literal(<<"k">>)) :
              front \in Fronts, f \in {<<>>, <<"-">>},
              s \in {None, Size(<<"4">>, 4, -1), Size(<<"8">>, 8, -1),
                     Size(<<".", "1">>, 0, 1), Size(<<"5", ".", "2">>, 5, 2)},
              t \in {<<>>, <<"x", LF, "d">>}}
Three   == Size(<<"3">>, 3, -1)
Percent == [Literal(<<"%">>) EXCEPT !.fmt = <<"%", "%">>]
Chars   == {Join(Char(<<>>, Three, "a"), Char(<<>>, None, "b")),
            Join(Char(<<"-">>, Three, "a"), Literal(<<LF>>)),
            Join(Percent, Char(<<>>, None, "b"))}

\* Widths and precisions from arguments: one that is negative means LEFT.
Star(f, w)   == Starred(Integer(f, Size(<<"*">>, w, -1), <<>>, "d", 7), <<w>>)
StarLeft(w)  == [Starred(Integer(<<"-">>, Size(<<"*">>, w, -1), <<>>, "d", 7),
                         <<-w>>) EXCEPT !.fmt = <<"%", "*", "d">>]
StarDigits(p) == Starred(Integer(<<>>, Size(<<".", "*">>, 0, p), <<>>, "d", 7),
                         <<p>>)
StarBoth(f, w, p) ==
    Starred(String(f, Size(<<"*", ".", "*">>, w, p), <<"a", "b", "c">>), <<w, p>>)
Stars == {Star(f, w) : f \in {<<>>, <<"-">>, <<"0">>}, w \in {0, 4}} \cup
         {StarLeft(4)} \cup {StarDigits(p) : p \in {-1, 3}} \cup
         {StarBoth(f, 5, 2) : f \in {<<>>, <<"-">>}}

\* Two directives, the first with flags, sizes, a base or a sign that must
\* not outlive it.
Marked == {Integer(<<"-">>, Three, <<>>, "d", 7), Integer(<<"0">>, Three, <<>>, "d", -4),
           Integer(<<"+">>, None, <<>>, "i", 4), Integer(<<"#">>, None, <<"h">>, "x", 300),
           Integer(<<>>, Size(<<".", "2">>, 0, 2), <<>>, "o", 8),
           String(<<>>, Size(<<".", "1">>, 0, 1), <<"a", "b">>),
           Char(<<"-">>, Three, "c")} \cup Stars
Plain  == {Integer(<<>>, None, <<>>, c, 42) : c \in {"d", "u", "x"}} \cup
          {String(<<>>, None, <<"a", "b">>), Char(<<>>, None, "c")}
Pairs  == {Join(c, d) : c \in Marked, d \in Plain \cup Stars}

\* Pointers: all their digits unless there is a width; letters and digits
\* behind them are swallowed.
Pointers ==
    LET swallowed == [Literal(<<" ", "k">>) EXCEPT !.fmt = <<"x", " ", "k">>]
        digits    == LONG_BITS \div 4
    IN  {Join(p, swallowed) : p \in UNION
           {{[Pointer(<<"0">>, Size(<<>>, digits, -1), v) EXCEPT !.fmt = <<"%", "p">>],
             Pointer(<<>>, Size(<<"6">>, 6, -1), v),
             Pointer(<<"-">>, Size(<<"6">>, 6, -1), v)} : v \in {0, 48879}}}

\* A directive that is none ends the text.
Broken == {Literal(<<>>), Literal(<<LF>>)} \cup
          {[Literal(<<"a">>) EXCEPT !.fmt = <<"a", "%">>],
           [Literal(<<>>) EXCEPT !.fmt = <<"%", "n", "k">>],
           [Literal(<<>>) EXCEPT !.fmt = <<"%", "5", "k">>]}

\* Sizes that their bit-fields cannot hold.
Unsaid(f, a) == [fmt |-> f, args |-> a, means |-> <<[kind |-> "open"]>>]
Beyond ==
    {Unsaid(<<"%">> \o f \o w \o <<"c">>, <<"a">>) : f \in {<<>>, <<"-">>},
        w \in {<<"1", "6">>, <<"1", "7">>, <<"4", "0">>}} \cup
    {Unsaid(<<"%">> \o w \o <<"d">>, <<7>>) :
        w \in {<<"1", "6">>, <<".", "9">>, <<"3", "1", "p">>}} \cup
    {Unsaid(<<"%", "*", "c">>, <<w, "a">>) : w \in {-17, -16, 16, 40}} \cup
    {Unsaid(<<"%", ".", "*", "s">>, <<p, <<"a", "b">> >>) : p \in {8, 17}}

MCCalls == Ints \cup Longs \cup Strings \cup Chars \cup Stars \cup Pairs
             \cup Pointers \cup Broken \cup Beyond
RightJustified == {Integer(<<>>, s, <<>>, "d", 7) : s \in Sizes}

-----------------------------------------------------------------------------
(* Properties                                                              *)

\* What printk writes is what its author meant by the format and arguments,
\* directive by directive: flags, width and precision from the format or from
\* arguments, prefix, sign, digits, and nothing left over from the directive
\* before.  Of the spaces in front of an integer see FullWidth.
TextMeant == pc = "console" => M!Reads(text, call.means)

\* struct printf_spec, "width of output field": an integer fills its field.
FullWidth ==
    pc = "console" => \/ call.means[1].kind # "integer"
                      \/ Len(text) >= call.means[1].width
=============================================================================

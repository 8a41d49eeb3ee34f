---------------------------- MODULE PrintkProofs ----------------------------
(***************************************************************************)
(* What vsnprintf leaves in p_buf is the text, cut to fit, for every       *)
(* format, argument and size of the buffer, and the UART receives it;      *)
(* put_dec, which divides by multiplying, writes the decimal digits of     *)
(* every value of 64 bits.                                                 *)
(***************************************************************************)
EXTENDS Printk, TLAPS, FiniteSetTheorems, SequenceTheorems, WellFoundedInduction

-----------------------------------------------------------------------------
(* put_dec                                                                 *)

\* The sum of halves is the high word of the 64-bit product of the code.
LEMMA Halves ==
    ASSUME NEW r \in Nat
    PROVE  Hi32(r) = (r * 42949673) \div 4294967296
<1> DEFINE low == r * 23593
           sum == r * 655 + low \div 65536
<1>1. r * 42949673 = 65536 * (r * 655) + low
  BY SMT
<1>2. (r * 42949673) \div 65536 = sum
  BY SMT, <1>1
<1>3. (r * 42949673) \div 4294967296 = sum \div 65536
  <2>1. \A n \in Nat : n \div 4294967296 = (n \div 65536) \div 65536
    BY SMTT(30)
  <2> QED BY SMT, <1>2, <2>1
<1> QED BY SMT, <1>3 DEF Hi32

\* (r * 0x28f5c29) >> 32 is r / 100 for every r below 10^8: the rounding of
\* the reciprocal never reaches the next integer.
THEOREM HundredthExact ==
    ASSUME NEW r \in Nat, r < Chunk
    PROVE  Hi32(r) = r \div 100
<1>1. PICK q \in Nat, s \in Nat :
          q = r \div 100 /\ r = 100 * q + s /\ q < 1000000 /\ s < 100
  <2>1. r \div 100 \in Nat /\ r % 100 \in Nat /\ r % 100 < 100
    BY SMT
  <2>2. r = 100 * (r \div 100) + (r % 100)
    BY SMT
  <2>3. r \div 100 < 1000000
    BY SMT, <2>1, <2>2 DEF Chunk
  <2> QED BY SMT, <2>1, <2>2, <2>3
<1>2. r * 42949673 = 4294967296 * q + (4 * q + s * 42949673)
  BY SMT, <1>1
<1>3. 4 * q + s * 42949673 \in Nat /\ 4 * q + s * 42949673 < 4294967296
  BY SMT, <1>1
<1>4. ASSUME NEW e \in Nat, e < 4294967296
      PROVE  (4294967296 * q + e) \div 4294967296 = q
  BY SMTT(30), <1>4
<1>5. (r * 42949673) \div 4294967296 = q
  BY SMT, <1>2, <1>3, <1>4
<1> QED BY SMT, <1>1, <1>5, Halves

\* (r * 0x147b) >> 19 is r / 100 for every r below 10^4.
THEOREM ShortHundredthExact ==
    ASSUME NEW r \in Nat, r < 10000
    PROVE  Hi19(r) = r \div 100
BY SMTT(30) DEF Hi19

-----------------------------------------------------------------------------
(* Texts                                                                   *)

\* A sequence, whatever its elements.
Text(t) == \E S : t \in Seq(S)

LEMMA TextIs ==
    ASSUME NEW t, Text(t)
    PROVE  Len(t) \in Nat /\ t = [k \in 1 .. Len(t) |-> t[k]]
<1>1. PICK S : t \in Seq(S)
  BY DEF Text
<1> QED BY <1>1, LenProperties

\* A function on 1 .. n is a text of n characters.
LEMMA IsText ==
    ASSUME NEW n \in Nat, NEW t, t = [k \in 1 .. n |-> t[k]]
    PROVE  Text(t) /\ Len(t) = n
<1> DEFINE S == {t[k] : k \in 1 .. n}
<1>1. t \in [1 .. n -> S]
  OBVIOUS
<1>2. t \in Seq(S) /\ Len(t) = n
  BY <1>1
<1> QED BY <1>2 DEF Text

LEMMA Joined ==
    ASSUME NEW s, NEW t, Text(s), Text(t)
    PROVE  /\ Text(s \o t) /\ Len(s) \in Nat /\ Len(t) \in Nat
           /\ Len(s \o t) = Len(s) + Len(t)
           /\ \A i \in 1 .. Len(s) + Len(t) :
                  (s \o t)[i] = IF i <= Len(s) THEN s[i] ELSE t[i - Len(s)]
<1>1. PICK S : s \in Seq(S)
  BY DEF Text
<1>2. PICK T : t \in Seq(T)
  BY DEF Text
<1>3. s \in Seq(S \cup T) /\ t \in Seq(S \cup T)
  BY <1>1, <1>2, SeqMonotonic
<1>4. /\ s \o t \in Seq(S \cup T) /\ Len(s \o t) = Len(s) + Len(t)
      /\ \A i \in 1 .. Len(s) + Len(t) :
             (s \o t)[i] = IF i <= Len(s) THEN s[i] ELSE t[i - Len(s)]
  BY <1>3, ConcatProperties
<1> QED BY <1>3, <1>4, LenProperties DEF Text

LEMMA Tuples ==
    /\ Text(<<>>) /\ Len(<<>>) = 0
    /\ \A a : Text(<<a>>) /\ Len(<<a>>) = 1 /\ <<a>>[1] = a
    /\ \A a, b : Text(<<a, b>>)
<1>1. <<>> \in Seq({}) /\ Len(<<>>) = 0
  BY EmptySeq
<1>2. \A a : <<a>> \in Seq({a}) /\ Len(<<a>>) = 1 /\ <<a>>[1] = a
  OBVIOUS
<1>3. \A a, b : <<a, b>> \in Seq({a, b})
  OBVIOUS
<1> QED BY <1>1, <1>2, <1>3 DEF Text

LEMMA RunIs ==
    ASSUME NEW c, NEW n \in Int
    PROVE  /\ Text(Run(c, n)) /\ Len(Run(c, n)) = Big(n, 0) /\ Big(n, 0) \in Nat
           /\ \A k \in 1 .. Big(n, 0) : Run(c, n)[k] = c
<1>1. Big(n, 0) \in Nat
  BY DEF Big
<1>2. Run(c, n) = [k \in 1 .. Big(n, 0) |-> c]
  BY DEF Run
<1>3. Run(c, n) = [k \in 1 .. Big(n, 0) |-> Run(c, n)[k]]
  BY <1>2
<1> QED BY <1>1, <1>2, <1>3, IsText

LEMMA TextPart ==
    ASSUME NEW t, Text(t), NEW a \in Nat \ {0}, NEW b \in 0 .. Len(t), a <= b + 1
    PROVE  /\ Text(SubSeq(t, a, b)) /\ Len(SubSeq(t, a, b)) = b - a + 1
           /\ \A i \in 1 .. b - a + 1 : SubSeq(t, a, b)[i] = t[a + i - 1]
<1>1. PICK S : t \in Seq(S)
  BY DEF Text
<1>2. Len(t) \in Nat /\ \A i \in a .. b : t[i] \in S
  BY <1>1, ElementOfSeq, LenProperties
<1>3. /\ SubSeq(t, a, b) \in Seq(S)
      /\ Len(SubSeq(t, a, b)) = IF a <= b THEN b - a + 1 ELSE 0
      /\ \A i \in 1 .. b - a + 1 : SubSeq(t, a, b)[i] = t[a + i - 1]
  BY <1>2, SubSeqProperties
<1> QED BY <1>2, <1>3 DEF Text

LEMMA FrontIs ==
    ASSUME NEW t, Text(t), NEW n \in 0 .. Len(t)
    PROVE  /\ Text(SubSeq(t, 1, n)) /\ Len(SubSeq(t, 1, n)) = n
           /\ \A i \in 1 .. n : SubSeq(t, 1, n)[i] = t[i]
<1>1. n \in Nat /\ 1 \in Nat \ {0} /\ 1 <= n + 1 /\ n - 1 + 1 = n
  BY TextIs
<1>2. /\ Text(SubSeq(t, 1, n)) /\ Len(SubSeq(t, 1, n)) = n - 1 + 1
      /\ \A i \in 1 .. n - 1 + 1 : SubSeq(t, 1, n)[i] = t[1 + i - 1]
  BY <1>1, TextPart
<1>3. \A i \in 1 .. n : 1 + i - 1 = i
  BY <1>1
<1> QED BY <1>1, <1>2, <1>3

-----------------------------------------------------------------------------
(* What number writes is a text                                            *)

LEMMA PairsAreTexts ==
    \A x : Text(Pair(x)) /\ Text(Top(x))
BY Tuples DEF Pair, Top

LEMMA TruncIsText ==
    ASSUME NEW r
    PROVE  Text(put_dec_trunc8(r)) /\ Text(put_dec_full8(r))
<1> DEFINE q2 == Hi32(r)
           q4 == Hi32(q2)
           q6 == Hi19(q4)
<1>1. /\ Text(Top(r))
      /\ Text(Pair(r - 100 * q2) \o Top(q2))
      /\ Text(Pair(r - 100 * q2) \o Pair(q2 - 100 * q4) \o Top(q4))
      /\ Text(Pair(r - 100 * q2) \o Pair(q2 - 100 * q4)
                \o Pair(q4 - 100 * q6) \o Top(q6))
      /\ Text(Pair(r - 100 * q2) \o Pair(q2 - 100 * q4)
                \o Pair(q4 - 100 * q6) \o Pair(q6))
  <2> HIDE DEF q2, q4, q6
  <2>1. Text(Pair(r - 100 * q2) \o Pair(q2 - 100 * q4))
    BY PairsAreTexts, Joined
  <2>2. Text(Pair(r - 100 * q2) \o Pair(q2 - 100 * q4) \o Pair(q4 - 100 * q6))
    BY <2>1, PairsAreTexts, Joined
  <2> QED BY <2>1, <2>2, PairsAreTexts, Joined
<1> DEFINE a1 == Top(r)
           a2 == Pair(r - 100 * q2) \o Top(q2)
           a3 == Pair(r - 100 * q2) \o Pair(q2 - 100 * q4) \o Top(q4)
           a4 == Pair(r - 100 * q2) \o Pair(q2 - 100 * q4)
                   \o Pair(q4 - 100 * q6) \o Top(q6)
<1>2. put_dec_trunc8(r) \in {a1, a2, a3, a4}
  <2>1. put_dec_trunc8(r) = CASE r < 100  -> a1
                              [] r >= 100 /\ q2 < 100 -> a2
                              [] r >= 100 /\ q2 >= 100 /\ q4 < 100 -> a3
                              [] OTHER -> a4
    BY DEF put_dec_trunc8
  <2> HIDE DEF a1, a2, a3, a4, q2, q4, q6
  <2> QED BY Zenon, <2>1
<1>3. Text(put_dec_full8(r))
  <2> DEFINE a5 == Pair(r - 100 * q2) \o Pair(q2 - 100 * q4)
                     \o Pair(q4 - 100 * q6) \o Pair(q6)
  <2>1. put_dec_full8(r) = a5
    BY DEF put_dec_full8
  <2>2. Text(a5)
    BY <1>1
  <2> HIDE DEF a5
  <2> QED BY <2>1, <2>2
<1>4. Text(put_dec_trunc8(r))
  <2>1. Text(a1) /\ Text(a2) /\ Text(a3) /\ Text(a4)
    BY <1>1
  <2> HIDE DEF a1, a2, a3, a4
  <2> QED BY <1>2, <2>1
<1> QED BY <1>3, <1>4

LEMMA DecIsText == \A n : Text(put_dec(n))
<1> SUFFICES ASSUME NEW n
             PROVE  Text(put_dec(n))
  OBVIOUS
<1> DEFINE m == n \div Chunk
<1>1. Text(put_dec_trunc8(n)) /\ Text(put_dec_trunc8(m))
      /\ Text(put_dec_trunc8(m \div Chunk))
      /\ Text(put_dec_full8(n % Chunk)) /\ Text(put_dec_full8(m % Chunk))
  BY TruncIsText
<1>2. Text(put_dec_full8(m % Chunk) \o put_dec_trunc8(m \div Chunk))
  BY <1>1, Joined
<1>3. put_dec(n) \in {put_dec_trunc8(n),
                      put_dec_full8(n % Chunk) \o put_dec_trunc8(m),
                      put_dec_full8(n % Chunk) \o
                        (put_dec_full8(m % Chunk) \o put_dec_trunc8(m \div Chunk))}
  BY DEF put_dec
<1> HIDE DEF m
<1> QED BY <1>1, <1>2, <1>3, Joined

LEMMA ShiftedIsText ==
    ASSUME NEW num, NEW base
    PROVE  Text(Shifted(num, base))
<1> DEFINE shift == IF base = 16 THEN 4 ELSE 3
           C == {k \in 1 .. LONG_BITS \div shift : num \div base ^ k > 0}
           n == 1 + Cardinality(C)
<1>1. LONG_BITS \div shift \in Int
  BY PrintkAssumption
<1>2. IsFiniteSet(1 .. LONG_BITS \div shift)
  BY <1>1, FS_Interval
<1>3. C \in SUBSET (1 .. LONG_BITS \div shift)
  OBVIOUS
<1> HIDE DEF C
<1>4. Cardinality(C) \in Nat
  BY <1>2, <1>3, FS_Subset, FS_CardinalityType
<1>5. n \in Nat
  BY <1>4
<1>6. Shifted(num, base) = [k \in 1 .. n |-> (num \div base ^ (k - 1)) % base]
  BY DEF Shifted, C
<1> HIDE DEF n
<1> QED BY <1>5, <1>6, IsText

LEMMA DigitsAreText ==
    ASSUME NEW num, NEW base
    PROVE  Text(Digits(num, base))
BY Tuples, DecIsText, ShiftedIsText DEF Digits

LEMMA WrittenIsText ==
    ASSUME NEW ds, Text(ds), NEW s
    PROVE  Text(Reverse(Written(ds, s)))
<1> DEFINE w == Written(ds, s)
<1>1. Len(ds) \in Nat
  BY TextIs
<1>2. w = [k \in 1 .. Len(ds) |-> w[k]]
  BY DEF Written
<1> HIDE DEF w
<1>3. Text(w) /\ Len(w) = Len(ds)
  BY <1>1, <1>2, IsText
<1>4. Reverse(w) = [i \in 1 .. Len(ds) |-> w[(Len(ds) - i) + 1]]
  BY <1>3 DEF Reverse
<1>5. Reverse(w) = [i \in 1 .. Len(ds) |-> Reverse(w)[i]]
  BY <1>4
<1> QED BY <1>1, <1>5, IsText DEF w

LEMMA LeadIsText ==
    ASSUME NEW num, NEW s
    PROVE  Text(Sign(num, s)) /\ Text(Prefix(num, s))
<1>1. Sign(num, s) \in {<<>>, <<"-">>, <<"+">>, <<" ">>}
  BY DEF Sign
<1>2. Prefix(num, s) \in {<<>>, <<"0", "x">>, <<"0", "X">>, <<"0">>}
  BY DEF Prefix
<1> QED BY <1>1, <1>2, Tuples

LEMMA NumberIsText ==
    ASSUME NEW num, NEW s, s.field_width \in Int, s.precision \in Int
    PROVE  Text(number(num, s))
<1> DEFINE tmp   == Digits(Magnitude(num, s), s.base)
           prec  == Big(Len(tmp), s.precision)
           width == s.field_width - Len(Sign(num, s)) - Len(Prefix(num, s)) - prec
           left  == "LEFT" \in s.flags
           zero  == "ZEROPAD" \in s.flags /\ ~left
           t1 == IF left \/ zero THEN <<>> ELSE Run(" ", width - 1)
           t2 == Sign(num, s)
           t3 == Prefix(num, s)
           t4 == IF zero THEN Run("0", width) ELSE <<>>
           t5 == Run("0", prec - Len(tmp))
           t6 == Reverse(Written(tmp, s))
           t7 == IF left THEN Run(" ", width) ELSE <<>>
<1>1. number(num, s) = t1 \o t2 \o t3 \o t4 \o t5 \o t6 \o t7
  BY DEF number
<1>2. Text(tmp) /\ Text(t2) /\ Text(t3) /\ Text(t6)
  BY DigitsAreText, LeadIsText, WrittenIsText
<1>3. Len(tmp) \in Nat /\ Len(t2) \in Nat /\ Len(t3) \in Nat
  BY <1>2, TextIs
<1> HIDE DEF tmp
<1>4. prec \in Int
  BY <1>3 DEF Big
<1> HIDE DEF prec
<1>5. width \in Int
  BY <1>3, <1>4
<1> HIDE DEF width
<1>6. width - 1 \in Int /\ prec - Len(tmp) \in Int
  BY <1>3, <1>4, <1>5
<1>7. Text(t1) /\ Text(t4) /\ Text(t5) /\ Text(t7)
  BY <1>5, <1>6, RunIs, Tuples
<1> HIDE DEF t1, t2, t3, t4, t5, t6, t7
<1>8. Text(t1 \o t2)
  BY <1>2, <1>7, Joined
<1>9. Text(t1 \o t2 \o t3)
  BY <1>2, <1>8, Joined
<1>10. Text(t1 \o t2 \o t3 \o t4)
  BY <1>7, <1>9, Joined
<1>11. Text(t1 \o t2 \o t3 \o t4 \o t5)
  BY <1>7, <1>10, Joined
<1>12. Text(t1 \o t2 \o t3 \o t4 \o t5 \o t6)
  BY <1>2, <1>11, Joined
<1>13. Text(t1 \o t2 \o t3 \o t4 \o t5 \o t6 \o t7)
  BY <1>7, <1>12, Joined
<1> QED BY <1>1, <1>13
-----------------------------------------------------------------------------
(* The buffer                                                              *)

\* buf holds the text t as far as it reaches and is untouched behind it.
Holds(buf, t) ==
    \A k \in Index : buf[k] = IF k < Len(t) THEN t[k + 1] ELSE Unset

LEMMA PutHolds ==
    ASSUME NEW buf, NEW t, NEW u, Text(t), Text(u), Holds(buf, t)
    PROVE  Holds(Put(buf, Len(t), u), t \o u)
<1>1. /\ Len(t) \in Nat /\ Len(u) \in Nat /\ Len(t \o u) = Len(t) + Len(u)
      /\ \A i \in 1 .. Len(t) + Len(u) :
             (t \o u)[i] = IF i <= Len(t) THEN t[i] ELSE u[i - Len(t)]
  BY Joined
<1> DEFINE a == Len(t)
           n == Len(u)
           b == Put(buf, a, u)
<1>2. \A k \in Index : b[k] = IF k \in a .. a + n - 1 THEN u[k - a + 1] ELSE buf[k]
  BY DEF Put
<1>3. ASSUME NEW k \in Index
      PROVE  b[k] = IF k < a + n THEN (t \o u)[k + 1] ELSE Unset
  <2>1. k \in Nat /\ buf[k] = IF k < a THEN t[k + 1] ELSE Unset
    BY PrintkAssumption DEF Holds, Index
  <2>2. CASE k < a
    <3>1. k + 1 \in 1 .. Len(t) + Len(u) /\ k + 1 <= Len(t) /\ k < a + n
      BY <1>1, <2>1, <2>2
    <3>2. b[k] = t[k + 1]
      BY <1>1, <1>2, <2>1, <2>2
    <3> QED BY <1>1, <3>1, <3>2
  <2>3. CASE k >= a /\ k < a + n
    <3>1. k + 1 \in 1 .. Len(t) + Len(u) /\ ~(k + 1 <= Len(t))
          /\ k \in a .. a + n - 1
      BY <1>1, <2>1, <2>3
    <3>2. b[k] = u[k - a + 1] /\ k - a + 1 = k + 1 - Len(t)
      BY <1>1, <1>2, <2>1, <3>1
    <3> QED BY <1>1, <2>3, <3>1, <3>2
  <2>4. CASE k >= a + n
    BY <1>1, <1>2, <2>1, <2>4
  <2> QED BY <1>1, <2>1, <2>2, <2>3, <2>4
<1> QED BY <1>1, <1>3 DEF Holds

\* No character but c, n of them.
LEMMA Blanks ==
    ASSUME NEW c, NEW n \in Nat
    PROVE  /\ Text(Run(c, n)) /\ Len(Run(c, n)) = n
           /\ \A i \in 1 .. n : Run(c, n)[i] = c
<1>1. n \in Int /\ Big(n, 0) = n
  BY DEF Big
<1>2. /\ Text(Run(c, n)) /\ Len(Run(c, n)) = Big(n, 0)
      /\ \A i \in 1 .. Big(n, 0) : Run(c, n)[i] = c
  BY <1>1, RunIs
<1> QED BY <1>1, <1>2

\* What lies at the place i of three texts.
LEMMA Three ==
    ASSUME NEW t, NEW r, NEW u, Text(t), Text(r), Text(u)
    PROVE  /\ Text(t \o (r \o u)) /\ Len(t) \in Nat /\ Len(r) \in Nat /\ Len(u) \in Nat
           /\ Len(t \o (r \o u)) = Len(t) + Len(r) + Len(u)
           /\ \A i \in 1 .. Len(t) + Len(r) + Len(u) :
                  (t \o (r \o u))[i] =
                      IF i <= Len(t) THEN t[i]
                      ELSE IF i <= Len(t) + Len(r) THEN r[i - Len(t)]
                      ELSE u[i - Len(t) - Len(r)]
<1> DEFINE v == r \o u
<1>1. /\ Text(v) /\ Len(r) \in Nat /\ Len(u) \in Nat
      /\ Len(v) = Len(r) + Len(u)
      /\ \A i \in 1 .. Len(r) + Len(u) :
             v[i] = IF i <= Len(r) THEN r[i] ELSE u[i - Len(r)]
  BY Joined
<1> HIDE DEF v
<1>2. /\ Text(t \o v) /\ Len(t) \in Nat /\ Len(t \o v) = Len(t) + Len(v)
      /\ \A i \in 1 .. Len(t) + Len(v) :
             (t \o v)[i] = IF i <= Len(t) THEN t[i] ELSE v[i - Len(t)]
  BY <1>1, Joined
<1>3. ASSUME NEW i \in 1 .. Len(t) + Len(r) + Len(u)
      PROVE  (t \o v)[i] = IF i <= Len(t) THEN t[i]
                           ELSE IF i <= Len(t) + Len(r) THEN r[i - Len(t)]
                           ELSE u[i - Len(t) - Len(r)]
  <2>1. (t \o v)[i] = IF i <= Len(t) THEN t[i] ELSE v[i - Len(t)]
    BY <1>1, <1>2
  <2>2. CASE i <= Len(t)
    BY <2>1, <2>2
  <2>3. CASE ~(i <= Len(t))
    <3>1. i - Len(t) \in 1 .. Len(r) + Len(u)
      BY <1>1, <1>2, <2>3
    <3>2. i - Len(t) <= Len(r) <=> i <= Len(t) + Len(r)
      BY <1>1, <1>2
    <3> QED BY <1>1, <2>1, <2>3, <3>1, <3>2
  <2> QED BY <2>2, <2>3
<1> QED BY <1>1, <1>2, <1>3 DEF v

LEMMA MoveHolds ==
    ASSUME NEW buf, NEW t, NEW u, NEW spaces \in Nat, Text(t), Text(u),
           Holds(buf, t \o u)
    PROVE  Holds(move_right(buf, Len(t), Len(u), spaces),
                 t \o (Run(" ", spaces) \o u))
<1> DEFINE a == Len(t)
           n == Len(u)
           r == Run(" ", spaces)
           v == t \o u
           w == t \o (r \o u)
           m == move_right(buf, a, n, spaces)
<1>1. /\ Text(r) /\ Len(r) = spaces /\ \A i \in 1 .. spaces : r[i] = " "
  BY Blanks
<1> HIDE DEF r
<1>2. /\ a \in Nat /\ n \in Nat /\ Len(w) = a + spaces + n
      /\ \A i \in 1 .. a + spaces + n :
             w[i] = IF i <= a THEN t[i]
                    ELSE IF i <= a + spaces THEN r[i - a] ELSE u[i - a - spaces]
  <2> HIDE DEF w
  <2>1. /\ Text(w) /\ a \in Nat /\ Len(r) \in Nat /\ n \in Nat
        /\ Len(w) = a + Len(r) + n
        /\ \A i \in 1 .. a + Len(r) + n :
              w[i] = IF i <= a THEN t[i]
                     ELSE IF i <= a + Len(r) THEN r[i - a] ELSE u[i - a - Len(r)]
    <3>1. Text(t) /\ Text(r) /\ Text(u)
      BY <1>1
    <3> QED BY <3>1, Three DEF w
  <2> QED BY <1>1, <2>1
<1>3. /\ Len(v) = a + n
      /\ \A i \in 1 .. a + n :
             v[i] = IF i <= a THEN t[i] ELSE u[i - a]
  BY Joined
<1> HIDE DEF a, n, v, w
<1>4. \A k \in Index : buf[k] = IF k < a THEN t[k + 1]
                                ELSE IF k < a + n THEN u[k - a + 1] ELSE Unset
  <2> TAKE k \in Index
  <2>1. k \in Nat /\ buf[k] = IF k < a + n THEN v[k + 1] ELSE Unset
    BY <1>3, PrintkAssumption DEF Holds, Index, v
  <2>2. CASE k < a
    <3>1. k + 1 \in 1 .. a + n /\ k + 1 <= a /\ k < a + n
      BY <1>2, <2>1, <2>2
    <3> QED BY <1>3, <2>1, <2>2, <3>1
  <2>3. CASE k >= a /\ k < a + n
    <3>1. k + 1 \in 1 .. a + n /\ ~(k + 1 <= a) /\ k + 1 - a = k - a + 1
      BY <1>2, <2>1, <2>3
    <3>2. PICK i \in 1 .. a + n : i = k + 1
      BY <3>1
    <3>3. ~(i <= a)
      BY <3>1, <3>2
    <3>4. v[i] = u[i - a]
      BY Zenon, <1>3, <3>2, <3>3
    <3>5. i - a = k - a + 1
      <4>1. k \in Nat /\ a \in Nat
        BY <1>2, <2>1
      <4> QED BY <3>2, <4>1
    <3>6. v[k + 1] = u[k - a + 1]
      BY Zenon, <3>2, <3>4, <3>5
    <3> QED BY <1>2, <2>1, <2>3, <3>6
  <2>4. CASE k >= a + n
    <3>1. ~(k < a) /\ ~(k < a + n)
      BY <1>2, <2>1, <2>4
    <3> QED BY <2>1, <3>1
  <2>5. k < a \/ (k >= a /\ k < a + n) \/ k >= a + n
    BY <1>2, <2>1
  <2> QED BY <2>2, <2>3, <2>4, <2>5
<1>5. \A k \in Index : k \in Nat /\ k < SIZE /\ SIZE \in Nat
  BY PrintkAssumption DEF Index
<1>6. \A k \in Index :
         (IF k < a + spaces + n THEN w[k + 1] ELSE Unset) =
             IF k < a THEN t[k + 1]
             ELSE IF k < a + spaces THEN " "
             ELSE IF k < a + spaces + n THEN u[k - a - spaces + 1] ELSE Unset
  <2> TAKE k \in Index
  <2>1. k \in Nat
    BY <1>5
  <2>2. CASE k < a
    <3>1. k + 1 \in 1 .. a + spaces + n /\ k + 1 <= a /\ k < a + spaces + n
      BY <1>2, <2>1, <2>2
    <3> QED BY <1>2, <2>2, <3>1
  <2>3. CASE k >= a /\ k < a + spaces
    <3>1. k + 1 \in 1 .. a + spaces + n /\ ~(k + 1 <= a) /\ k + 1 <= a + spaces
          /\ k + 1 - a \in 1 .. spaces /\ k < a + spaces + n /\ ~(k < a)
      BY <1>2, <2>1, <2>3
    <3>2. w[k + 1] = r[k + 1 - a]
      BY <1>2, <2>1, <3>1
    <3> QED BY <1>1, <2>3, <3>1, <3>2
  <2>4. CASE k >= a + spaces /\ k < a + spaces + n
    <3>1. k + 1 \in 1 .. a + spaces + n /\ ~(k + 1 <= a) /\ ~(k + 1 <= a + spaces)
          /\ k + 1 - a - spaces = k - a - spaces + 1 /\ ~(k < a) /\ ~(k < a + spaces)
      BY <1>2, <2>1, <2>4
    <3>2. w[k + 1] = u[k + 1 - a - spaces]
      BY <1>2, <2>1, <3>1
    <3> QED BY <2>4, <3>1, <3>2
  <2>5. CASE k >= a + spaces + n
    <3>1. ~(k < a) /\ ~(k < a + spaces) /\ ~(k < a + spaces + n)
      BY <1>2, <2>1, <2>5
    <3> QED BY <3>1
  <2>6. \/ k < a \/ (k >= a /\ k < a + spaces)
        \/ (k >= a + spaces /\ k < a + spaces + n) \/ k >= a + spaces + n
    BY <1>2, <2>1
  <2> QED BY <2>2, <2>3, <2>4, <2>5, <2>6
<1>7. CASE a >= SIZE
  <2>1. m = buf
    BY <1>7 DEF move_right
  <2>2. \A k \in Index : k < a
    BY <1>2, <1>5, <1>7
  <2> QED BY <1>2, <1>4, <1>6, <2>1, <2>2 DEF Holds, a, n, r, w
<1>8. CASE a < SIZE /\ SIZE - a <= spaces
  <2> DEFINE s == Run(" ", SIZE - a)
  <2>1. m = Put(buf, a, s)
    <3>1. ~(a >= SIZE) /\ SIZE - a <= spaces
      BY <1>2, <1>8, PrintkAssumption
    <3> QED BY <3>1 DEF move_right
  <2>2. SIZE - a \in Nat
    BY <1>2, <1>8, PrintkAssumption
  <2>3. Len(s) = SIZE - a /\ \A i \in 1 .. SIZE - a : s[i] = " "
    BY <2>2, Blanks
  <2> HIDE DEF s, m
  <2>4. ASSUME NEW k \in Index
        PROVE  m[k] = IF k < a THEN t[k + 1] ELSE " "
    <3>1. m[k] = IF k \in a .. SIZE - 1 THEN s[k - a + 1] ELSE buf[k]
      <4>1. m[k] = IF k \in a .. a + Len(s) - 1 THEN s[k - a + 1] ELSE buf[k]
        BY <2>1 DEF Put
      <4>2. a + Len(s) - 1 = SIZE - 1
        <5>1. Len(s) = SIZE - a
          BY <2>3
        <5> QED BY <1>2, <5>1, PrintkAssumption
      <4> QED BY <4>1, <4>2
    <3>2. CASE k < a
      BY <1>2, <1>4, <1>5, <3>1, <3>2
    <3>3. CASE k >= a
      <4>1. k \in a .. SIZE - 1 /\ k - a + 1 \in 1 .. SIZE - a
        BY <1>2, <1>5, <3>3
      <4>2. m[k] = s[k - a + 1]
        BY <3>1, <4>1
      <4>3. s[k - a + 1] = " "
        BY <2>3, <4>1
      <4>4. ~(k < a)
        BY <1>2, <1>5, <3>3
      <4> QED BY <4>2, <4>3, <4>4
    <3>4. k < a \/ k >= a
      BY <1>2, <1>5
    <3> QED BY <3>2, <3>3, <3>4
  <2>5. \A k \in Index : k < a + spaces
    BY <1>2, <1>5, <1>8
  <2> QED BY <1>2, <1>6, <2>4, <2>5 DEF Holds, a, n, r, w, m
<1>9. CASE a < SIZE /\ SIZE - a > spaces
  <2> DEFINE moved == IF n > SIZE - a - spaces THEN SIZE - a - spaces ELSE n
             c == [k \in 1 .. moved |-> buf[a + k - 1]]
             b == Put(buf, a + spaces, c)
  <2>1. m = Put(b, a, r)
    <3>1. ~(a >= SIZE) /\ ~(SIZE - a <= spaces)
      BY <1>2, <1>9, PrintkAssumption
    <3> QED BY <3>1 DEF move_right, r
  <2>2. /\ moved \in Nat /\ moved <= n
        /\ moved < n => moved = SIZE - a - spaces
    BY <1>2, <1>9, PrintkAssumption
  <2>3. Len(c) = moved /\ \A i \in 1 .. moved : c[i] = buf[a + i - 1]
    <3>1. c = [k \in 1 .. moved |-> c[k]]
      OBVIOUS
    <3>2. Len(c) = moved
      BY <2>2, <3>1, IsText
    <3> QED BY <3>2
  <2> HIDE DEF c, moved
  <2>4. \A k \in Index : b[k] = IF k \in a + spaces .. a + spaces + moved - 1
                                  THEN c[k - (a + spaces) + 1] ELSE buf[k]
    BY <2>3 DEF Put
  <2> HIDE DEF b
  <2>5. \A k \in Index : m[k] = IF k \in a .. a + spaces - 1
                                  THEN r[k - a + 1] ELSE b[k]
    BY <1>1, <2>1 DEF Put
  <2> HIDE DEF m
  <2>6. ASSUME NEW k \in Index
        PROVE  m[k] = IF k < a THEN t[k + 1]
                      ELSE IF k < a + spaces THEN " "
                      ELSE IF k < a + spaces + n THEN u[k - a - spaces + 1] ELSE Unset
    <3>1. CASE k < a
      <4>1. m[k] = buf[k]
        BY <1>2, <1>5, <2>4, <2>5, <3>1
      <4> QED BY <1>4, <3>1, <4>1
    <3>2. CASE k >= a /\ k < a + spaces
      <4>1. k \in a .. a + spaces - 1 /\ k - a + 1 \in 1 .. spaces /\ ~(k < a)
        BY <1>2, <1>5, <3>2
      <4> QED BY <1>1, <2>5, <3>2, <4>1
    <3>3. CASE k >= a + spaces /\ k < a + spaces + moved
      <4>1. /\ k \in a + spaces .. a + spaces + moved - 1
            /\ k \notin a .. a + spaces - 1
            /\ k - (a + spaces) + 1 \in 1 .. moved
            /\ ~(k < a) /\ ~(k < a + spaces) /\ k < a + spaces + n
            /\ a + (k - (a + spaces) + 1) - 1 = k - spaces
        BY <1>2, <1>5, <2>2, <3>3
      <4>2. m[k] = buf[k - spaces]
        BY <2>3, <2>4, <2>5, <4>1
      <4>3. /\ k - spaces \in Index /\ ~(k - spaces < a) /\ k - spaces < a + n
            /\ k - spaces - a + 1 = k - a - spaces + 1
        BY <1>2, <1>5, <2>2, <3>3 DEF Index
      <4>4. buf[k - spaces] = u[k - spaces - a + 1]
        BY <1>4, <4>3
      <4> QED BY <4>1, <4>2, <4>3, <4>4
    <3>4. CASE k >= a + spaces + moved
      <4>1. moved = n
        BY <1>2, <1>5, <1>9, <2>2, <3>4
      <4>2. /\ k \notin a + spaces .. a + spaces + moved - 1
            /\ k \notin a .. a + spaces - 1 /\ ~(k < a) /\ ~(k < a + n)
            /\ ~(k < a + spaces) /\ ~(k < a + spaces + n)
        BY <1>2, <1>5, <3>4, <4>1
      <4> QED BY <1>4, <2>4, <2>5, <4>2
    <3>5. \/ k < a \/ (k >= a /\ k < a + spaces)
          \/ (k >= a + spaces /\ k < a + spaces + moved) \/ k >= a + spaces + moved
      BY <1>2, <1>5, <2>2
    <3> QED BY <3>1, <3>2, <3>3, <3>4, <3>5
  <2> QED BY <1>2, <1>6, <2>6 DEF Holds, a, n, r, w, m
<1>10. a >= SIZE \/ (a < SIZE /\ SIZE - a <= spaces) \/ (a < SIZE /\ SIZE - a > spaces)
  BY <1>2, PrintkAssumption
<1> QED BY <1>7, <1>8, <1>9, <1>10

LEMMA Assoc ==
    ASSUME NEW s, NEW t, NEW u, Text(s), Text(t), Text(u)
    PROVE  (s \o t) \o u = s \o (t \o u)
<1>1. PICK S, T, U : s \in Seq(S) /\ t \in Seq(T) /\ u \in Seq(U)
  BY DEF Text
<1> DEFINE V == S \cup T \cup U
<1>2. s \in Seq(V) /\ t \in Seq(V) /\ u \in Seq(V)
  BY <1>1, SeqMonotonic
<1> QED BY <1>2, ConcatAssociative

\* A string with its pads: before it or, if LEFT, behind it.
Padded(t, s) == LET pad == Run(" ", s.field_width - Len(t))
                IN  IF "LEFT" \in s.flags THEN t \o pad ELSE pad \o t

LEMMA StringHolds ==
    ASSUME NEW buf, NEW t, NEW u, NEW s, s.field_width \in Int,
           Text(t), Text(u), Holds(buf, t \o u)
    PROVE  Holds(widen_string(buf, Len(t) + Len(u), Len(u), s), t \o Padded(u, s))
<1> DEFINE n == s.field_width - Len(u)
<1>1. Len(t) \in Nat /\ Len(u) \in Nat /\ Len(t \o u) = Len(t) + Len(u)
      /\ Text(t \o u)
  BY Joined
<1>2. CASE Len(u) > s.field_width
  <2>1. Run(" ", n) = <<>>
    <3>1. Big(n, 0) = 0 /\ n \in Int
      BY <1>1, <1>2 DEF Big
    <3>2. Text(Run(" ", n)) /\ Len(Run(" ", n)) = 0
      BY <3>1, RunIs
    <3>3. PICK S : Run(" ", n) \in Seq(S)
      BY <3>2 DEF Text
    <3> QED BY <3>2, <3>3, EmptySeq
  <2>2. u \o <<>> = u /\ <<>> \o u = u
    <3>1. PICK U : u \in Seq(U)
      BY DEF Text
    <3> QED BY <3>1, ConcatEmptySeq
  <2>3. Padded(u, s) = u
    BY <2>1, <2>2 DEF Padded
  <2>4. widen_string(buf, Len(t) + Len(u), Len(u), s) = buf
    BY <1>2 DEF widen_string
  <2> QED BY <2>3, <2>4
<1>3. CASE ~(Len(u) > s.field_width)
  <2>1. n \in Nat
    BY <1>1, <1>3
  <2>2. Text(Run(" ", n))
    BY <2>1, Blanks
  <2>3. CASE "LEFT" \in s.flags
    <3>1. widen_string(buf, Len(t) + Len(u), Len(u), s)
            = Put(buf, Len(t \o u), Run(" ", n))
      BY <1>1, <1>3, <2>3 DEF widen_string
    <3>2. Holds(Put(buf, Len(t \o u), Run(" ", n)), (t \o u) \o Run(" ", n))
      BY <1>1, <2>2, PutHolds
    <3>3. (t \o u) \o Run(" ", n) = t \o (u \o Run(" ", n))
      <4> DEFINE pad == Run(" ", n)
      <4>1. Text(pad)
        BY <2>2
      <4> HIDE DEF pad
      <4>2. (t \o u) \o pad = t \o (u \o pad)
        BY <4>1, Assoc
      <4> QED BY <4>2 DEF pad
    <3> QED BY <2>3, <3>1, <3>2, <3>3 DEF Padded
  <2>4. CASE "LEFT" \notin s.flags
    <3>1. Len(t) + Len(u) - Len(u) = Len(t)
      BY <1>1
    <3>2. widen_string(buf, Len(t) + Len(u), Len(u), s)
            = move_right(buf, Len(t), Len(u), n)
      BY <1>3, <2>4, <3>1 DEF widen_string
    <3>3. Holds(move_right(buf, Len(t), Len(u), n), t \o (Run(" ", n) \o u))
      BY <2>1, MoveHolds
    <3> QED BY <2>4, <3>2, <3>3 DEF Padded
  <2> QED BY <2>3, <2>4
<1> QED BY <1>2, <1>3

-----------------------------------------------------------------------------
(* What format_decode yields                                               *)

\* Induction over the numbers, without an operator as a parameter.
LEMMA LeastNumber ==
    ASSUME NEW T, T \subseteq Nat, T # {}
    PROVE  \E x \in T : \A y \in T : x <= y
<1> DEFINE R == OpToRel(<, Nat)
<1>1. IsWellFoundedOn(R, Nat)
  BY NatLessThanWellFounded
<1>2. \A x, y \in Nat : x < y => <<x, y>> \in R
  BY DEF OpToRel
<1> HIDE DEF R
<1>3. PICK x \in T : \A y \in T : ~ (<<y, x>> \in R)
  BY <1>1, WFMin
<1>4. ASSUME NEW y \in T PROVE x <= y
  <2>1. x \in Nat /\ y \in Nat
    OBVIOUS
  <2>2. ~(y < x)
    BY <1>2, <1>3, <2>1
  <2> QED BY <2>1, <2>2
<1> QED BY <1>4

LEMMA SkipFound ==
    ASSUME NEW fmt, Text(fmt), NEW i \in 1 .. Len(fmt) + 1, NEW S, NUL \notin S
    PROVE  /\ Skip(fmt, i, S) \in i .. Len(fmt) + 1
           /\ \A k \in i .. Skip(fmt, i, S) - 1 : fmt[k] \in S
<1>1. Len(fmt) \in Nat
  BY TextIs
<1> DEFINE T == {j \in i .. Len(fmt) + 1 : At(fmt, j) \notin S}
<1>2. T \subseteq Nat
  BY <1>1
<1>3. Len(fmt) + 1 \in T
  BY <1>1 DEF At
<1>4. PICK j \in T : \A k \in T : j <= k
  BY <1>2, <1>3, LeastNumber
<1>5. ASSUME NEW k \in i .. j - 1
      PROVE  fmt[k] \in S
  <2>1. j \in i .. Len(fmt) + 1
    BY <1>4
  <2>2. k \in i .. Len(fmt) + 1 /\ k <= Len(fmt) /\ ~(j <= k)
    BY <1>1, <2>1
  <2>3. At(fmt, k) \in S
    BY <1>4, <2>2
  <2> QED BY <2>2, <2>3 DEF At
<1>6. \E j_1 \in i .. Len(fmt) + 1 :
          At(fmt, j_1) \notin S /\ \A k \in i .. j_1 - 1 : fmt[k] \in S
  BY <1>4, <1>5
<1> HIDE DEF T
<1> QED BY <1>6 DEF Skip

\* The text before the next directive.
LitEnd(fmt, i) == CHOOSE j \in i .. Len(fmt) + 1 :
                      /\ At(fmt, j) \in {"%", NUL}
                      /\ \A k \in i .. j - 1 : fmt[k] # "%"

LEMMA LitFound ==
    ASSUME NEW fmt, Text(fmt), NEW i \in 1 .. Len(fmt) + 1
    PROVE  LitEnd(fmt, i) \in i .. Len(fmt) + 1
<1>1. Len(fmt) \in Nat
  BY TextIs
<1> DEFINE T == {j \in i .. Len(fmt) + 1 : At(fmt, j) \in {"%", NUL}}
<1>2. T \subseteq Nat
  BY <1>1
<1>3. Len(fmt) + 1 \in T
  BY <1>1 DEF At
<1>4. PICK j \in T : \A k \in T : j <= k
  BY <1>2, <1>3, LeastNumber
<1>5. ASSUME NEW k \in i .. j - 1
      PROVE  fmt[k] # "%"
  <2>1. j \in i .. Len(fmt) + 1
    BY <1>4
  <2>2. k \in i .. Len(fmt) + 1 /\ k <= Len(fmt) /\ ~(j <= k)
    BY <1>1, <2>1
  <2>3. At(fmt, k) # "%"
    BY <1>4, <2>2
  <2> QED BY <2>2, <2>3 DEF At
<1>6. \E j_1 \in i .. Len(fmt) + 1 : /\ At(fmt, j_1) \in {"%", NUL}
                                     /\ \A k \in i .. j_1 - 1 : fmt[k] # "%"
  BY <1>4, <1>5
<1> HIDE DEF T
<1> QED BY <1>6 DEF LitEnd

LEMMA DigitValue == \A d \in Digit : ValueOf[d] \in Nat
<1> DEFINE ds == <<"0", "1", "2", "3", "4", "5", "6", "7", "8", "9">>
<1>1. ASSUME NEW d \in Digit
      PROVE  \E v \in 0 .. 9 : ds[v + 1] = d
  <2>1. \E n \in 1 .. 10 : ds[n] = d
    BY DEF Digit
  <2>2. PICK n \in 1 .. 10 : ds[n] = d
    BY <2>1
  <2>3. n - 1 \in 0 .. 9 /\ (n - 1) + 1 = n
    OBVIOUS
  <2> QED BY <2>2, <2>3
<1>2. ValueOf = [d \in Digit |-> CHOOSE v \in 0 .. 9 : ds[v + 1] = d]
  BY DEF ValueOf
<1> HIDE DEF ds
<1>3. \A d \in Digit : ValueOf[d] \in 0 .. 9
  BY <1>1, <1>2
<1> QED BY <1>3

LEMMA AtoiIsNat ==
    ASSUME NEW fmt, Text(fmt), NEW i \in 1 .. Len(fmt) + 1
    PROVE  skip_atoi(fmt, i) \in Nat
<1> DEFINE end == Skip(fmt, i, Digit)
           V(k) == ValueOf[fmt[k - 1]]
           Step(n, e) == [k \in i .. e |-> IF k = i THEN 0 ELSE n[k - 1] * 10 + V(k)]
           N == CHOOSE n : n = Step(n, end)
<1>1. NUL \notin Digit
  BY DEF NUL, Digit
<1>2. Len(fmt) \in Nat /\ end \in i .. Len(fmt) + 1 /\ \A k \in i .. end - 1 : fmt[k] \in Digit
  BY <1>1, SkipFound, TextIs
<1>3. skip_atoi(fmt, i) = N[end]
  BY DEF skip_atoi
<1> HIDE DEF end
<1>4. \A k \in i + 1 .. end : V(k) \in Nat
  <2> TAKE k \in i + 1 .. end
  <2>1. k - 1 \in i .. end - 1
    BY <1>2
  <2> QED BY <1>2, <2>1, DigitValue
<1> HIDE DEF V
<1>5. \E n : n = Step(n, end)
  <2> DEFINE Bad == {e \in i .. end : ~ \E n : n = Step(n, e)}
  <2>1. SUFFICES ASSUME Bad # {} PROVE FALSE
    BY <1>2
  <2>2. Bad \subseteq Nat
    BY <1>2
  <2>3. PICK e \in Bad : \A f \in Bad : e <= f
    BY <2>1, <2>2, LeastNumber
  <2>4. CASE e = i
    <3> DEFINE n == [k \in i .. i |-> 0]
    <3>1. \A k \in i .. i : k = i
      OBVIOUS
    <3>2. n = Step(n, i)
      BY <3>1
    <3> QED BY <2>3, <2>4, <3>2
  <2>5. CASE e # i
    <3>1. e - 1 \in i .. end /\ ~(e <= e - 1) /\ e \in Int
      BY <1>2, <2>3, <2>5
    <3>2. e - 1 \notin Bad
      BY <2>3, <3>1
    <3>3. PICK n : n = Step(n, e - 1)
      BY <3>1, <3>2
    <3> DEFINE m == [k \in i .. e |-> IF k = e THEN n[k - 1] * 10 + V(k) ELSE n[k]]
    <3>4. ASSUME NEW k \in i .. e
          PROVE  m[k] = IF k = i THEN 0 ELSE m[k - 1] * 10 + V(k)
      <4>1. CASE k = i
        <5>1. k # e /\ k \in i .. e - 1
          BY <2>5, <3>1, <4>1
        <5>2. n[k] = 0
          BY <3>3, <4>1, <5>1
        <5> QED BY <4>1, <5>1, <5>2
      <4>2. CASE k = e
        <5>1. k - 1 \in i .. e /\ k - 1 # e /\ k # i
          BY <2>5, <3>1, <4>2
        <5>2. m[k - 1] = n[k - 1]
          BY <5>1
        <5> QED BY <4>2, <5>1, <5>2
      <4>3. CASE k # i /\ k # e
        <5>1. k - 1 \in i .. e /\ k - 1 # e /\ k \in i .. e - 1
          BY <3>1, <4>3
        <5>2. m[k - 1] = n[k - 1] /\ m[k] = n[k]
          BY <4>3, <5>1
        <5>3. n[k] = n[k - 1] * 10 + V(k)
          BY <3>3, <4>3, <5>1
        <5> QED BY <4>3, <5>2, <5>3
      <4> QED BY <4>1, <4>2, <4>3
    <3>5. m = [k \in i .. e |-> m[k]]
      OBVIOUS
    <3> HIDE DEF m
    <3>6. m = Step(m, e)
      BY <3>4, <3>5
    <3> QED BY <2>3, <3>6
  <2> QED BY <2>4, <2>5
<1>6. N = Step(N, end)
  BY <1>5
<1> HIDE DEF N
<1>7. \A k \in i .. end : N[k] \in Nat
  <2> DEFINE Bad == {k \in i .. end : N[k] \notin Nat}
  <2>1. SUFFICES ASSUME Bad # {} PROVE FALSE
    OBVIOUS
  <2>2. Bad \subseteq Nat
    BY <1>2
  <2>3. PICK k \in Bad : \A f \in Bad : k <= f
    BY <2>1, <2>2, LeastNumber
  <2>4. N[k] = IF k = i THEN 0 ELSE N[k - 1] * 10 + V(k)
    BY <1>6, <2>3
  <2>5. k # i
    BY <2>3, <2>4
  <2>6. k - 1 \in i .. end /\ ~(k <= k - 1) /\ k \in i + 1 .. end
    BY <1>2, <2>3, <2>5
  <2>7. N[k - 1] \in Nat
    BY <2>3, <2>6
  <2>8. N[k] \in Nat
    BY <1>4, <2>4, <2>5, <2>6, <2>7
  <2> QED BY <2>3, <2>8
<1> QED BY <1>2, <1>3, <1>7

Specs == [type : Type, flags : SUBSET Flag, base : {0, 8, 10, 16},
          field_width : Signed(WIDTH_HALF), precision : Signed(PREC_HALF)]

\* What a bit-field keeps of an int is a value of the bit-field.
LEMMA KeptIsSigned ==
    ASSUME NEW half \in Nat \ {0}, NEW v \in Int
    PROVE  Kept(half, v) \in Signed(half)
<1>1. 2 * half \in Nat \ {0} /\ v + half \in Int
  OBVIOUS
<1>2. (v + half) % (2 * half) \in 0 .. 2 * half - 1
  BY <1>1
<1> QED BY <1>2 DEF Kept, Signed

LEMMA SignedIs ==
    ASSUME NEW half \in Nat \ {0}
    PROVE  Signed(half) \subseteq Int /\ -1 \in Signed(half) /\ 0 \in Signed(half)
BY DEF Signed

\* The two bit-fields of struct printf_spec.
LEMMA Fields ==
    /\ Signed(WIDTH_HALF) \subseteq Int /\ Signed(PREC_HALF) \subseteq Int
    /\ {-1, 0} \subseteq Signed(WIDTH_HALF) /\ {-1, 0} \subseteq Signed(PREC_HALF)
    /\ \A v \in Int : /\ field_width_of(v) \in Signed(WIDTH_HALF)
                      /\ precision_of(v) \in Signed(PREC_HALF)
<1>1. WIDTH_HALF \in Nat \ {0} /\ PREC_HALF \in Nat \ {0}
  BY PrintkAssumption
<1> QED BY <1>1, KeptIsSigned, SignedIs DEF field_width_of, precision_of

\* A place behind i and a spec.
Yields(d, fmt, i) == d.next \in i .. Len(fmt) + 1 /\ d.spec \in Specs

LEMMA QualifierYields ==
    ASSUME NEW fmt, Text(fmt), NEW i \in 1 .. Len(fmt) + 1, NEW s \in Specs
    PROVE  Yields(decode_qualifier(fmt, i, s), fmt, i)
<1> DEFINE has  == At(fmt, i) \in {"h", "l", "L", "z", "t"}
           twin == At(fmt, i) \in {"h", "l"} /\ At(fmt, i + 1) = At(fmt, i)
           k    == IF twin THEN i + 2 ELSE IF has THEN i + 1 ELSE i
           q    == IF ~has THEN NUL
                   ELSE IF ~twin THEN fmt[i]
                   ELSE IF fmt[i] = "l" THEN "L" ELSE "H"
           c    == At(fmt, k)
           fl   == s.flags \cup (IF c = "x" THEN {"SMALL"} ELSE {})
                           \cup (IF c \in {"d", "i"} THEN {"SIGN"} ELSE {})
           d    == decode_qualifier(fmt, i, s)
           s1   == [s EXCEPT !.base = 10, !.type = ConvType[c]]
           s2   == [s EXCEPT !.base = ConvBase[c], !.flags = fl,
                             !.type = IntType(q, "SIGN" \in fl)]
           s3   == [s EXCEPT !.base = 10, !.type = "INVALID"]
<1>1. d = IF c \in DOMAIN ConvType THEN [next |-> k + 1, spec |-> s1]
          ELSE IF c \in DOMAIN ConvBase THEN [next |-> k + 1, spec |-> s2]
          ELSE [next |-> k, spec |-> s3]
  BY DEF decode_qualifier
<1>2. Len(fmt) \in Nat
  BY TextIs
<1>3. k \in i .. Len(fmt) + 1
  <2>1. has => i <= Len(fmt)
    BY DEF At, NUL
  <2>2. twin => has /\ i + 1 <= Len(fmt)
    BY DEF At, NUL
  <2> HIDE DEF has, twin
  <2> QED BY <1>2, <2>1, <2>2
<1> HIDE DEF k
<1>4. c \in DOMAIN ConvType \cup DOMAIN ConvBase => k <= Len(fmt)
  BY DEF At, NUL, ConvType, ConvBase
<1>5. s1 \in Specs \/ c \notin DOMAIN ConvType
  <2> HIDE DEF c
  <2>1. c \in DOMAIN ConvType => ConvType[c] \in Type
    BY DEF ConvType, Type
  <2> QED BY <2>1 DEF Specs
<1>6. s2 \in Specs \/ c \notin DOMAIN ConvBase
  <2>1. fl \in SUBSET Flag
    <3>1. s.flags \in SUBSET Flag
      BY DEF Specs
    <3> HIDE DEF c
    <3> QED BY <3>1 DEF Flag
  <2>2. c \in DOMAIN ConvBase => ConvBase[c] \in {0, 8, 10, 16}
    <3> HIDE DEF c
    <3> QED BY DEF ConvBase
  <2> HIDE DEF c, fl, q
  <2>3. IntType(q, "SIGN" \in fl) \in Type
    BY DEF IntType, Type
  <2> QED BY <2>1, <2>2, <2>3 DEF Specs
<1>7. s3 \in Specs
  BY DEF Specs, Type
<1> HIDE DEF c, fl, q, d, s1, s2, s3
<1>8. CASE c \in DOMAIN ConvType
  <2>1. d.next = k + 1 /\ d.spec = s1
    BY <1>1, <1>8
  <2> QED BY <1>2, <1>3, <1>4, <1>5, <1>8, <2>1 DEF Yields, d
<1>9. CASE c \notin DOMAIN ConvType /\ c \in DOMAIN ConvBase
  <2>1. d.next = k + 1 /\ d.spec = s2
    BY <1>1, <1>9
  <2> QED BY <1>2, <1>3, <1>4, <1>6, <1>9, <2>1 DEF Yields, d
<1>10. CASE c \notin DOMAIN ConvType /\ c \notin DOMAIN ConvBase
  <2>1. d.next = k /\ d.spec = s3
    BY <1>1, <1>10
  <2> QED BY <1>2, <1>3, <1>7, <2>1 DEF Yields, d
<1> QED BY <1>8, <1>9, <1>10

\* A phase that goes on from a later place yields a place behind it.
LEMMA Further ==
    ASSUME NEW d, NEW fmt, Text(fmt), NEW i \in 1 .. Len(fmt) + 1,
           NEW j \in i .. Len(fmt) + 1, Yields(d, fmt, j)
    PROVE  Yields(d, fmt, i)
<1>1. Len(fmt) \in Nat
  BY TextIs
<1> QED BY <1>1 DEF Yields

LEMMA PrecisionYields ==
    ASSUME NEW fmt, Text(fmt), NEW i \in 1 .. Len(fmt) + 1, NEW s \in Specs
    PROVE  Yields(decode_precision(fmt, i, s), fmt, i)
<1> DEFINE none == [s EXCEPT !.precision = -1]
           j    == Skip(fmt, i + 1, Digit)
           d    == decode_precision(fmt, i, s)
           p    == precision_of(skip_atoi(fmt, i + 1))
           kept == IF p < 0 THEN 0 ELSE p
           with == [none EXCEPT !.precision = kept]
           star == [none EXCEPT !.type = "PRECISION"]
<1>1. Len(fmt) \in Nat
  BY TextIs
<1>2. none \in Specs /\ star \in Specs
  <2>1. \A v \in Signed(PREC_HALF) : [s EXCEPT !.precision = v] \in Specs
    BY DEF Specs
  <2>2. -1 \in Signed(PREC_HALF)
    BY Fields
  <2>3. none \in Specs
    BY <2>1, <2>2
  <2> HIDE DEF none
  <2> QED BY <2>3 DEF Specs, Type
<1>3. d = IF At(fmt, i) # "." THEN decode_qualifier(fmt, i, none)
          ELSE IF At(fmt, i + 1) = "*" THEN [next |-> i + 2, spec |-> star]
          ELSE IF j = i + 1 THEN decode_qualifier(fmt, j, none)
          ELSE decode_qualifier(fmt, j, with)
  BY DEF decode_precision
<1> HIDE DEF j, none, star, p, kept, with, d
<1>4. CASE At(fmt, i) # "."
  BY <1>2, <1>3, <1>4, QualifierYields DEF d
<1>5. CASE At(fmt, i) = "."
  <2>1. i + 1 \in 1 .. Len(fmt) + 1
    BY <1>1, <1>5 DEF At, NUL
  <2>2. NUL \notin Digit
    BY DEF NUL, Digit
  <2>3. j \in i + 1 .. Len(fmt) + 1
    BY <2>1, <2>2, SkipFound DEF j
  <2>4. j \in 1 .. Len(fmt) + 1 /\ j \in i .. Len(fmt) + 1
    BY <1>1, <2>1, <2>3
  <2>5. with \in Specs
    <3>1. skip_atoi(fmt, i + 1) \in Int
      BY <2>1, AtoiIsNat
    <3>2. p \in Signed(PREC_HALF) /\ 0 \in Signed(PREC_HALF)
      BY <3>1, Fields DEF p
    <3>3. kept \in Signed(PREC_HALF)
      BY <3>2 DEF kept
    <3> QED BY <1>2, <3>3 DEF Specs, with
  <2>6. CASE At(fmt, i + 1) = "*"
    <3>1. i + 2 \in i .. Len(fmt) + 1
      BY <1>1, <2>1, <2>6 DEF At, NUL
    <3>2. d.next = i + 2 /\ d.spec = star
      BY <1>3, <1>5, <2>6
    <3> QED BY <1>2, <3>1, <3>2 DEF Yields, d
  <2>7. CASE At(fmt, i + 1) # "*"
    <3>1. Yields(decode_qualifier(fmt, j, none), fmt, i)
      BY <1>2, <2>4, QualifierYields, Further
    <3>2. Yields(decode_qualifier(fmt, j, with), fmt, i)
      BY <2>4, <2>5, QualifierYields, Further
    <3> QED BY <1>3, <1>5, <2>7, <3>1, <3>2 DEF d
  <2> QED BY <2>6, <2>7
<1> QED BY <1>4, <1>5

LEMMA DirectiveYields ==
    ASSUME NEW fmt, Text(fmt), NEW i \in 1 .. Len(fmt) + 1, NEW s \in Specs
    PROVE  Yields(decode_directive(fmt, i, s), fmt, i)
<1> DEFINE j  == Skip(fmt, i, DOMAIN FlagChar)
           fl == {FlagChar[fmt[k]] : k \in i .. j - 1}
           n  == [s EXCEPT !.field_width = -1, !.flags = fl]
           d  == decode_directive(fmt, i, s)
           star == [n EXCEPT !.type = "WIDTH"]
           w    == field_width_of(skip_atoi(fmt, j))
           wide == [n EXCEPT !.field_width = w]
           e  == Skip(fmt, j, Digit)
<1>1. d = IF At(fmt, j) = "*" THEN [next |-> j + 1, spec |-> star]
          ELSE IF At(fmt, j) \in Digit THEN decode_precision(fmt, e, wide)
          ELSE decode_precision(fmt, j, n)
  BY DEF decode_directive
<1>2. Len(fmt) \in Nat
  BY TextIs
<1>3. NUL \notin DOMAIN FlagChar /\ NUL \notin Digit
  BY DEF NUL, Digit, FlagChar
<1>4. j \in i .. Len(fmt) + 1 /\ \A k \in i .. j - 1 : fmt[k] \in DOMAIN FlagChar
  BY <1>3, SkipFound
<1> HIDE DEF j
<1>5. j \in 1 .. Len(fmt) + 1
  BY <1>2, <1>4
<1>6. e \in j .. Len(fmt) + 1
  BY <1>3, <1>5, SkipFound
<1> HIDE DEF e
<1>7. e \in 1 .. Len(fmt) + 1 /\ e \in i .. Len(fmt) + 1
  BY <1>2, <1>4, <1>6
<1>8. fl \in SUBSET Flag
  <2>1. \A c \in DOMAIN FlagChar : FlagChar[c] \in Flag
    BY DEF FlagChar, Flag
  <2> QED BY <1>4, <2>1
<1> HIDE DEF fl
<1>9. n \in Specs
  <2>1. \A v \in Signed(WIDTH_HALF) :
            [s EXCEPT !.field_width = v, !.flags = fl] \in Specs
    BY <1>8 DEF Specs
  <2>2. -1 \in Signed(WIDTH_HALF)
    BY Fields
  <2> QED BY <2>1, <2>2
<1> HIDE DEF n, w
<1>10. star \in Specs
  BY <1>9 DEF Specs, Type
<1>11. wide \in Specs
  <2>1. skip_atoi(fmt, j) \in Int
    BY <1>5, AtoiIsNat
  <2>2. w \in Signed(WIDTH_HALF)
    BY <2>1, Fields DEF w
  <2> QED BY <1>9, <2>2 DEF Specs
<1> HIDE DEF star, wide, d
<1>12. CASE At(fmt, j) = "*"
  <2>1. j + 1 \in i .. Len(fmt) + 1
    BY <1>2, <1>4, <1>12 DEF At, NUL
  <2>2. d.next = j + 1 /\ d.spec = star
    BY <1>1, <1>12
  <2> QED BY <1>10, <2>1, <2>2 DEF Yields, d
<1>13. CASE At(fmt, j) # "*"
  <2>1. Yields(decode_precision(fmt, e, wide), fmt, i)
    BY <1>7, <1>11, PrecisionYields, Further
  <2>2. Yields(decode_precision(fmt, j, n), fmt, i)
    BY <1>4, <1>5, <1>9, PrecisionYields, Further
  <2> QED BY <1>1, <1>13, <2>1, <2>2 DEF d
<1> QED BY <1>12, <1>13

LEMMA DecodeYields ==
    ASSUME NEW fmt, Text(fmt), NEW i \in 1 .. Len(fmt), NEW s \in Specs
    PROVE  Yields(format_decode(fmt, i, s), fmt, i)
<1> DEFINE n == [s EXCEPT !.type = "NONE"]
           lit == LitEnd(fmt, i)
           w == IF s.field_width < 0
                  THEN [n EXCEPT !.field_width = field_width_of(-s.field_width),
                                 !.flags = @ \cup {"LEFT"}]
                  ELSE n
           p == IF s.precision < 0 THEN [n EXCEPT !.precision = 0] ELSE n
           d == format_decode(fmt, i, s)
<1>1. d = CASE s.type = "WIDTH" -> decode_precision(fmt, i, w)
            [] s.type = "PRECISION" -> decode_qualifier(fmt, i, p)
            [] OTHER -> IF lit # i THEN [next |-> lit, spec |-> n]
                                   ELSE decode_directive(fmt, i + 1, n)
  BY DEF format_decode, LitEnd
<1>2. Len(fmt) \in Nat /\ i \in 1 .. Len(fmt) + 1 /\ i + 1 \in 1 .. Len(fmt) + 1
      /\ i + 1 \in i .. Len(fmt) + 1
  <2>1. Len(fmt) \in Nat
    BY TextIs
  <2> QED BY <2>1
<1>3. n \in Specs
  BY DEF Specs, Type
<1> HIDE DEF n
<1>4. w \in Specs /\ p \in Specs
  <2>1. [n EXCEPT !.precision = 0] \in Specs
    BY <1>3, Fields DEF Specs
  <2>2. [n EXCEPT !.field_width = field_width_of(-s.field_width),
                  !.flags = @ \cup {"LEFT"}] \in Specs
    <3>1. -s.field_width \in Int
      BY Fields DEF Specs
    <3>2. field_width_of(-s.field_width) \in Signed(WIDTH_HALF)
      BY <3>1, Fields
    <3>3. n.flags \cup {"LEFT"} \in SUBSET Flag
      BY <1>3 DEF Specs, Flag
    <3> QED BY <1>3, <3>2, <3>3 DEF Specs
  <2> QED BY <1>3, <2>1, <2>2
<1>5. lit \in i .. Len(fmt) + 1
  BY <1>2, LitFound
<1> HIDE DEF lit, w, p, d
<1>6. Yields(decode_precision(fmt, i, w), fmt, i)
      /\ Yields(decode_qualifier(fmt, i, p), fmt, i)
  BY <1>2, <1>4, PrecisionYields, QualifierYields
<1>7. Yields([next |-> lit, spec |-> n], fmt, i)
  BY <1>3, <1>5 DEF Yields
<1>8. Yields(decode_directive(fmt, i + 1, n), fmt, i)
  BY <1>2, <1>3, DirectiveYields, Further
<1> QED BY <1>1, <1>6, <1>7, <1>8 DEF d

-----------------------------------------------------------------------------
(* The invariant                                                           *)

\* While vsnprintf runs, p_buf holds the text so far; behind its end, the text
\* cut to fit and a NUL.
BufferInv ==
    /\ Text(text)
    /\ pc = "format" => str = Len(text) /\ Holds(p_buf, text)
    /\ pc = "console" =>
         \E n \in Index : /\ p_buf[n] = NUL
                          /\ n = IF str < SIZE THEN str ELSE SIZE - 1
                          /\ \A k \in 0 .. n - 1 : p_buf[k] = text[k + 1]

PInv == TypeOK /\ BufferInv

LEMMA PInvBuffer == PInv => BufferHoldsText
BY DEF PInv, BufferInv, BufferHoldsText, Holds

\* What every iteration of vsnprintf starts from and what it decodes.
LEMMA AtDirective ==
    ASSUME PInv, NEW types, Directive(types)
    PROVE  /\ pc = "format" /\ Text(call.fmt) /\ Len(call.fmt) \in Nat
           /\ Decoded.next \in pos .. Len(call.fmt) + 1
           /\ Decoded.next \in 1 .. Len(call.fmt) + 1
           /\ Decoded.spec \in Specs /\ Decoded.spec.type \in types
           /\ pos \in 1 .. Len(call.fmt) /\ arg + 1 \in Nat \ {0}
<1>1. pc = "format" /\ pos <= Len(call.fmt) /\ Decoded.spec.type \in types
  BY DEF Directive, Decoded
<1>2. call \in Calls /\ pos \in 1 .. Len(call.fmt) + 1 /\ spec \in Specs
      /\ arg + 1 \in Nat \ {0}
  BY DEF PInv, TypeOK, Specs
<1>3. call.fmt \in Seq(STRING)
  BY <1>2, PrintkAssumption
<1>4. Text(call.fmt)
  BY <1>3 DEF Text
<1>5. Len(call.fmt) \in Nat
  BY <1>4, TextIs
<1>6. pos \in 1 .. Len(call.fmt)
  BY <1>1, <1>2, <1>5
<1>7. Yields(Decoded, call.fmt, pos)
  BY <1>2, <1>4, <1>6, DecodeYields DEF Decoded
<1>8. Decoded.next \in pos .. Len(call.fmt) + 1 /\ Decoded.spec \in Specs
  BY <1>7 DEF Yields
<1>9. Decoded.next \in 1 .. Len(call.fmt) + 1
  BY <1>5, <1>6, <1>8
<1> QED BY <1>1, <1>2, <1>4, <1>5, <1>6, <1>8, <1>9

\* Characters that are written behind the text so far.
LEMMA Emitted ==
    ASSUME PInv, pc = "format", UNCHANGED <<call, pc, output>>
    PROVE  \A txt : Text(txt) /\ Emit(txt) =>
               /\ BufferInv' /\ DOMAIN p_buf' = Index
               /\ str' \in Nat /\ sent' \in 0 .. str'
<1> SUFFICES ASSUME NEW txt, Text(txt), Emit(txt)
             PROVE  /\ BufferInv' /\ DOMAIN p_buf' = Index
                    /\ str' \in Nat /\ sent' \in 0 .. str'
  OBVIOUS
<1>1. Text(text) /\ str = Len(text) /\ Holds(p_buf, text)
  BY DEF PInv, BufferInv
<1>2. p_buf' = Put(p_buf, str, txt) /\ str' = str + Len(txt) /\ text' = text \o txt
  BY DEF Emit
<1>3. /\ Text(text \o txt) /\ Len(text \o txt) = Len(text) + Len(txt)
      /\ Len(text) \in Nat /\ Len(txt) \in Nat
  BY <1>1, Joined
<1>4. Holds(Put(p_buf, Len(text), txt), text \o txt)
  BY <1>1, PutHolds
<1>5. Text(text') /\ str' = Len(text') /\ Holds(p_buf', text')
  BY <1>1, <1>2, <1>3, <1>4
<1>6. pc' = "format"
  OBVIOUS
<1>7. BufferInv'
  BY <1>5, <1>6 DEF BufferInv, Holds, Index
<1>8. DOMAIN p_buf' = Index
  BY <1>2 DEF Put
<1>9. str' \in Nat /\ sent' \in 0 .. str'
  <2>1. sent \in 0 .. str /\ sent' = sent
    BY DEF PInv, TypeOK, output
  <2> QED BY <1>1, <1>2, <1>3, <2>1
<1> QED BY <1>7, <1>8, <1>9

\* The types that a directive with the characters txt leaves.
LEMMA EmitSteps ==
    ASSUME PInv, pc = "format", UNCHANGED <<call, pc, output>>,
           pos' \in 1 .. Len(call.fmt) + 1, arg' \in Nat \ {0}, spec' \in Specs
    PROVE  \A txt : Text(txt) /\ Emit(txt) => PInv'
<1> SUFFICES ASSUME NEW txt, Text(txt), Emit(txt)
             PROVE  PInv'
  OBVIOUS
<1>1. /\ BufferInv' /\ DOMAIN p_buf' = Index
      /\ str' \in Nat /\ sent' \in 0 .. str'
  BY Emitted
<1>2. /\ call' \in Calls /\ pc' \in {"idle", "format", "console"}
      /\ uart_console' \in BOOLEAN /\ pos' \in 1 .. Len(call'.fmt) + 1
  BY DEF PInv, TypeOK, output
<1> QED BY <1>1, <1>2 DEF PInv, TypeOK, Specs, Index

LEMMA literalPInv == ASSUME PInv, literal PROVE PInv'
<1>1. /\ pc = "format" /\ Text(call.fmt) /\ Len(call.fmt) \in Nat
      /\ Decoded.next \in pos .. Len(call.fmt) + 1
      /\ Decoded.next \in 1 .. Len(call.fmt) + 1
      /\ Decoded.spec \in Specs /\ pos \in 1 .. Len(call.fmt)
  BY AtDirective DEF literal
<1>2. pos \in Nat \ {0} /\ Decoded.next - 1 \in 0 .. Len(call.fmt)
      /\ pos <= (Decoded.next - 1) + 1
  BY <1>1
<1>3. Text(SubSeq(call.fmt, pos, Decoded.next - 1))
  BY <1>1, <1>2, TextPart
<1>4. /\ pos' = Decoded.next /\ spec' = Decoded.spec /\ UNCHANGED <<call, pc, arg, output>>
      /\ Emit(SubSeq(call.fmt, pos, Decoded.next - 1))
  BY DEF literal
<1>5. arg' \in Nat \ {0}
  BY <1>4 DEF PInv, TypeOK
<1> QED BY <1>1, <1>3, <1>4, <1>5, EmitSteps

LEMMA widthPInv == ASSUME PInv, set_field_width \/ set_precision PROVE PInv'
<1>1. /\ pc = "format" /\ Decoded.next \in 1 .. Len(call.fmt) + 1
      /\ Decoded.spec \in Specs /\ arg + 1 \in Nat \ {0}
  BY AtDirective DEF set_field_width, set_precision
<1>2. va_arg(Int) \subseteq Int
  BY DEF va_arg
<1>3. /\ pos' = Decoded.next /\ arg' = arg + 1
      /\ UNCHANGED <<call, pc, p_buf, str, text, output>>
  BY DEF set_field_width, set_precision
<1>4. PICK w \in Int :
          \/ spec' = [Decoded.spec EXCEPT !.field_width = field_width_of(w)]
          \/ spec' = [Decoded.spec EXCEPT !.precision = precision_of(w)]
  BY <1>2 DEF set_field_width, set_precision
<1>5. spec' \in Specs
  <2>1. /\ field_width_of(w) \in Signed(WIDTH_HALF)
        /\ precision_of(w) \in Signed(PREC_HALF)
    BY Fields
  <2> QED BY <1>1, <1>4, <2>1 DEF Specs
<1>6. BufferInv'
  BY <1>3 DEF PInv, BufferInv, Holds, Index
<1>7. TypeOK'
  BY <1>1, <1>3, <1>5 DEF PInv, TypeOK, Specs, Index, output
<1> QED BY <1>6, <1>7 DEF PInv

\* The countdown of a width leaves a width, and writes a number of spaces.
LEMMA Counted ==
    ASSUME NEW w \in Signed(WIDTH_HALF)
    PROVE  Spaces(w) \in Nat /\ Spent(w) \in Signed(WIDTH_HALF)
<1>1. w - 1 \in Int
  BY Fields
<1>2. field_width_of(w - 1) \in Signed(WIDTH_HALF)
  BY <1>1, Fields
<1>3. field_width_of(w - 1) \in Int /\ 0 \in Signed(WIDTH_HALF)
  BY <1>2, Fields
<1>4. Spaces(w) \in Nat
  BY <1>3 DEF Spaces, Big
<1> QED BY <1>2, <1>3, <1>4 DEF Spent

LEMMA charPInv == ASSUME PInv, char PROVE PInv'
<1>1. /\ pc = "format" /\ Decoded.next \in 1 .. Len(call.fmt) + 1
      /\ Decoded.spec \in Specs /\ arg + 1 \in Nat \ {0}
  BY AtDirective DEF char
<1> DEFINE width == Decoded.spec.field_width
           left  == "LEFT" \in Decoded.spec.flags
           rest  == IF left THEN width ELSE Spent(width)
           front == IF left THEN <<>> ELSE Run(" ", Spaces(width))
           back  == Run(" ", Spaces(rest))
<1>2. PICK c : Emit(front \o <<c>> \o back)
  BY DEF char
<1>3. /\ pos' = Decoded.next /\ arg' = arg + 1
      /\ spec' = [Decoded.spec EXCEPT !.field_width = Spent(rest)]
      /\ UNCHANGED <<call, pc, output>>
  BY DEF char
<1>4. width \in Signed(WIDTH_HALF)
  BY <1>1 DEF Specs
<1>5. rest \in Signed(WIDTH_HALF)
  BY <1>4, Counted
<1>6. Spaces(width) \in Int /\ Spaces(rest) \in Int
      /\ Spent(rest) \in Signed(WIDTH_HALF)
  BY <1>4, <1>5, Counted
<1> HIDE DEF width, rest
<1>7. Text(front) /\ Text(back)
  BY <1>6, RunIs, Tuples
<1> HIDE DEF front, back
<1>8. Text(front \o <<c>> \o back)
  <2>1. Text(front \o <<c>>)
    BY <1>7, Tuples, Joined
  <2> QED BY <1>7, <2>1, Joined
<1>9. spec' \in Specs
  BY <1>1, <1>3, <1>6 DEF Specs
<1> QED BY <1>1, <1>2, <1>3, <1>8, <1>9, EmitSteps

LEMMA percentPInv == ASSUME PInv, percent PROVE PInv'
<1>1. /\ pc = "format" /\ Decoded.next \in 1 .. Len(call.fmt) + 1
      /\ Decoded.spec \in Specs
  BY AtDirective DEF percent
<1>2. /\ pos' = Decoded.next /\ spec' = Decoded.spec /\ Emit(<<"%">>)
      /\ UNCHANGED <<call, pc, arg, output>>
  BY DEF percent
<1>3. arg' \in Nat \ {0}
  BY <1>2 DEF PInv, TypeOK
<1> QED BY <1>1, <1>2, <1>3, Tuples, EmitSteps

LEMMA pointerPInv == ASSUME PInv, pointer PROVE PInv'
<1>1. /\ pc = "format" /\ Text(call.fmt) /\ Len(call.fmt) \in Nat
      /\ Decoded.next \in 1 .. Len(call.fmt) + 1
      /\ Decoded.spec \in Specs /\ arg + 1 \in Nat \ {0}
  BY AtDirective DEF pointer
<1>2. /\ pos' = Skip(call.fmt, Decoded.next, AlNum)
      /\ spec' = Decoded.spec /\ arg' = arg + 1
      /\ UNCHANGED <<call, pc, output>>
  BY DEF pointer
<1>3. PICK v : Emit(pointer_string(v, Decoded.spec))
  BY DEF pointer
<1>4. NUL \notin AlNum
  BY DEF NUL, AlNum, Digit
<1>5. Skip(call.fmt, Decoded.next, AlNum) \in 1 .. Len(call.fmt) + 1
  <2>1. Skip(call.fmt, Decoded.next, AlNum) \in Decoded.next .. Len(call.fmt) + 1
    BY <1>1, <1>4, SkipFound
  <2> QED BY <1>1, <2>1
<1>6. Text(pointer_string(v, Decoded.spec))
  <2> DEFINE s == Decoded.spec
             fl == s.flags \cup {"SMALL"} \cup
                     (IF s.field_width = -1 THEN {"ZEROPAD"} ELSE {})
             w == IF s.field_width = -1 THEN field_width_of(LONG_BITS \div 4)
                                     ELSE s.field_width
             r == [s EXCEPT !.base = 16, !.flags = fl, !.field_width = w]
  <2>1. s \in Specs
    BY <1>1
  <2>2. pointer_string(v, s) = number(Num(v, "ULONG"), r)
    BY <2>1 DEF pointer_string, Specs
  <2>3. w \in Int
    <3>1. LONG_BITS \div 4 \in Int
      BY PrintkAssumption
    <3>2. field_width_of(LONG_BITS \div 4) \in Int
      BY <3>1, Fields
    <3>3. s.field_width \in Int
      BY <2>1, Fields DEF Specs
    <3> HIDE DEF s
    <3> QED BY <3>2, <3>3
  <2> HIDE DEF s, w, fl
  <2>4. r.field_width \in Int /\ r.precision \in Int
    BY <2>1, <2>3, Fields DEF Specs
  <2> HIDE DEF r
  <2>5. Text(number(Num(v, "ULONG"), r))
    BY <2>4, NumberIsText
  <2> QED BY <2>2, <2>5 DEF s
<1> QED BY <1>1, <1>2, <1>3, <1>5, <1>6, EmitSteps

LEMMA integerPInv == ASSUME PInv, integer PROVE PInv'
<1>1. /\ pc = "format" /\ Decoded.next \in 1 .. Len(call.fmt) + 1
      /\ Decoded.spec \in Specs /\ arg + 1 \in Nat \ {0}
  BY AtDirective DEF integer
<1>2. PICK v : Emit(number(Num(v, Decoded.spec.type), Decoded.spec))
  BY DEF integer
<1>3. Text(number(Num(v, Decoded.spec.type), Decoded.spec))
  <2>1. Decoded.spec.field_width \in Int /\ Decoded.spec.precision \in Int
    BY <1>1, Fields DEF Specs
  <2> QED BY <2>1, NumberIsText
<1>4. /\ pos' = Decoded.next /\ spec' = Decoded.spec /\ arg' = arg + 1
      /\ UNCHANGED <<call, pc, output>>
  BY DEF integer
<1> QED BY <1>1, <1>2, <1>3, <1>4, EmitSteps

LEMMA LimitedIsText ==
    ASSUME NEW txt, Text(txt), NEW s, s.precision \in Int
    PROVE  Text(Limited(txt, s))
<1>1. Len(txt) \in Nat
  BY TextIs
<1>2. CASE s.precision >= 0 /\ s.precision < Len(txt)
  <2>1. Limited(txt, s) = SubSeq(txt, 1, s.precision)
    BY <1>2 DEF Limited
  <2>2. s.precision \in 0 .. Len(txt) /\ 1 <= s.precision + 1 /\ 1 \in Nat \ {0}
    BY <1>1, <1>2
  <2> QED BY <2>1, <2>2, TextPart
<1>3. CASE ~(s.precision >= 0 /\ s.precision < Len(txt))
  BY <1>3 DEF Limited
<1> QED BY <1>2, <1>3

LEMMA str_argPInv == ASSUME PInv, str_arg PROVE PInv'
<1> DEFINE s == Decoded.spec
<1>1. /\ pc = "format" /\ Decoded.next \in 1 .. Len(call.fmt) + 1
      /\ s \in Specs /\ arg + 1 \in Nat \ {0}
  BY AtDirective DEF str_arg
<1>2. /\ pos' = Decoded.next /\ spec' = s /\ arg' = arg + 1
      /\ UNCHANGED <<call, pc, output>>
  BY DEF str_arg
<1>3. \E txt \in va_arg(Seq(STRING)) :
          LET t   == Limited(txt, s)
              pad == Run(" ", s.field_width - Len(t))
          IN  /\ p_buf' = string(p_buf, str, txt, s)
              /\ str' = str + Len(t) + Len(pad)
              /\ text' = text \o IF "LEFT" \in s.flags THEN t \o pad ELSE pad \o t
  BY DEF str_arg
<1> HIDE DEF s
<1>4. PICK txt \in va_arg(Seq(STRING)) :
          LET t   == Limited(txt, s)
              pad == Run(" ", s.field_width - Len(t))
          IN  /\ p_buf' = string(p_buf, str, txt, s)
              /\ str' = str + Len(t) + Len(pad)
              /\ text' = text \o IF "LEFT" \in s.flags THEN t \o pad ELSE pad \o t
  BY <1>3
<1> DEFINE t   == Limited(txt, s)
           pad == Run(" ", s.field_width - Len(t))
<1>5. /\ p_buf' = string(p_buf, str, txt, s)
      /\ str' = str + Len(t) + Len(pad) /\ text' = text \o Padded(t, s)
  BY <1>4 DEF Padded
<1>6. s.field_width \in Int /\ s.precision \in Int
  BY <1>1, Fields DEF Specs
<1>7. Text(t)
  <2>1. va_arg(Seq(STRING)) \subseteq Seq(STRING)
    BY DEF va_arg
  <2>2. Text(txt)
    BY <2>1 DEF Text
  <2> QED BY <1>6, <2>2, LimitedIsText
<1>8. p_buf' = widen_string(Put(p_buf, str, t), str + Len(t), Len(t), s)
  BY <1>5 DEF string
<1> HIDE DEF t
<1>9. Text(text) /\ str = Len(text) /\ Holds(p_buf, text)
  BY <1>1 DEF PInv, BufferInv
<1>10. Len(t) \in Nat /\ Len(text) \in Nat
  BY <1>7, <1>9, TextIs
<1>11. Text(pad) /\ Len(pad) \in Nat
  <2>1. s.field_width - Len(t) \in Int
    BY <1>6, <1>10
  <2> QED BY <2>1, RunIs
<1>12. Padded(t, s) = IF "LEFT" \in s.flags THEN t \o pad ELSE pad \o t
  BY DEF Padded
<1> HIDE DEF pad
<1>13. Text(Padded(t, s)) /\ Len(Padded(t, s)) = Len(t) + Len(pad)
  <2>1. Text(t \o pad) /\ Len(t \o pad) = Len(t) + Len(pad)
    BY <1>7, <1>11, Joined
  <2>2. Text(pad \o t) /\ Len(pad \o t) = Len(t) + Len(pad)
    BY <1>7, <1>10, <1>11, Joined
  <2> QED BY <1>12, <2>1, <2>2
<1>14. Text(text') /\ str' = Len(text')
  <2>1. Text(text \o Padded(t, s))
        /\ Len(text \o Padded(t, s)) = Len(text) + Len(Padded(t, s))
    BY <1>9, <1>13, Joined
  <2> QED BY <1>5, <1>9, <1>10, <1>11, <1>13, <2>1
<1>15. Holds(p_buf', text')
  <2>1. Holds(Put(p_buf, str, t), text \o t)
    BY <1>7, <1>9, PutHolds
  <2>2. Holds(widen_string(Put(p_buf, str, t), Len(text) + Len(t), Len(t), s),
              text \o Padded(t, s))
    BY <1>6, <1>7, <1>9, <2>1, StringHolds
  <2> QED BY <1>5, <1>8, <1>9, <2>2
<1>16. DOMAIN p_buf' = Index
  <2>1. \A b, a, u : DOMAIN Put(b, a, u) = Index
    BY DEF Put
  <2>2. DOMAIN Put(p_buf, str, t) = Index
    BY <2>1
  <2> QED BY <1>8, <2>1, <2>2 DEF widen_string, move_right
<1>17. str' \in Nat /\ sent' \in 0 .. str'
  <2>1. sent \in 0 .. str /\ sent' = sent
    BY <1>2 DEF PInv, TypeOK, output
  <2> QED BY <1>5, <1>9, <1>10, <1>11, <2>1
<1>18. BufferInv'
  BY <1>1, <1>2, <1>14, <1>15 DEF BufferInv, Holds, Index
<1>19. TypeOK'
  BY <1>1, <1>2, <1>16, <1>17 DEF PInv, TypeOK, Specs, Index, output
<1> QED BY <1>18, <1>19 DEF PInv

\* The NUL goes behind the text or, if there is no room, over the last place.
LEMMA endPInv == ASSUME PInv, vsnprintf_end PROVE PInv'
<1> DEFINE n == IF str < SIZE THEN str ELSE SIZE - 1
<1>1. /\ pc = "format" /\ pc' = "console" /\ sent' = 0
      /\ p_buf' = Put(p_buf, n, <<NUL>>)
      /\ UNCHANGED <<call, pos, arg, spec, str, text, uart_console>>
  BY DEF vsnprintf_end
<1>2. Text(text) /\ str = Len(text) /\ Holds(p_buf, text) /\ str \in Nat
  BY <1>1, TextIs DEF PInv, BufferInv
<1>3. n \in Index /\ n <= str /\ n \in Nat
  BY <1>2, PrintkAssumption DEF Index
<1> HIDE DEF n
<1>4. Len(<<NUL>>) = 1 /\ <<NUL>>[1] = NUL
  BY Tuples
<1>5. \A k \in Index : p_buf'[k] = IF k = n THEN NUL ELSE p_buf[k]
  <2> TAKE k \in Index
  <2>1. n + Len(<<NUL>>) - 1 = n
    BY <1>3, <1>4
  <2>2. k \in n .. n <=> k = n
    BY <1>3, PrintkAssumption DEF Index
  <2>3. p_buf'[k] = IF k = n THEN <<NUL>>[k - n + 1] ELSE p_buf[k]
    BY <1>1, <2>1, <2>2 DEF Put
  <2>4. n - n + 1 = 1
    BY <1>3
  <2> QED BY <1>4, <2>3, <2>4
<1>6. \A k \in 0 .. n - 1 : p_buf'[k] = text'[k + 1]
  <2> TAKE k \in 0 .. n - 1
  <2>1. k \in Index /\ k # n /\ k < Len(text)
    BY <1>2, <1>3, PrintkAssumption DEF Index
  <2> QED BY <1>1, <1>2, <1>5, <2>1 DEF Holds
<1>7. p_buf'[n] = NUL
  BY <1>3, <1>5
<1>8. BufferInv'
  <2>1. n = IF str' < SIZE THEN str' ELSE SIZE - 1
    BY <1>1 DEF n
  <2> QED BY <1>1, <1>2, <1>3, <1>6, <1>7, <2>1 DEF BufferInv, Index
<1>9. TypeOK'
  <2>1. DOMAIN p_buf' = Index
    BY <1>1 DEF Put
  <2>2. sent' \in 0 .. str'
    BY <1>1, <1>2
  <2> QED BY <1>1, <2>1, <2>2 DEF PInv, TypeOK, Index
<1> QED BY <1>8, <1>9 DEF PInv

LEMMA FreshBuffer ==
    /\ Text(<<>>) /\ Len(<<>>) = 0 /\ 1 \in Nat \ {0} /\ 0 \in 0 .. 0
    /\ [type |-> "NONE", field_width |-> 0, flags |-> {}, base |-> 0,
        precision |-> 0] \in Specs
    /\ Holds([k \in Index |-> Unset], <<>>)
    /\ \A c \in Calls : 1 \in 1 .. Len(c.fmt) + 1
<1>1. Text(<<>>) /\ Len(<<>>) = 0
  BY Tuples
<1>2. [type |-> "NONE", field_width |-> 0, flags |-> {}, base |-> 0,
       precision |-> 0] \in Specs
  BY Fields DEF Specs, Type
<1>3. \A k \in Index : ~(k < 0)
  BY PrintkAssumption DEF Index
<1>4. Holds([k \in Index |-> Unset], <<>>)
  BY <1>1, <1>3 DEF Holds
<1>5. ASSUME NEW c \in Calls PROVE 1 \in 1 .. Len(c.fmt) + 1
  <2>1. c.fmt \in Seq(STRING)
    BY PrintkAssumption
  <2>2. Len(c.fmt) \in Nat
    BY <2>1, LenProperties
  <2> QED BY <2>2
<1> QED BY <1>1, <1>2, <1>4, <1>5

LEMMA printkPInv == ASSUME PInv, NEW c \in Calls, printk(c) PROVE PInv'
<1>1. /\ pc' = "format" /\ call' = c /\ pos' = 1 /\ arg' = 1
      /\ spec' = [type |-> "NONE", field_width |-> 0, flags |-> {}, base |-> 0,
                  precision |-> 0]
      /\ p_buf' = [k \in Index |-> Unset] /\ str' = 0 /\ text' = <<>>
      /\ sent' = 0 /\ UNCHANGED uart_console
  BY DEF printk
<1>2. BufferInv'
  BY <1>1, FreshBuffer DEF BufferInv, Holds, Index
<1>3. uart_console' \in BOOLEAN
  BY <1>1 DEF PInv, TypeOK
<1>4. TypeOK'
  BY <1>1, <1>3, FreshBuffer DEF TypeOK, Specs, Index
<1> QED BY <1>2, <1>4 DEF PInv

LEMMA InitPInv == Init => PInv
<1> SUFFICES ASSUME Init PROVE PInv
  OBVIOUS
<1>1. BufferInv
  BY FreshBuffer DEF Init, BufferInv
<1>2. TypeOK
  BY FreshBuffer DEF Init, TypeOK, Specs
<1> QED BY <1>1, <1>2 DEF PInv

LEMMA consolePInv ==
    ASSUME PInv, console_init \/ qemu_console_write \/ printk_return \/ UNCHANGED vars
    PROVE  PInv'
<1>1. UNCHANGED <<call, pos, arg, spec, p_buf, str, text>>
      /\ (pc' = pc \/ pc' = "idle")
  BY DEF console_init, qemu_console_write, printk_return, vars
<1>2. sent' \in 0 .. str' /\ uart_console' \in BOOLEAN
  <2>1. str \in Nat /\ sent \in 0 .. str /\ uart_console \in BOOLEAN
    BY DEF PInv, TypeOK
  <2>2. sent' = sent \/ (sent < str /\ sent' = sent + 1)
    BY DEF console_init, qemu_console_write, printk_return, vars, output
  <2>3. uart_console' = uart_console \/ uart_console' = TRUE
    BY DEF console_init, qemu_console_write, printk_return, vars, output
  <2>4. uart_console' \in BOOLEAN
    BY Zenon, <2>1, <2>3
  <2> QED BY <1>1, <2>1, <2>2, <2>4
<1>3. BufferInv'
  BY <1>1 DEF PInv, BufferInv, Holds, Index
<1>4. TypeOK'
  BY <1>1, <1>2 DEF PInv, TypeOK, Index
<1> QED BY <1>3, <1>4 DEF PInv

THEOREM PrintkInvariant == Spec => []PInv
<1>1. Init => PInv
  BY InitPInv
<1>2. PInv /\ [Next]_vars => PInv'
  <2> SUFFICES ASSUME PInv, [Next]_vars PROVE PInv'
    OBVIOUS
  <2>1. CASE vsnprintf
    BY <2>1, literalPInv, widthPInv, charPInv, str_argPInv, pointerPInv,
       percentPInv, integerPInv, endPInv DEF vsnprintf
  <2>2. CASE \E c \in Calls : printk(c)
    BY <2>2, printkPInv
  <2>3. CASE console_init \/ qemu_console_write \/ printk_return \/ UNCHANGED vars
    BY <2>3, consolePInv
  <2> QED BY <2>1, <2>2, <2>3 DEF Next
<1> QED BY <1>1, <1>2, PTL DEF Spec

\* Every state of printk has its type: what format_decode yields lies inside
\* the format, and what qemu_console_write has sent never exceeds str.
THEOREM PrintkTypes == Spec => []TypeOK
<1>1. PInv => TypeOK
  BY DEF PInv
<1> QED BY <1>1, PrintkInvariant, PTL

\* Whatever the format, its arguments and the size of p_buf: it holds the text
\* as far as it reaches and is not touched behind the text; what vsnprintf
\* leaves is the text, cut to fit, and a NUL.
THEOREM BufferCutToFit == Spec => []BufferHoldsText
BY PInvBuffer, PrintkInvariant, PTL

-----------------------------------------------------------------------------
(* What is on the wire                                                     *)

OnWire(c) == IF c = LF THEN <<CR, LF>> ELSE <<c>>

\* A text with a carriage return before every line feed.
Wire(s) == FoldLeft(LAMBDA u, c : u \o IF c = LF THEN <<CR, LF>> ELSE <<c>>, <<>>, s)

\* The recursion of that fold, over the sets of places of the text.
Folded(s, D, v) ==
    v = [S \in SUBSET D |-> IF S = {} THEN <<>>
                            ELSE v[S \ {Max(S)}] \o OnWire(s[Max(S)])]

LEMMA WireIs ==
    ASSUME NEW s
    PROVE  Wire(s) = (CHOOSE v : Folded(s, DOMAIN s, v))[DOMAIN s]
BY DEF Wire, FoldLeft, MapThenFoldSet, Folded, OnWire

LEMMA MaxIs ==
    ASSUME NEW S, S \subseteq Int, NEW x \in S, \A y \in S : x >= y
    PROVE  Max(S) = x
<1>1. \E z \in S : \A y \in S : z >= y
  OBVIOUS
<1>2. Max(S) \in S /\ \A y \in S : Max(S) >= y
  BY <1>1 DEF Max
<1>3. Max(S) >= x /\ x >= Max(S) /\ Max(S) \in Int /\ x \in Int
  BY <1>2
<1> QED BY <1>3

LEMMA FoldedMore ==
    ASSUME NEW s, NEW k \in Nat, NEW v, Folded(s, 1 .. k, v)
    PROVE  \E w : Folded(s, 1 .. k + 1, w)
<1> DEFINE Step(u, x) == u \o OnWire(s[x])
           w == [S \in SUBSET (1 .. k + 1) |->
                   IF k + 1 \in S THEN Step(v[S \ {k + 1}], k + 1) ELSE v[S]]
<1>2. v = [S \in SUBSET (1 .. k) |-> IF S = {} THEN <<>>
                                     ELSE Step(v[S \ {Max(S)}], Max(S))]
  BY DEF Folded
<1> HIDE DEF Step
<1>3. ASSUME NEW S \in SUBSET (1 .. k + 1)
      PROVE  w[S] = IF S = {} THEN <<>> ELSE Step(w[S \ {Max(S)}], Max(S))
  <2>1. CASE k + 1 \in S
    <3>1. S \subseteq Int /\ \A y \in S : k + 1 >= y
      OBVIOUS
    <3>2. Max(S) = k + 1
      BY <2>1, <3>1, MaxIs
    <3>3. S \ {k + 1} \in SUBSET (1 .. k + 1) /\ k + 1 \notin S \ {k + 1}
      OBVIOUS
    <3>4. w[S \ {k + 1}] = v[S \ {k + 1}]
      BY <3>3
    <3>5. w[S] = Step(v[S \ {k + 1}], k + 1)
      BY <2>1
    <3> QED BY <2>1, <3>2, <3>4, <3>5
  <2>2. CASE k + 1 \notin S
    <3>1. \A x \in S : x \in 1 .. k
      <4> TAKE x \in S
      <4>1. x \in 1 .. k + 1 /\ x # k + 1
        BY <2>2
      <4> QED BY <4>1
    <3>2. S \in SUBSET (1 .. k) /\ S \ {Max(S)} \in SUBSET (1 .. k + 1)
          /\ k + 1 \notin S \ {Max(S)}
      BY <2>2, <3>1
    <3>3. w[S] = v[S] /\ w[S \ {Max(S)}] = v[S \ {Max(S)}]
      BY <2>2, <3>2
    <3>4. v[S] = IF S = {} THEN <<>> ELSE Step(v[S \ {Max(S)}], Max(S))
      BY <1>2, <3>2
    <3> QED BY <3>3, <3>4
  <2> QED BY <2>1, <2>2
<1>4. w = [S \in SUBSET (1 .. k + 1) |-> w[S]]
  OBVIOUS
<1> HIDE DEF w
<1>5. w = [S \in SUBSET (1 .. k + 1) |-> IF S = {} THEN <<>>
                                         ELSE Step(w[S \ {Max(S)}], Max(S))]
  BY <1>3, <1>4
<1>6. Folded(s, 1 .. k + 1, w)
  BY <1>5 DEF Folded, Step
<1> QED BY <1>6

LEMMA FoldedExists ==
    ASSUME NEW s, NEW n \in Nat
    PROVE  \E v : Folded(s, 1 .. n, v)
<1> DEFINE Bad == {k \in 0 .. n : ~ \E v : Folded(s, 1 .. k, v)}
<1>1. SUFFICES ASSUME Bad # {} PROVE FALSE
  OBVIOUS
<1>2. Bad \subseteq Nat
  OBVIOUS
<1>3. PICK k \in Bad : \A j \in Bad : k <= j
  BY <1>1, <1>2, LeastNumber
<1>4. CASE k = 0
  <2> DEFINE v == [S \in SUBSET {} |-> <<>>]
  <2>1. \A S \in SUBSET {} : S = {}
    OBVIOUS
  <2>2. v = [S \in SUBSET {} |-> IF S = {} THEN <<>>
                                 ELSE v[S \ {Max(S)}] \o OnWire(s[Max(S)])]
    BY <2>1
  <2> HIDE DEF v
  <2>3. 1 .. 0 = {}
    OBVIOUS
  <2>4. Folded(s, 1 .. 0, v)
    BY <2>2, <2>3 DEF Folded
  <2> QED BY <1>3, <1>4, <2>4
<1>5. CASE k # 0
  <2>1. k - 1 \in 0 .. n /\ k - 1 \in Nat /\ ~(k <= k - 1) /\ (k - 1) + 1 = k
    BY <1>3, <1>5
  <2>2. \E v : Folded(s, 1 .. k - 1, v)
    BY <1>3, <2>1
  <2>3. \E v : Folded(s, 1 .. (k - 1) + 1, v)
    BY <2>1, <2>2, FoldedMore
  <2> QED BY <1>3, <2>1, <2>3
<1> QED BY <1>4, <1>5

\* What the fold finds at each place of a text.
LEMMA FoldedSteps ==
    ASSUME NEW s, NEW n \in Nat, NEW v, Folded(s, 1 .. n, v)
    PROVE  /\ v[1 .. 0] = <<>>
           /\ \A k \in 0 .. n - 1 : v[1 .. k + 1] = v[1 .. k] \o OnWire(s[k + 1])
<1>1. v[1 .. 0] = <<>>
  <2>1. 1 .. 0 = {} /\ {} \in SUBSET (1 .. n)
    OBVIOUS
  <2> QED BY <2>1 DEF Folded
<1>2. ASSUME NEW k \in 0 .. n - 1
      PROVE  v[1 .. k + 1] = v[1 .. k] \o OnWire(s[k + 1])
  <2> DEFINE S == 1 .. k + 1
  <2>0. k \in Nat /\ k + 1 <= n
    OBVIOUS
  <2>1. S \in SUBSET (1 .. n) /\ S # {} /\ S \subseteq Int /\ k + 1 \in S
        /\ \A y \in S : k + 1 >= y
    <3>1. S \in SUBSET (1 .. n)
      BY <2>0
    <3>2. k + 1 \in S /\ S \subseteq Int
      BY <2>0
    <3>3. \A y \in S : k + 1 >= y
      BY <2>0
    <3> QED BY <3>1, <3>2, <3>3
  <2>2. S \ {k + 1} = 1 .. k
    OBVIOUS
  <2> HIDE DEF S
  <2>3. Max(S) = k + 1
    BY <2>1, MaxIs
  <2>4. v[S] = v[S \ {Max(S)}] \o OnWire(s[Max(S)])
    BY <2>1 DEF Folded
  <2> QED BY <2>2, <2>3, <2>4 DEF S
<1> QED BY <1>1, <1>2

LEMMA WireAt ==
    ASSUME NEW s, Text(s)
    PROVE  \E v : Folded(s, 1 .. Len(s), v) /\ Wire(s) = v[1 .. Len(s)]
<1>1. Len(s) \in Nat /\ DOMAIN s = 1 .. Len(s)
  BY TextIs
<1> DEFINE v == CHOOSE v : Folded(s, DOMAIN s, v)
<1>2. Wire(s) = v[DOMAIN s]
  BY WireIs
<1>3. \E u : Folded(s, DOMAIN s, u)
  BY <1>1, FoldedExists
<1>4. Folded(s, DOMAIN s, v)
  BY <1>3
<1> HIDE DEF v
<1> QED BY <1>1, <1>2, <1>4

LEMMA OnWireIsText == \A c : Text(OnWire(c))
BY Tuples DEF OnWire

LEMMA WireIsText ==
    ASSUME NEW s, Text(s)
    PROVE  Text(Wire(s))
<1>1. Len(s) \in Nat
  BY TextIs
<1>2. PICK v : Folded(s, 1 .. Len(s), v) /\ Wire(s) = v[1 .. Len(s)]
  BY WireAt
<1>3. /\ v[1 .. 0] = <<>>
      /\ \A k \in 0 .. Len(s) - 1 : v[1 .. k + 1] = v[1 .. k] \o OnWire(s[k + 1])
  BY <1>1, <1>2, FoldedSteps
<1> DEFINE Bad == {k \in 0 .. Len(s) : ~Text(v[1 .. k])}
<1>4. SUFFICES ASSUME Bad # {} PROVE FALSE
  BY <1>1, <1>2
<1>5. Bad \subseteq Nat
  BY <1>1
<1>6. PICK k \in Bad : \A j \in Bad : k <= j
  BY <1>4, <1>5, LeastNumber
<1>7. k # 0
  BY <1>3, <1>6, Tuples
<1>8. k - 1 \in 0 .. Len(s) - 1 /\ k - 1 \in 0 .. Len(s) /\ ~(k <= k - 1) /\ (k - 1) + 1 = k
  BY <1>1, <1>6, <1>7
<1>9. Text(v[1 .. k - 1])
  BY <1>6, <1>8
<1>10. Text(v[1 .. k - 1] \o OnWire(s[k]))
  BY <1>9, OnWireIsText, Joined
<1> QED BY <1>3, <1>6, <1>8, <1>10

\* One more character.
LEMMA WireMore ==
    ASSUME NEW t, Text(t), NEW k \in 0 .. Len(t) - 1
    PROVE  Wire(SubSeq(t, 1, k + 1)) = Wire(SubSeq(t, 1, k)) \o OnWire(t[k + 1])
<1> DEFINE s == SubSeq(t, 1, k + 1)
           r == SubSeq(t, 1, k)
<1>1. Len(t) \in Nat /\ k \in Nat /\ k + 1 \in 0 .. Len(t) /\ k \in 0 .. Len(t)
  BY TextIs
<1>2. Text(s) /\ Len(s) = k + 1 /\ \A i \in 1 .. k + 1 : s[i] = t[i]
  BY <1>1, FrontIs
<1>3. Text(r) /\ Len(r) = k /\ \A i \in 1 .. k : r[i] = t[i]
  BY <1>1, FrontIs
<1> HIDE DEF s, r
<1>4. PICK v : Folded(s, 1 .. k + 1, v) /\ Wire(s) = v[1 .. k + 1]
  BY <1>2, WireAt
<1>5. PICK w : Folded(r, 1 .. k, w) /\ Wire(r) = w[1 .. k]
  BY <1>3, WireAt
<1>6. /\ v[1 .. 0] = <<>>
      /\ \A j \in 0 .. k : v[1 .. j + 1] = v[1 .. j] \o OnWire(s[j + 1])
  <2>1. k + 1 \in Nat /\ (k + 1) - 1 = k
    BY <1>1
  <2>2. /\ v[1 .. 0] = <<>>
        /\ \A j \in 0 .. (k + 1) - 1 : v[1 .. j + 1] = v[1 .. j] \o OnWire(s[j + 1])
    BY <1>4, <2>1, FoldedSteps
  <2> QED BY <2>1, <2>2
<1>7. /\ w[1 .. 0] = <<>>
      /\ \A j \in 0 .. k - 1 : w[1 .. j + 1] = w[1 .. j] \o OnWire(r[j + 1])
  BY <1>1, <1>5, FoldedSteps
<1>8. v[1 .. k] = w[1 .. k]
  <2> DEFINE Bad == {j \in 0 .. k : v[1 .. j] # w[1 .. j]}
  <2>1. SUFFICES ASSUME Bad # {} PROVE FALSE
    BY <1>1
  <2>2. Bad \subseteq Nat
    OBVIOUS
  <2>3. PICK j \in Bad : \A i \in Bad : j <= i
    BY <2>1, <2>2, LeastNumber
  <2>4. j # 0
    BY <1>6, <1>7, <2>3
  <2>5. j - 1 \in 0 .. k - 1 /\ j - 1 \in 0 .. k /\ ~(j <= j - 1) /\ (j - 1) + 1 = j
        /\ j \in 1 .. k /\ j \in 1 .. k + 1
    BY <1>1, <2>3, <2>4
  <2>6. v[1 .. j - 1] = w[1 .. j - 1]
    BY <2>3, <2>5
  <2>7. v[1 .. j] = v[1 .. j - 1] \o OnWire(s[j]) /\ w[1 .. j] = w[1 .. j - 1] \o OnWire(r[j])
    BY <1>6, <1>7, <2>5
  <2>8. s[j] = r[j]
    BY <1>2, <1>3, <2>5
  <2> QED BY <2>3, <2>6, <2>7, <2>8
<1>9. s[k + 1] = t[k + 1] /\ k \in 0 .. k /\ k + 1 \in 1 .. k + 1
  BY <1>1, <1>2
<1>10. Wire(s) = v[1 .. k] \o OnWire(t[k + 1])
  BY <1>4, <1>6, <1>9
<1> QED BY <1>5, <1>8, <1>10 DEF s, r

LEMMA WireEmpty ==
    ASSUME NEW t, Text(t)
    PROVE  Wire(SubSeq(t, 1, 0)) = <<>>
<1>1. 0 \in 0 .. Len(t)
  BY TextIs
<1>2. Text(SubSeq(t, 1, 0)) /\ Len(SubSeq(t, 1, 0)) = 0
  BY <1>1, FrontIs
<1>3. PICK v : Folded(SubSeq(t, 1, 0), 1 .. 0, v) /\ Wire(SubSeq(t, 1, 0)) = v[1 .. 0]
  BY <1>2, WireAt
<1> QED BY <1>3, FoldedSteps

LEMMA StillPrefix ==
    ASSUME NEW s, NEW t, NEW x, Text(s), Text(t), Text(x), IsPrefix(s, t)
    PROVE  IsPrefix(s, t \o x)
<1>1. /\ Text(t \o x) /\ Len(s) \in Nat /\ Len(t) \in Nat /\ Len(x) \in Nat
      /\ Len(t \o x) = Len(t) + Len(x)
      /\ \A i \in 1 .. Len(t) + Len(x) :
             (t \o x)[i] = IF i <= Len(t) THEN t[i] ELSE x[i - Len(t)]
  BY Joined, TextIs
<1>2. Len(s) <= Len(t) /\ SubSeq(s, 1, Len(s)) = SubSeq(t, 1, Len(s))
  BY DEF IsPrefix
<1>3. \A i \in 1 .. Len(s) : (t \o x)[i] = t[i]
  BY <1>1, <1>2
<1> DEFINE n == Len(s)
           a == SubSeq(t, 1, n)
           b == SubSeq(t \o x, 1, n)
<1>4. n \in 0 .. Len(t) /\ n \in 0 .. Len(t \o x)
  BY <1>1, <1>2
<1> HIDE DEF n
<1>5. /\ Text(a) /\ Len(a) = n /\ \A i \in 1 .. n : a[i] = t[i]
      /\ Text(b) /\ Len(b) = n /\ \A i \in 1 .. n : b[i] = (t \o x)[i]
  BY <1>1, <1>4, FrontIs
<1> HIDE DEF a, b
<1>6. a = [i \in 1 .. n |-> a[i]] /\ b = [i \in 1 .. n |-> b[i]]
  BY <1>5, TextIs
<1>7. \A i \in 1 .. n : b[i] = a[i]
  BY <1>3, <1>5 DEF n
<1>8. a = b
  BY <1>6, <1>7
<1> QED BY <1>1, <1>2, <1>8 DEF IsPrefix, a, b, n

LEMMA OwnPrefix ==
    ASSUME NEW s, Text(s)
    PROVE  IsPrefix(s, s)
BY TextIs DEF IsPrefix

-----------------------------------------------------------------------------
(* What the UART receives                                                  *)

\* How much of the text p_buf holds.
Fits == IF str < SIZE THEN str ELSE SIZE - 1

\* What was sent of what p_buf holds is on the wire; behind it, anything.
WireInv ==
    pc = "console" =>
        /\ str = Len(text)
        /\ uart_console =>
               IF sent <= Fits THEN uart = Wire(SubSeq(text, 1, sent))
               ELSE Text(uart) /\ IsPrefix(Wire(SubSeq(text, 1, Fits)), uart)

LEMMA WireInvShows == ASSUME PInv, WireInv PROVE ConsoleShows
<1> SUFFICES ASSUME pc = "console", uart_console, sent = str
             PROVE  IF str < SIZE THEN uart = Wire(SubSeq(text, 1, Fits))
                    ELSE IsPrefix(Wire(SubSeq(text, 1, Fits)), uart)
  BY DEF ConsoleShows, Wire, Fits
<1>1. str \in Nat /\ SIZE \in Nat \ {0} /\ Text(text) /\ str = Len(text)
  BY PrintkAssumption DEF PInv, TypeOK, BufferInv, WireInv
<1>2. CASE str < SIZE
  <2>1. Fits = str /\ sent <= Fits
    BY <1>1, <1>2 DEF Fits
  <2> QED BY <1>2, <2>1 DEF WireInv
<1>3. CASE ~(str < SIZE)
  <2>1. ~(sent <= Fits)
    BY <1>1, <1>3 DEF Fits
  <2> QED BY <1>3, <2>1 DEF WireInv
<1> QED BY <1>2, <1>3

LEMMA endWire == ASSUME PInv, vsnprintf_end PROVE WireInv'
<1>1. /\ pc = "format" /\ sent' = 0 /\ uart' = <<>> /\ str' = str /\ text' = text
  BY DEF vsnprintf_end
<1>2. str \in Nat /\ SIZE \in Nat \ {0} /\ Text(text) /\ str = Len(text)
  BY <1>1, PrintkAssumption DEF PInv, TypeOK, BufferInv
<1>3. 0 <= Fits'
  BY <1>1, <1>2 DEF Fits
<1>4. uart' = Wire(SubSeq(text', 1, 0))
  BY <1>1, <1>2, WireEmpty
<1> QED BY <1>1, <1>2, <1>3, <1>4 DEF WireInv

LEMMA consoleWire == ASSUME PInv, WireInv, qemu_console_write PROVE WireInv'
<1> DEFINE c == IF sent \in Index THEN p_buf[sent] ELSE Unset
           W(k) == Wire(SubSeq(text, 1, k))
<1>1. /\ pc = "console" /\ uart_console /\ sent < str /\ sent' = sent + 1
      /\ pc' = pc /\ text' = text /\ str' = str
      /\ uart' = uart \o OnWire(c)
  BY DEF qemu_console_write, OnWire
<1>2. /\ str \in Nat /\ SIZE \in Nat \ {0} /\ Text(text) /\ str = Len(text)
      /\ sent \in 0 .. str
  BY <1>1, PrintkAssumption DEF PInv, TypeOK, BufferInv, WireInv
<1>3. \A k \in 0 .. Fits - 1 : p_buf[k] = text[k + 1]
  BY <1>1, <1>2 DEF PInv, BufferInv, Fits
<1>4. Fits \in Nat /\ Fits <= str /\ Fits <= SIZE - 1 /\ Fits' = Fits
  BY <1>1, <1>2 DEF Fits
<1>5. \A k \in 0 .. str : Text(SubSeq(text, 1, k)) /\ Text(W(k))
  <2> TAKE k \in 0 .. str
  <2>1. k \in 0 .. Len(text)
    BY <1>2
  <2>2. Text(SubSeq(text, 1, k))
    BY <1>2, <2>1, FrontIs
  <2> QED BY <2>2, WireIsText
<1> HIDE DEF c, W
<1>6. CASE sent < Fits
  <2>1. sent \in 0 .. Fits - 1 /\ sent \in Index /\ sent \in 0 .. Len(text) - 1 /\ sent + 1 <= Fits
    BY <1>2, <1>4, <1>6 DEF Index
  <2>2. c = text[sent + 1]
    BY <1>3, <2>1 DEF c
  <2>3. uart = W(sent)
    BY <1>1, <1>2, <1>4, <1>6 DEF WireInv, W
  <2>4. uart' = W(sent + 1)
    BY <1>1, <1>2, <2>1, <2>2, <2>3, WireMore DEF W
  <2> QED BY <1>1, <1>2, <1>4, <2>1, <2>4 DEF WireInv, W
<1>7. CASE ~(sent < Fits)
  <2>1. Text(uart) /\ IsPrefix(W(Fits), uart)
    <3>1. CASE sent = Fits
      <4>1. uart = W(Fits)
        BY <1>1, <1>4, <3>1 DEF WireInv, W
      <4>2. Text(W(Fits))
        BY <1>4, <1>5
      <4> QED BY <4>1, <4>2, OwnPrefix
    <3>2. CASE sent # Fits
      <4>1. ~(sent <= Fits)
        BY <1>2, <1>4, <1>7, <3>2
      <4> QED BY <1>1, <4>1 DEF WireInv, W
    <3> QED BY <3>1, <3>2
  <2>2. Text(OnWire(c)) /\ Text(W(Fits))
    BY <1>4, <1>5, OnWireIsText
  <2>3. Text(uart') /\ IsPrefix(W(Fits), uart')
    BY <1>1, <2>1, <2>2, Joined, StillPrefix
  <2>4. ~(sent' <= Fits')
    BY <1>1, <1>2, <1>4, <1>7
  <2> QED BY <1>1, <1>2, <1>4, <2>3, <2>4 DEF WireInv, W
<1> QED BY <1>6, <1>7

LEMMA WireStep == PInv /\ WireInv /\ [Next]_vars => WireInv'
<1> SUFFICES ASSUME PInv, WireInv, [Next]_vars PROVE WireInv'
  OBVIOUS
<1>1. CASE vsnprintf_end
  BY <1>1, endWire
<1>2. CASE vsnprintf /\ ~vsnprintf_end
  <2>1. pc' = "format"
    BY <1>2, AtDirective DEF vsnprintf, literal, set_field_width, set_precision, char,
       str_arg, pointer, percent, integer, Directive
  <2> QED BY <2>1 DEF WireInv
<1>3. CASE qemu_console_write
  BY <1>3, consoleWire
<1>4. CASE (\E c \in Calls : printk(c)) \/ console_init \/ printk_return
  <2>1. pc' # "console"
    BY <1>4 DEF printk, console_init, printk_return
  <2> QED BY <2>1 DEF WireInv
<1>5. CASE UNCHANGED vars
  <2>1. /\ pc' = pc /\ str' = str /\ text' = text /\ sent' = sent /\ uart' = uart
        /\ uart_console' = uart_console /\ Fits' = Fits
    BY <1>5 DEF vars, Fits
  <2> QED BY <2>1 DEF WireInv
<1> QED BY <1>1, <1>2, <1>3, <1>4, <1>5 DEF Next, vsnprintf

\* Once there is a console, the UART receives the text that p_buf holds, a
\* carriage return before every line feed; all of the text if it fits: for
\* every format, argument and size of the buffer.
THEOREM ConsoleShowsText == Spec => []ConsoleShows
<1>1. Init => WireInv
  BY DEF Init, WireInv
<1>2. PInv /\ WireInv => ConsoleShows
  BY WireInvShows
<1>3. Spec => []WireInv
  BY <1>1, WireStep, PrintkInvariant, PTL DEF Spec
<1> QED BY <1>2, <1>3, PrintkInvariant, PTL

-----------------------------------------------------------------------------
(* The digits of put_dec                                                   *)

\* The quotient is the one that leaves a remainder below the divisor.
LEMMA DivIs ==
    ASSUME NEW d \in Nat \ {0}, NEW p \in Nat, NEW e \in Nat, e < d
    PROVE  (d * p + e) \div d = p
<1> DEFINE n == d * p + e
           q == n \div d
           m == n % d
<1>1. n \in Nat
  BY SMT
<1>2. q \in Nat /\ m \in Nat /\ m < d /\ n = d * q + m
  BY SMT, <1>1
<1> HIDE DEF q, m
<1>3. CASE q > p
  <2>1. q - p >= 1 /\ q - p \in Nat /\ d * (q - p) = e - m
    BY SMT, <1>2, <1>3
  <2>2. d * (q - p) >= d
    BY SMT, <2>1
  <2> QED BY SMT, <1>2, <2>1, <2>2
<1>4. CASE q < p
  <2>1. p - q >= 1 /\ p - q \in Nat /\ d * (p - q) = m - e
    BY SMT, <1>2, <1>4
  <2>2. d * (p - q) >= d
    BY SMT, <2>1
  <2> QED BY SMT, <1>2, <2>1, <2>2
<1> QED BY SMT, <1>2, <1>3, <1>4 DEF q

\* Every number has a quotient and a remainder.
LEMMA Divided ==
    \A n \in Nat : \A d \in Nat \ {0} :
        \E q \in Nat : \E s \in Nat : q = n \div d /\ n = d * q + s /\ s < d
<1> SUFFICES ASSUME NEW n \in Nat, NEW d \in Nat \ {0}
             PROVE  \E q \in Nat : \E s \in Nat :
                        q = n \div d /\ n = d * q + s /\ s < d
  OBVIOUS
<1>1. n \div d \in Nat /\ n % d \in Nat
  BY SMT
<1>2. (n % d) < d /\ n = d * (n \div d) + (n % d)
  BY SMT
<1> QED BY Zenon, <1>1, <1>2

\* Dividing twice is dividing by the product.
LEMMA DivDiv ==
    ASSUME NEW n \in Nat, NEW a \in Nat \ {0}, NEW b \in Nat \ {0}
    PROVE  (n \div a) \div b = n \div (a * b)
<1>1. PICK q \in Nat, s \in Nat : q = n \div a /\ n = a * q + s /\ s < a
  BY Divided
<1>2. PICK p \in Nat, t \in Nat : p = q \div b /\ q = b * p + t /\ t < b
  BY Divided
<1>3. n = (a * b) * p + (a * t + s)
  <2>1. a * (b * p + t) = (a * b) * p + a * t
    BY SMT
  <2>2. n = a * (b * p + t) + s
    BY <1>1, <1>2
  <2>3. (a * b) * p \in Nat /\ a * t \in Nat
    BY SMT
  <2> QED BY SMT, <2>1, <2>2, <2>3
<1>4. a * t + s < a * b
  <2>1. a * t + a <= a * b
    <3>1. b - t \in Nat /\ b - t >= 1
      BY SMT, <1>2
    <3>2. a * (b - t) >= a
      BY SMT, <3>1
    <3> QED BY SMT, <3>1, <3>2
  <2> QED BY SMT, <1>1, <2>1
<1>5. a * b \in Nat \ {0} /\ a * t + s \in Nat
  BY SMT
<1>6. ((a * b) * p + (a * t + s)) \div (a * b) = p
  BY <1>4, <1>5, DivIs
<1> QED BY <1>1, <1>2, <1>3, <1>6

\* The powers of ten that a number of 64 bits can reach.
Tens == <<1, 10, 100, 1000, 10000, 100000, 1000000, 10000000, 100000000,
          1000000000, 10000000000, 100000000000, 1000000000000,
          10000000000000, 100000000000000, 1000000000000000,
          10000000000000000, 100000000000000000, 1000000000000000000,
          10000000000000000000, 100000000000000000000>>

\* How the powers of ten grow.
LEMMA TensAre ==
    /\ \A k \in 1 .. 21 : Tens[k] \in Nat \ {0}
    /\ \A k \in 1 .. 19 : 100 * Tens[k] = Tens[k + 2]
    /\ \A k \in 1 .. 13 : Chunk * Tens[k] = Tens[k + 8]
    /\ Tens[1] = 1 /\ Tens[2] = 10 /\ Tens[3] = 100 /\ Tens[9] = Chunk
    /\ \A j, k \in 1 .. 21 : j < k => Tens[j] < Tens[k]
<1>1. \A k \in 1 .. 21 : Tens[k] \in Nat \ {0}
  BY SMTT(30) DEF Tens
<1>2. \A k \in 1 .. 19 : 100 * Tens[k] = Tens[k + 2]
  BY SMTT(30) DEF Tens
<1>3. \A k \in 1 .. 13 : Chunk * Tens[k] = Tens[k + 8]
  BY SMTT(30) DEF Tens, Chunk
<1>4. Tens[1] = 1 /\ Tens[2] = 10 /\ Tens[3] = 100 /\ Tens[9] = Chunk
  BY SMTT(30) DEF Tens, Chunk
<1>5. \A j, k \in 1 .. 21 : j < k => Tens[j] < Tens[k]
  BY SMTT(30) DEF Tens
<1> QED BY <1>1, <1>2, <1>3, <1>4, <1>5

\* The c lowest digits of n.
Low(ds, n, c) ==
    /\ Text(ds) /\ Len(ds) = c
    /\ \A k \in 1 .. c : ds[k] = (n \div Tens[k]) % 10

\* The digits of n, the lowest first and no zero on top of another digit.
IsDecimal(ds, n) ==
    /\ Len(ds) \in 1 .. 20 /\ Low(ds, n, Len(ds))
    /\ n < Tens[Len(ds) + 1] /\ (Len(ds) > 1 => n >= Tens[Len(ds)])

\* Digits of a quotient behind the digits that it leaves out.
LEMMA LowGrows ==
    ASSUME NEW n \in Nat, NEW c \in {2, 8}, NEW e \in Nat, c + e <= 21,
           NEW p, NEW q, Low(p, n, c), Low(q, n \div Tens[c + 1], e)
    PROVE  Low(p \o q, n, c + e)
<1>1. Text(p) /\ Text(q) /\ Len(p) = c /\ Len(q) = e
  BY DEF Low
<1>2. /\ Text(p \o q) /\ Len(p \o q) = c + e
      /\ \A k \in 1 .. c + e : (p \o q)[k] = IF k <= c THEN p[k] ELSE q[k - c]
  BY <1>1, Joined
<1>3. ASSUME NEW k \in 1 .. c + e
      PROVE  (p \o q)[k] = (n \div Tens[k]) % 10
  <2>1. CASE k <= c
    <3>1. k \in 1 .. c
      BY <2>1
    <3> QED BY <1>2, <2>1, <3>1 DEF Low
  <2>2. CASE ~(k <= c)
    <3>1. k - c \in 1 .. e /\ k - c \in 1 .. 21 /\ c + 1 \in 1 .. 21
      BY <2>2
    <3>2. (p \o q)[k] = ((n \div Tens[c + 1]) \div Tens[k - c]) % 10
      BY <1>2, <2>2, <3>1 DEF Low
    <3>3. Tens[c + 1] * Tens[k - c] = Tens[k]
      <4>1. CASE c = 2
        <5>1. k - 2 \in 1 .. 19 /\ (k - 2) + 2 = k /\ c + 1 = 3
          BY <2>2, <4>1
        <5>2. 100 * Tens[k - 2] = Tens[(k - 2) + 2]
          BY <5>1, TensAre
        <5> QED BY <4>1, <5>1, <5>2, TensAre
      <4>2. CASE c = 8
        <5>1. k - 8 \in 1 .. 13 /\ (k - 8) + 8 = k /\ c + 1 = 9
          BY <2>2, <4>2
        <5>2. Chunk * Tens[k - 8] = Tens[(k - 8) + 8]
          BY <5>1, TensAre
        <5> QED BY <4>2, <5>1, <5>2, TensAre
      <4> QED BY <4>1, <4>2
    <3>4. (n \div Tens[c + 1]) \div Tens[k - c] = n \div Tens[k]
      <4>1. Tens[c + 1] \in Nat \ {0} /\ Tens[k - c] \in Nat \ {0}
        BY <3>1, TensAre
      <4>2. (n \div Tens[c + 1]) \div Tens[k - c] = n \div (Tens[c + 1] * Tens[k - c])
        BY <4>1, DivDiv
      <4> QED BY <3>3, <4>2
    <3> QED BY <3>2, <3>4
  <2> QED BY <2>1, <2>2
<1> QED BY <1>2, <1>3 DEF Low

\* A decimal number behind the digits that it leaves out is a decimal number.
LEMMA DecimalGrows ==
    ASSUME NEW n \in Nat, n < Tens[21], NEW c \in {2, 8}, NEW p, NEW q, Low(p, n, c),
           IsDecimal(q, n \div Tens[c + 1]), n \div Tens[c + 1] > 0
    PROVE  IsDecimal(p \o q, n)
<1> DEFINE D == Tens[c + 1]
           m == n \div D
           j == Len(q)
<1>1. j \in 1 .. 20 /\ Low(q, m, j) /\ m < Tens[j + 1] /\ (j > 1 => m >= Tens[j])
  BY DEF IsDecimal
<1>2. D \in Nat \ {0}
  <2>1. c + 1 \in 1 .. 21
    OBVIOUS
  <2> QED BY <2>1, TensAre
<1>3. m \in Nat /\ m > 0 /\ n >= D * m /\ n < D * (m + 1)
  <2>1. PICK r \in Nat, s \in Nat : r = m /\ n = D * r + s /\ s < D
    BY <1>2, Divided
  <2> HIDE DEF D, m
  <2>2. D * (m + 1) = D * m + D
    BY SMT, <1>2, <2>1
  <2>3. D * m \in Nat
    BY SMT, <1>2, <2>1
  <2> QED BY SMT, <1>2, <2>1, <2>2, <2>3 DEF m, D
<1>4. Text(p) /\ Len(p) = c
  BY DEF Low
<1> HIDE DEF D, m, j
<1>5. \A k \in 1 .. 21 : Tens[k] \in Nat \ {0}
  BY TensAre
<1>6. \A k \in 1 .. 21 - c : D * Tens[k] = Tens[k + c]
  <2>1. CASE c = 2
    BY <2>1, TensAre DEF D
  <2>2. CASE c = 8
    BY <2>2, TensAre DEF D
  <2> QED BY <2>1, <2>2
<1>7. m >= Tens[j]
  <2>1. CASE j = 1
    BY <1>3, <2>1, TensAre
  <2>2. CASE j > 1
    BY <1>1, <2>2
  <2> QED BY <1>1, <2>1, <2>2
<1>8. \A x, y \in Nat : x <= y => D * x <= D * y
  BY SMT, <1>2
<1>9. c + j <= 20
  <2>1. SUFFICES ASSUME c + j > 20 PROVE FALSE
    BY <1>1
  <2>2. 21 - c \in 1 .. 21 /\ 21 - c \in 1 .. 21 - c /\ (21 - c) + c = 21
        /\ 21 - c <= j /\ j \in 1 .. 21
    BY <1>1, <2>1
  <2>3. Tens[21 - c] <= Tens[j]
    <3>1. CASE 21 - c = j
      BY <1>5, <2>2, <3>1
    <3>2. CASE 21 - c < j
      <4>1. Tens[21 - c] < Tens[j]
        BY <2>2, <3>2, TensAre
      <4> QED BY <1>5, <2>2, <4>1
    <3> QED BY <2>2, <3>1, <3>2
  <2>4. Tens[21 - c] <= m
    BY <1>3, <1>5, <1>7, <2>2, <2>3
  <2>5. D * Tens[21 - c] <= D * m
    BY <1>3, <1>5, <1>8, <2>2, <2>4
  <2>6. D * Tens[21 - c] = Tens[21]
    BY <1>6, <2>2
  <2>7. Tens[21] <= n
    <3>1. D * m \in Nat /\ Tens[21] \in Nat
      BY SMT, <1>2, <1>3, <1>5
    <3> QED BY <1>3, <2>5, <2>6, <3>1
  <2>8. Tens[21] \in Nat
    BY <1>5
  <2> QED BY <2>7, <2>8
<1>10. j \in 1 .. 21 - c /\ j + 1 \in 1 .. 21 - c /\ (j + 1) + c = (c + j) + 1
       /\ j + c = c + j /\ j \in 1 .. 21 /\ j + 1 \in 1 .. 21
       /\ c + j \in 1 .. 20 /\ c + j > 1 /\ c + j + 1 \in 1 .. 21
  BY <1>1, <1>9
<1>11. n >= Tens[c + j]
  <2>1. D * Tens[j] <= D * m
    BY <1>3, <1>5, <1>7, <1>8, <1>10
  <2>2. D * Tens[j] = Tens[c + j]
    BY <1>6, <1>10
  <2>3. D * m \in Nat /\ Tens[c + j] \in Nat
    BY SMT, <1>2, <1>3, <1>5, <1>10
  <2> QED BY <1>3, <2>1, <2>2, <2>3
<1>12. n < Tens[(c + j) + 1]
  <2>1. m + 1 <= Tens[j + 1] /\ m + 1 \in Nat /\ Tens[j + 1] \in Nat
    BY <1>1, <1>3, <1>5, <1>10
  <2>2. D * (m + 1) <= D * Tens[j + 1]
    BY <1>8, <2>1
  <2>3. D * Tens[j + 1] = Tens[(c + j) + 1]
    BY <1>6, <1>10
  <2>4. D * (m + 1) \in Nat /\ Tens[(c + j) + 1] \in Nat
    BY SMT, <1>2, <1>3, <1>5, <1>10
  <2> QED BY <1>3, <2>2, <2>3, <2>4
<1>13. Low(p \o q, n, c + j)
  BY <1>1, <1>9, LowGrows DEF m, D
<1>14. Len(p \o q) = c + j
  BY <1>13 DEF Low
<1> QED BY <1>10, <1>11, <1>12, <1>13, <1>14 DEF IsDecimal

\* Concatenation under a name, so that a step does not expand it.
Cat(s, t) == s \o t

\* Texts are closed under concatenation, which is associative.
LEMMA CatTexts ==
    /\ \A s, t : Text(s) /\ Text(t) => Text(Cat(s, t))
    /\ \A s, t, u : Text(s) /\ Text(t) /\ Text(u) =>
                       Cat(Cat(s, t), u) = Cat(s, Cat(t, u))
<1>1. \A s, t : Text(s) /\ Text(t) => Text(Cat(s, t))
  BY Joined DEF Cat
<1>2. \A s, t, u : Text(s) /\ Text(t) /\ Text(u) =>
                      Cat(Cat(s, t), u) = Cat(s, Cat(t, u))
  <2> SUFFICES ASSUME NEW s, NEW t, NEW u, Text(s), Text(t), Text(u)
               PROVE  Cat(Cat(s, t), u) = Cat(s, Cat(t, u))
    OBVIOUS
  <2>1. PICK S, T, U : s \in Seq(S) /\ t \in Seq(T) /\ u \in Seq(U)
    BY DEF Text
  <2> DEFINE V == S \cup T \cup U
  <2>2. s \in Seq(V) /\ t \in Seq(V) /\ u \in Seq(V)
    BY <2>1, SeqMonotonic
  <2> QED BY <2>2, ConcatAssociative DEF Cat
<1> QED BY <1>1, <1>2

\* Four texts, joined from the left or from the right.
LEMMA FourTexts ==
    \A s, t, u, v : Text(s) /\ Text(t) /\ Text(u) /\ Text(v) =>
        Cat(Cat(Cat(s, t), u), v) = Cat(s, Cat(t, Cat(u, v)))
<1> SUFFICES ASSUME NEW s, NEW t, NEW u, NEW v,
                    Text(s), Text(t), Text(u), Text(v)
             PROVE  Cat(Cat(Cat(s, t), u), v) = Cat(s, Cat(t, Cat(u, v)))
  OBVIOUS
<1>1. Text(Cat(s, t))
  BY CatTexts
<1>2. Cat(Cat(Cat(s, t), u), v) = Cat(Cat(s, t), Cat(u, v))
  BY <1>1, CatTexts
<1>3. Text(Cat(u, v))
  BY CatTexts
<1>4. Cat(Cat(s, t), Cat(u, v)) = Cat(s, Cat(t, Cat(u, v)))
  BY <1>3, CatTexts
<1> QED BY <1>2, <1>4

\* A pair holds the two lowest digits of the number that it is the remainder of.
LEMMA PairLow ==
    ASSUME NEW n \in Nat
    PROVE  Low(Pair(n - 100 * (n \div 100)), n, 2)
<1> DEFINE ds == Pair(n - 100 * (n \div 100))
<1>1. /\ (n - 100 * (n \div 100)) % 10 = n % 10
      /\ (n - 100 * (n \div 100)) \div 10 = (n \div 10) % 10
  BY SMTT(30)
<1>2. ds = <<n % 10, (n \div 10) % 10>>
  BY <1>1 DEF Pair
<1> HIDE DEF ds
<1>3. Text(ds) /\ Len(ds) = 2
  BY <1>2, Tuples
<1>4. ds[1] = n % 10 /\ ds[2] = (n \div 10) % 10
  BY <1>2
<1>5. n \div Tens[1] = n /\ n \div Tens[2] = n \div 10
  <2>1. Tens[1] = 1 /\ Tens[2] = 10
    BY TensAre
  <2> QED BY SMT, <2>1
<1>6. ASSUME NEW k \in 1 .. 2
      PROVE  ds[k] = (n \div Tens[k]) % 10
  <2>1. k = 1 \/ k = 2
    OBVIOUS
  <2> QED BY <1>4, <1>5, <2>1
<1> QED BY <1>3, <1>6 DEF Low, ds

\* The highest digits are a decimal number of one or two digits.
LEMMA TopDecimal ==
    ASSUME NEW n \in Nat, n < 100
    PROVE  IsDecimal(Top(n), n)
<1>1. n \div Tens[1] = n /\ n \div Tens[2] = n \div 10
  <2>1. Tens[1] = 1 /\ Tens[2] = 10
    BY TensAre
  <2> QED BY SMT, <2>1
<1>2. CASE n < 10
  <2> DEFINE ds == <<n>>
  <2>1. Top(n) = ds
    BY <1>2 DEF Top
  <2>2. Text(ds) /\ Len(ds) = 1 /\ ds[1] = n
    BY Tuples
  <2> HIDE DEF ds
  <2>3. n % 10 = n
    BY <1>2
  <2>4. \A k \in 1 .. 1 : ds[k] = (n \div Tens[k]) % 10
    <3>1. \A k \in 1 .. 1 : k = 1
      OBVIOUS
    <3> QED BY <1>1, <2>2, <2>3, <3>1
  <2>5. n < Tens[1 + 1]
    BY <1>2, TensAre
  <2> QED BY <2>1, <2>2, <2>4, <2>5 DEF IsDecimal, Low
<1>3. CASE ~(n < 10)
  <2> DEFINE ds == Pair(n)
  <2>1. Top(n) = ds
    BY <1>3 DEF Top
  <2>2. n - 100 * (n \div 100) = n
    BY SMT
  <2>3. Low(ds, n, 2)
    BY <2>2, PairLow
  <2> HIDE DEF ds
  <2>4. Len(ds) = 2
    BY <2>3 DEF Low
  <2>5. n < Tens[2 + 1] /\ n >= Tens[2]
    BY <1>3, TensAre
  <2> QED BY <2>1, <2>3, <2>4, <2>5 DEF IsDecimal
<1> QED BY <1>2, <1>3

\* The quotients that both functions compute.
LEMMA Quotients ==
    ASSUME NEW r \in Nat, r < Chunk
    PROVE  /\ Hi32(r) = r \div 100 /\ Hi32(r) \in Nat /\ Hi32(r) < 1000000
           /\ Hi32(Hi32(r)) = Hi32(r) \div 100 /\ Hi32(Hi32(r)) \in Nat
           /\ Hi32(Hi32(r)) < 10000
           /\ Hi19(Hi32(Hi32(r))) = Hi32(Hi32(r)) \div 100
           /\ Hi19(Hi32(Hi32(r))) \in Nat /\ Hi19(Hi32(Hi32(r))) < 100
<1>1. Hi32(r) = r \div 100
  BY HundredthExact
<1>2. r \div 100 \in Nat /\ r \div 100 < 1000000 /\ r \div 100 < Chunk
  BY SMT DEF Chunk
<1> DEFINE q2 == Hi32(r)
<1>3. q2 \in Nat /\ q2 < 1000000 /\ q2 < Chunk
  BY <1>1, <1>2
<1> HIDE DEF q2
<1>4. Hi32(q2) = q2 \div 100
  BY <1>3, HundredthExact
<1>5. q2 \div 100 \in Nat /\ q2 \div 100 < 10000
  BY SMT, <1>3
<1> DEFINE q4 == Hi32(q2)
<1>6. q4 \in Nat /\ q4 < 10000
  BY <1>4, <1>5
<1> HIDE DEF q4
<1>7. Hi19(q4) = q4 \div 100
  BY <1>6, ShortHundredthExact
<1>8. q4 \div 100 \in Nat /\ q4 \div 100 < 100
  BY SMT, <1>6
<1> QED BY <1>1, <1>3, <1>4, <1>6, <1>7, <1>8 DEF q2, q4

\* put_dec_full8 stores the eight lowest digits, zeros included.
THEOREM FullDigits ==
    ASSUME NEW r \in Nat, r < Chunk
    PROVE  Low(put_dec_full8(r), r, 8)
<1> DEFINE q2 == Hi32(r)
           q4 == Hi32(q2)
           q6 == Hi19(q4)
           p0 == Pair(r - 100 * q2)
           p2 == Pair(q2 - 100 * q4)
           p4 == Pair(q4 - 100 * q6)
           p6 == Pair(q6)
<1>1. /\ q2 = r \div 100 /\ q2 \in Nat /\ q4 = q2 \div 100 /\ q4 \in Nat
      /\ q6 = q4 \div 100 /\ q6 \in Nat /\ q6 < 100
  BY Quotients
<1>2. put_dec_full8(r) = p0 \o p2 \o p4 \o p6
  BY DEF put_dec_full8
<1> HIDE DEF q2, q4, q6
<1>3. Low(p0, r, 2) /\ Low(p2, q2, 2) /\ Low(p4, q4, 2)
  BY <1>1, PairLow
<1>4. Low(p6, q6, 2)
  <2>1. q6 - 100 * (q6 \div 100) = q6
    BY SMT, <1>1
  <2> QED BY <1>1, <2>1, PairLow
<1> HIDE DEF p0, p2, p4, p6
<1>5. Tens[2 + 1] = 100
  BY TensAre
<1>6. Low(p4 \o p6, q4, 2 + 2)
  BY <1>1, <1>3, <1>4, <1>5, LowGrows
<1>7. Low(p2 \o (p4 \o p6), q2, 2 + 4)
  BY <1>1, <1>3, <1>5, <1>6, LowGrows
<1>8. Low(p0 \o (p2 \o (p4 \o p6)), r, 2 + 6)
  BY <1>1, <1>3, <1>5, <1>7, LowGrows
<1>9. Text(p0) /\ Text(p2) /\ Text(p4) /\ Text(p6)
  BY <1>3, <1>4 DEF Low
<1>10. p0 \o p2 \o p4 \o p6 = p0 \o (p2 \o (p4 \o p6))
  <2>1. Cat(Cat(Cat(p0, p2), p4), p6) = Cat(p0, Cat(p2, Cat(p4, p6)))
    BY <1>9, FourTexts
  <2> QED BY <2>1 DEF Cat
<1> QED BY <1>2, <1>8, <1>10

\* put_dec_trunc8 stores the digits without leading zeros.
THEOREM TruncDecimal ==
    ASSUME NEW r \in Nat, r < Chunk
    PROVE  IsDecimal(put_dec_trunc8(r), r)
<1> DEFINE q2 == Hi32(r)
           q4 == Hi32(q2)
           q6 == Hi19(q4)
           p0 == Pair(r - 100 * q2)
           p2 == Pair(q2 - 100 * q4)
           p4 == Pair(q4 - 100 * q6)
<1>1. /\ q2 = r \div 100 /\ q2 \in Nat /\ q2 < 1000000
      /\ q4 = q2 \div 100 /\ q4 \in Nat /\ q4 < 10000
      /\ q6 = q4 \div 100 /\ q6 \in Nat /\ q6 < 100
  BY Quotients
<1> DEFINE a1 == Top(r)
           a2 == p0 \o Top(q2)
           a3 == p0 \o p2 \o Top(q4)
           a4 == p0 \o p2 \o p4 \o Top(q6)
<1>2. /\ r < 100 => put_dec_trunc8(r) = a1
      /\ r >= 100 /\ q2 < 100 => put_dec_trunc8(r) = a2
      /\ r >= 100 /\ q2 >= 100 /\ q4 < 100 => put_dec_trunc8(r) = a3
      /\ r >= 100 /\ q2 >= 100 /\ q4 >= 100 => put_dec_trunc8(r) = a4
  <2>1. put_dec_trunc8(r) = CASE r < 100  -> a1
                              [] r >= 100 /\ q2 < 100 -> a2
                              [] r >= 100 /\ q2 >= 100 /\ q4 < 100 -> a3
                              [] OTHER -> a4
    BY DEF put_dec_trunc8
  <2> HIDE DEF a1, a2, a3, a4, q2, q4, q6
  <2> QED BY SMT, <1>1, <2>1
<1> HIDE DEF q2, q4, q6
<1>3. Low(p0, r, 2) /\ Low(p2, q2, 2) /\ Low(p4, q4, 2)
  BY <1>1, PairLow
<1> HIDE DEF p0, p2, p4
<1>4. Tens[2 + 1] = 100 /\ r < Tens[21] /\ q2 < Tens[21] /\ q4 < Tens[21]
  <2>1. Chunk < Tens[21] /\ Tens[21] \in Nat /\ Tens[3] = 100
    BY TensAre
  <2> QED BY <1>1, <2>1 DEF Chunk
<1>5. Text(p0) /\ Text(p2) /\ Text(p4)
  BY <1>3 DEF Low
<1>6. \A n : Text(Top(n))
  BY PairsAreTexts
<1>7. CASE r < 100
  <2>1. put_dec_trunc8(r) = Top(r)
    BY Zenon, <1>2, <1>7
  <2> QED BY <1>7, <2>1, TopDecimal
<1>8. CASE r >= 100 /\ q2 < 100
  <2>1. put_dec_trunc8(r) = p0 \o Top(q2)
    BY Zenon, <1>2, <1>8
  <2>2. q2 > 0
    BY SMT, <1>1, <1>8
  <2>3. IsDecimal(Top(q2), q2)
    BY <1>1, <1>8, TopDecimal
  <2>4. IsDecimal(p0 \o Top(q2), r)
    BY <1>1, <1>3, <1>4, <2>2, <2>3, DecimalGrows
  <2> QED BY <2>1, <2>4
<1>9. CASE r >= 100 /\ q2 >= 100 /\ q4 < 100
  <2>1. put_dec_trunc8(r) = p0 \o p2 \o Top(q4)
    BY Zenon, <1>2, <1>9
  <2>2. q2 > 0 /\ q4 > 0
    BY SMT, <1>1, <1>9
  <2>3. IsDecimal(Top(q4), q4)
    BY <1>1, <1>9, TopDecimal
  <2>4. IsDecimal(p2 \o Top(q4), q2)
    BY <1>1, <1>3, <1>4, <2>2, <2>3, DecimalGrows
  <2>5. IsDecimal(p0 \o (p2 \o Top(q4)), r)
    BY <1>1, <1>3, <1>4, <2>2, <2>4, DecimalGrows
  <2>6. p0 \o p2 \o Top(q4) = p0 \o (p2 \o Top(q4))
    BY <1>5, <1>6, Assoc
  <2> QED BY <2>1, <2>5, <2>6
<1>10. CASE r >= 100 /\ q2 >= 100 /\ q4 >= 100
  <2>1. put_dec_trunc8(r) = p0 \o p2 \o p4 \o Top(q6)
    BY Zenon, <1>2, <1>10
  <2>2. q2 > 0 /\ q4 > 0 /\ q6 > 0
    BY SMT, <1>1, <1>10
  <2>3. IsDecimal(Top(q6), q6)
    BY <1>1, TopDecimal
  <2>4. IsDecimal(p4 \o Top(q6), q4)
    BY <1>1, <1>3, <1>4, <2>2, <2>3, DecimalGrows
  <2>5. IsDecimal(p2 \o (p4 \o Top(q6)), q2)
    BY <1>1, <1>3, <1>4, <2>2, <2>4, DecimalGrows
  <2>6. IsDecimal(p0 \o (p2 \o (p4 \o Top(q6))), r)
    BY <1>1, <1>3, <1>4, <2>2, <2>5, DecimalGrows
  <2>7. p0 \o p2 \o p4 \o Top(q6) = p0 \o (p2 \o (p4 \o Top(q6)))
    <3> DEFINE top == Top(q6)
    <3>1. Text(top)
      BY <1>6
    <3> HIDE DEF top
    <3>2. Cat(Cat(Cat(p0, p2), p4), top) = Cat(p0, Cat(p2, Cat(p4, top)))
      BY <1>5, <3>1, FourTexts
    <3>3. p0 \o p2 \o p4 \o top = p0 \o (p2 \o (p4 \o top))
      BY <3>2 DEF Cat
    <3> QED BY <3>3 DEF top
  <2> QED BY <2>1, <2>6, <2>7
<1>11. r < 100 \/ (r >= 100 /\ q2 < 100) \/ (r >= 100 /\ q2 >= 100 /\ q4 < 100)
       \/ (r >= 100 /\ q2 >= 100 /\ q4 >= 100)
  BY <1>1
<1> QED BY <1>7, <1>8, <1>9, <1>10, <1>11

\* A chunk has the digits of the number that it is cut from.
LEMMA ChunkLow ==
    ASSUME NEW n \in Nat
    PROVE  n % Chunk \in Nat /\ n % Chunk < Chunk
           /\ Low(put_dec_full8(n % Chunk), n, 8)
<1> DEFINE r == n % Chunk
           m == n \div Chunk
<1>1. r \in Nat /\ r < Chunk /\ m \in Nat /\ n = Chunk * m + r
  BY SMT DEF Chunk
<1> HIDE DEF r, m
<1>2. Low(put_dec_full8(r), r, 8)
  BY <1>1, FullDigits
<1>3. ASSUME NEW k \in 1 .. 8
      PROVE  (r \div Tens[k]) % 10 = (n \div Tens[k]) % 10
  <2>1. PICK T \in Nat \ {0}, F \in Nat : T = Tens[k] /\ Chunk = T * (10 * F)
    <3>1. \A i \in 1 .. 8 : Chunk = Tens[i] * (10 * Tens[9 - i])
      BY SMTT(30) DEF Tens, Chunk
    <3> DEFINE T == Tens[k]
               F == Tens[9 - k]
    <3>2. k \in 1 .. 21 /\ 9 - k \in 1 .. 21
      OBVIOUS
    <3>3. T \in Nat \ {0} /\ F \in Nat
      BY <3>2, TensAre
    <3>4. T = Tens[k] /\ Chunk = T * (10 * F)
      BY Zenon, <3>1
    <3> QED BY Zenon, <3>3, <3>4
  <2>2. PICK q \in Nat, s \in Nat : q = r \div T /\ r = T * q + s /\ s < T
    BY <1>1, Divided
  <2>3. n = T * (10 * (F * m) + q) + s
    <3>1. T * (10 * (F * m) + q) = (T * (10 * F)) * m + T * q
      BY SMT, <1>1
    <3>2. n = (T * (10 * F)) * m + (T * q + s)
      BY <1>1, <2>1, <2>2
    <3> QED BY SMT, <1>1, <3>1, <3>2
  <2>4. 10 * (F * m) + q \in Nat
    BY SMT, <1>1
  <2>5. (T * (10 * (F * m) + q) + s) \div T = 10 * (F * m) + q
    BY <2>2, <2>4, DivIs
  <2>6. n \div T = 10 * (F * m) + q
    BY <2>3, <2>5
  <2>7. \A x, y \in Nat : (10 * x + y) % 10 = y % 10
    BY SMT
  <2>8. F * m \in Nat
    BY SMT, <1>1
  <2>9. (n \div T) % 10 = q % 10
    BY <2>6, <2>7, <2>8
  <2> QED BY <2>1, <2>2, <2>9
<1>4. Low(put_dec_full8(r), n, 8)
  BY <1>2, <1>3 DEF Low
<1> QED BY <1>1, <1>4 DEF r

\* put_dec stores the digits of every number of 64 bits, lowest first, with no
\* leading zero: no chunk loses the zeros in its middle or its top.
THEOREM PutDecExact ==
    ASSUME NEW n \in Nat, n < 18446744073709551616
    PROVE  IsDecimal(put_dec(n), n)
<1> DEFINE m == n \div Chunk
           l == m \div Chunk
<1>1. n < Tens[21] /\ Tens[8 + 1] = Chunk
  BY DEF Tens, Chunk
<1>2. m \in Nat /\ m < Tens[21]
  <2>1. m \in Nat /\ m <= n
    BY SMT DEF Chunk
  <2>2. Tens[21] \in Nat
    BY TensAre
  <2> QED BY <1>1, <2>1, <2>2
<1>3. l \in Nat /\ l < Chunk
  BY SMT DEF Chunk
<1>4. put_dec(n) = IF n < Chunk THEN put_dec_trunc8(n)
                   ELSE put_dec_full8(n % Chunk) \o
                     (IF m < Chunk THEN put_dec_trunc8(m)
                      ELSE put_dec_full8(m % Chunk) \o put_dec_trunc8(l))
  BY DEF put_dec
<1>5. CASE n < Chunk
  BY <1>4, <1>5, TruncDecimal
<1>6. CASE ~(n < Chunk)
  <2>1. m > 0
    BY SMT, <1>6 DEF Chunk
  <2>2. Low(put_dec_full8(n % Chunk), n, 8) /\ Low(put_dec_full8(m % Chunk), m, 8)
    BY <1>2, ChunkLow
  <2>3. ~(m < Chunk) => l > 0
    <3> HIDE DEF m
    <3> QED BY SMT, <1>2 DEF Chunk
  <2> HIDE DEF l
  <2>4. l = m \div Chunk
    BY DEF l
  <2> HIDE DEF m
  <2>5. m = n \div Chunk
    BY DEF m
  <2>6. CASE m < Chunk
    <3>1. IsDecimal(put_dec_trunc8(m), m)
      BY <1>2, <2>6, TruncDecimal
    <3>2. IsDecimal(put_dec_full8(n % Chunk) \o put_dec_trunc8(m), n)
      BY <1>1, <2>1, <2>2, <2>5, <3>1, DecimalGrows
    <3> QED BY <1>4, <1>6, <2>6, <3>2
  <2>7. CASE ~(m < Chunk)
    <3>1. IsDecimal(put_dec_trunc8(l), l)
      BY <1>3, TruncDecimal
    <3>2. IsDecimal(put_dec_full8(m % Chunk) \o put_dec_trunc8(l), m)
      BY <1>1, <1>2, <2>2, <2>3, <2>4, <2>7, <3>1, DecimalGrows
    <3>3. IsDecimal(put_dec_full8(n % Chunk) \o
                      (put_dec_full8(m % Chunk) \o put_dec_trunc8(l)), n)
      BY <1>1, <2>1, <2>2, <2>5, <3>2, DecimalGrows
    <3> QED BY <1>4, <1>6, <2>7, <3>3
  <2> QED BY <2>6, <2>7
<1> QED BY <1>5, <1>6
=============================================================================

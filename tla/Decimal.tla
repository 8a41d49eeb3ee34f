------------------------------ MODULE Decimal ------------------------------
(***************************************************************************)
(* kernel/printk.c: decimal digits without division, lowest digit first.   *)
(* A quotient by 100 is the high part of a product with a rounded up       *)
(* reciprocal: (r * 0x28f5c29) >> 32 and, for a shorter r,                 *)
(* (r * 0x147b) >> 19.                                                     *)
(***************************************************************************)
EXTENDS Integers, Sequences

\* The 64-bit product is computed from the halves of 0x28f5c29 = 655 * 2^16 +
\* 23593, so that small instances stay within the integers that can be checked.
Hi32(r) == (r * 655 + (r * 23593) \div 65536) \div 65536
Hi19(r) == (r * 5243) \div 524288

\* decpair[x], and what the last store keeps of it.
Pair(x) == <<x % 10, x \div 10>>
Top(x)  == IF x < 10 THEN <<x>> ELSE Pair(x)

put_dec_trunc8(r) ==
    LET q2 == Hi32(r)
        q4 == Hi32(q2)
        q6 == Hi19(q4)
    IN  CASE r < 100  -> Top(r)
          [] r >= 100 /\ q2 < 100 -> Pair(r - 100 * q2) \o Top(q2)
          [] r >= 100 /\ q2 >= 100 /\ q4 < 100 ->
                 Pair(r - 100 * q2) \o Pair(q2 - 100 * q4) \o Top(q4)
          [] OTHER -> Pair(r - 100 * q2) \o Pair(q2 - 100 * q4)
                        \o Pair(q4 - 100 * q6) \o Top(q6)

put_dec_full8(r) ==
    LET q2 == Hi32(r)
        q4 == Hi32(q2)
        q6 == Hi19(q4)
    IN  Pair(r - 100 * q2) \o Pair(q2 - 100 * q4) \o Pair(q4 - 100 * q6)
          \o Pair(q6)

Chunk == 100000000

\* Mutant: the low chunk loses its leading zeros.
put_dec_trunc_all(n) ==
    IF n < Chunk THEN put_dec_trunc8(n)
    ELSE put_dec_trunc8(n % Chunk) \o put_dec_trunc8(n \div Chunk)

\* At most two full chunks: n has 64 bits.
put_dec(n) ==
    IF n < Chunk THEN put_dec_trunc8(n)
    ELSE LET m == n \div Chunk
         IN  put_dec_full8(n % Chunk) \o
             (IF m < Chunk THEN put_dec_trunc8(m)
              ELSE put_dec_full8(m % Chunk) \o put_dec_trunc8(m \div Chunk))
=============================================================================

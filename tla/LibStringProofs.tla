-------------------------- MODULE LibStringProofs --------------------------
(***************************************************************************)
(* memcpy, memmove and memset move exactly the bytes they should, no       *)
(* function reads past the end of a string or block, and each returns what *)
(* its definition on whole strings says, for memories of any size, blocks  *)
(* and strings of any length and any overlap memmove is given.             *)
(***************************************************************************)
EXTENDS LibString, TLAPS, WellFoundedInduction, SequenceTheorems

\* The byte of the target block at address i when the call is done.
Wanted(i) == IF call.fn = "memset" THEN unsigned_char(call.c)
             ELSE old[call.b + i - call.a]

\* The addresses in from .. to - 1 hold what they should, the others what they
\* held before the call.
DoneIn(from, to) ==
    \A i \in Addr : mem[i] = IF from <= i /\ i < to THEN Wanted(i) ELSE old[i]

\* The two blocks lie in the memory; memcpy's are disjoint.
Blocks ==
    /\ call.a \in Nat /\ 1 <= call.a
    /\ call.b \in Nat /\ 1 <= call.b
    /\ call.n \in Nat /\ call.a + call.n <= Size + 1
    /\ call.c \in Nat
    /\ call.fn # "memset" => call.b + call.n <= Size + 1
    /\ call.fn = "memcpy" => Disjoint(call.a, call.n, call.b, call.n)

Memories ==
    /\ mem \in [Addr -> 0 .. 255]
    /\ old \in [Addr -> 0 .. 255]

\* How far a call is that copies upwards: p has moved with n.
Upwards ==
    /\ p = call.a + (call.n - n)
    /\ call.fn # "memset" => q = call.b + (call.n - n)
    /\ DoneIn(call.a, p)

\* How far one is that copies downwards.
Downwards ==
    /\ p = call.a + n /\ q = call.b + n
    /\ DoneIn(p, call.a + call.n)

GoesDown == call.fn = "memmove" /\ ~Forward

Progress ==
    /\ ret \in Int
    /\ ret = Entered => /\ p = call.a /\ q = call.b /\ n = call.n
                        /\ mem = old
    /\ ret = Running => /\ n \in Nat /\ n <= call.n
                        /\ IF GoesDown THEN Downwards ELSE Upwards
    /\ Returned => ret = call.a /\ DoneIn(call.a, call.a + call.n)

MoveInv == call.fn \in Moves => Blocks /\ Memories /\ Progress

-----------------------------------------------------------------------------
\* When the calls return, the invariant is the property.
LEMMA ProgressExact ==
    ASSUME MoveInv
    PROVE  MovesExact
<1> SUFFICES ASSUME Returned, call.fn \in Moves
             PROVE  /\ ret = call.a
                    /\ \A i \in Addr :
                         mem[i] = IF i < call.a \/ i >= call.a + call.n THEN old[i]
                                  ELSE IF call.fn = "memset" THEN unsigned_char(call.c)
                                  ELSE old[call.b + i - call.a]
  BY DEF MovesExact
<1>1. ret = call.a /\ DoneIn(call.a, call.a + call.n) /\ Blocks
  BY DEF MoveInv, Progress
<1>2. ASSUME NEW i \in Addr
      PROVE  mem[i] = IF i < call.a \/ i >= call.a + call.n THEN old[i]
                      ELSE IF call.fn = "memset" THEN unsigned_char(call.c)
                      ELSE old[call.b + i - call.a]
  <2>1. mem[i] = IF call.a <= i /\ i < call.a + call.n THEN Wanted(i) ELSE old[i]
    BY <1>1 DEF DoneIn
  <2> QED BY <2>1, <1>1, LibAssumption DEF Blocks, Wanted, Addr
<1> QED BY <1>1, <1>2

\* A call begins with a legal pair of blocks and has moved nothing.
LEMMA MovesBegin == Init => MoveInv
<1> SUFFICES ASSUME Init, call.fn \in Moves
             PROVE  Blocks /\ Memories /\ Progress
  BY DEF MoveInv
<1>1. PICK fn \in Functions : \E m \in Memory(fn), a \in Addr, b \in Source(fn),
                                k \in Count(fn), c \in Char(fn) :
          /\ Legal(m, fn, a, b, k)
          /\ call = [fn |-> fn, a |-> a, b |-> b, n |-> k, c |-> c]
          /\ mem = m /\ old = m
          /\ p = a /\ q = b /\ n = k
  BY DEF Init
<1>2. PICK m \in Memory(fn), a \in Addr, b \in Source(fn),
           k \in Count(fn), c \in Char(fn) :
          /\ Legal(m, fn, a, b, k)
          /\ call = [fn |-> fn, a |-> a, b |-> b, n |-> k, c |-> c]
          /\ mem = m /\ old = m
          /\ p = a /\ q = b /\ n = k
  BY <1>1
<1>3. fn \in {"memcpy", "memmove", "memset"}
  BY <1>2 DEF Moves
<1>4. m \in [Addr -> 0 .. 255] /\ c \in Nat /\ k \in 0 .. Size /\ b \in Addr
  <2>1. m \in [Addr -> 0 .. 255]
    BY <1>2, <1>3, LibAssumption DEF Memory
  <2>2. c \in Nat
    BY <1>2, <1>3, LibAssumption DEF Char, Chars
  <2>3. k \in 0 .. Size
    BY <1>2, <1>3 DEF Count, OnBlock, OnBoth
  <2>4. b \in Addr
    BY <1>2, LibAssumption DEF Source, Addr
  <2> QED BY <2>1, <2>2, <2>3, <2>4
<1>5. a + k <= Size + 1 /\ (fn # "memset" => b + k <= Size + 1)
      /\ (fn = "memcpy" => Disjoint(a, k, b, k))
  BY <1>2, <1>3 DEF Legal, OnString
<1>6. Blocks
  BY <1>2, <1>3, <1>4, <1>5, LibAssumption DEF Blocks, Addr, Disjoint
<1>7. Memories
  BY <1>2, <1>4 DEF Memories
<1>8. Progress
  BY <1>2 DEF Init, Progress, Returned, Entered, Running
<1> QED BY <1>6, <1>7, <1>8

-----------------------------------------------------------------------------
\* Going up, the byte that a copy reads is still the one of the call: memcpy's
\* blocks are disjoint, and memmove goes up only from a source at or above the
\* target, so that what was stored lies below q.
LEMMA ReadUpwards ==
    ASSUME call.fn \in {"memcpy", "memmove"}, Blocks, Memories, Upwards,
           n \in Nat, n # 0, n <= call.n, ~GoesDown
    PROVE  p \in Addr /\ q \in Addr /\ At(q) = Wanted(p) /\ At(q) \in 0 .. 255
<1>1. /\ p = call.a + (call.n - n) /\ q = call.b + (call.n - n)
      /\ p \in Addr /\ q \in Addr
  BY LibAssumption DEF Upwards, Blocks, Addr
<1>2. At(q) = mem[q] /\ mem[q] \in 0 .. 255
  BY <1>1 DEF At, Memories
<1>3. ~(call.a <= q /\ q < p)
  BY <1>1 DEF Blocks, Disjoint, GoesDown, Forward
<1>4. mem[q] = old[q]
  BY <1>1, <1>3 DEF Upwards, DoneIn
<1>5. call.b + p - call.a = q
  BY <1>1 DEF Blocks
<1> QED BY <1>1, <1>2, <1>4, <1>5 DEF Wanted

\* Going down the source lies below the target: what was stored lies above q.
LEMMA ReadDownwards ==
    ASSUME call.fn = "memmove", Blocks, Memories, Downwards,
           n \in Nat, n # 0, n <= call.n, GoesDown
    PROVE  /\ p - 1 \in Addr /\ q - 1 \in Addr
           /\ At(q - 1) = Wanted(p - 1) /\ At(q - 1) \in 0 .. 255
<1>1. /\ p = call.a + n /\ q = call.b + n
      /\ p - 1 \in Addr /\ q - 1 \in Addr
  BY LibAssumption DEF Downwards, Blocks, Addr
<1>2. At(q - 1) = mem[q - 1] /\ mem[q - 1] \in 0 .. 255
  BY <1>1 DEF At, Memories
<1>3. ~(p <= q - 1)
  BY <1>1 DEF Blocks, GoesDown, Forward
<1>4. mem[q - 1] = old[q - 1]
  BY <1>1, <1>3 DEF Downwards, DoneIn
<1>5. call.b + (p - 1) - call.a = q - 1
  BY <1>1 DEF Blocks
<1> QED BY <1>1, <1>2, <1>4, <1>5 DEF Wanted

\* Storing the wanted byte at the upper end of what is done.
LEMMA StoreUpwards ==
    ASSUME UNCHANGED <<call, old>>, DoneIn(call.a, p), Memories, Blocks,
           p \in Addr, call.a <= p, NEW x, x = Wanted(p), x \in 0 .. 255,
           mem' = [mem EXCEPT ![p] = x], p' = p + 1
    PROVE  DoneIn(call.a, p)' /\ Memories'
<1>1. \A i \in Addr : mem'[i] = IF i = p THEN x ELSE mem[i]
  BY DEF Memories
<1>2. \A i \in Addr : Wanted(i)' = Wanted(i)
  BY DEF Wanted
<1>3. ASSUME NEW i \in Addr
      PROVE  mem'[i] = IF call.a <= i /\ i < p + 1 THEN Wanted(i) ELSE old[i]
  BY <1>1, LibAssumption DEF DoneIn, Addr, Blocks
<1>4. DoneIn(call.a, p)'
  BY <1>2, <1>3 DEF DoneIn
<1>5. Memories'
  BY DEF Memories
<1> QED BY <1>4, <1>5

\* Storing it at the lower end.
LEMMA StoreDownwards ==
    ASSUME UNCHANGED <<call, old>>, DoneIn(p, call.a + call.n), Memories, Blocks,
           p - 1 \in Addr, p \in Nat, p <= call.a + call.n,
           NEW x, x = Wanted(p - 1), x \in 0 .. 255,
           mem' = [mem EXCEPT ![p - 1] = x], p' = p - 1
    PROVE  DoneIn(p, call.a + call.n)' /\ Memories'
<1>1. \A i \in Addr : mem'[i] = IF i = p - 1 THEN x ELSE mem[i]
  BY DEF Memories
<1>2. \A i \in Addr : Wanted(i)' = Wanted(i)
  BY DEF Wanted
<1>3. ASSUME NEW i \in Addr
      PROVE  mem'[i] = IF p - 1 <= i /\ i < call.a + call.n THEN Wanted(i) ELSE old[i]
  BY <1>1, LibAssumption DEF DoneIn, Addr, Blocks
<1>4. DoneIn(p, call.a + call.n)'
  BY <1>2, <1>3 DEF DoneIn
<1>5. Memories'
  BY DEF Memories
<1> QED BY <1>4, <1>5

-----------------------------------------------------------------------------
\* The arguments are never changed.
LEMMA BlocksKept == ASSUME UNCHANGED call, Blocks PROVE Blocks'
BY DEF Blocks, Disjoint

\* A call returns when no byte is left.
LEMMA LastByte ==
    ASSUME Blocks, Memories, Progress, ret = Running, n = 0,
           Return(call.a), UNCHANGED <<call, old, mem>>
    PROVE  Progress'
<1>1. DoneIn(call.a, call.a + call.n)
  <2>1. CASE GoesDown
    <3>1. p = call.a /\ DoneIn(p, call.a + call.n)
      BY <2>1 DEF Progress, Downwards, Blocks
    <3> QED BY <3>1
  <2>2. CASE ~GoesDown
    <3>1. p = call.a + call.n /\ DoneIn(call.a, p)
      BY <2>2 DEF Progress, Upwards, Blocks
    <3> QED BY <3>1
  <2> QED BY <2>1, <2>2
<1>2. \A i : Wanted(i)' = Wanted(i)
  BY DEF Wanted
<1>3. DoneIn(call.a, call.a + call.n)'
  BY <1>1, <1>2 DEF DoneIn
<1>4. ret' = call.a /\ call.a \in Nat /\ call' = call
  BY DEF Return, Blocks
<1> QED BY <1>3, <1>4 DEF Progress, Returned, Entered, Running

\* Before the first byte nothing is done.
LEMMA NothingDone ==
    ASSUME mem = old, NEW from \in Int, NEW to \in Int, to <= from
    PROVE  DoneIn(from, to)
<1> SUFFICES ASSUME NEW i \in Addr
             PROVE  mem[i] = IF from <= i /\ i < to THEN Wanted(i) ELSE old[i]
  BY DEF DoneIn
<1>1. ~(from <= i /\ i < to)
  BY LibAssumption DEF Addr
<1> QED BY <1>1

\* One more byte upwards: every round of memcpy and memset, and of memmove
\* when its source is not below its target.
LEMMA RoundUpwards ==
    ASSUME call.fn \in Moves, Blocks, Memories, Progress, ret = Running,
           n # 0, ~GoesDown, UNCHANGED <<call, old>>, NEW x,
           x = Wanted(p), x \in 0 .. 255, mem' = [mem EXCEPT ![p] = x],
           Round(p + 1, q', n - 1), call.fn # "memset" => q' = q + 1
    PROVE  Memories' /\ Progress'
<1>1. Upwards /\ n \in Nat /\ n <= call.n
  BY DEF Progress
<1>2. p \in Addr /\ call.a <= p /\ p \in Nat
  BY <1>1, LibAssumption DEF Upwards, Blocks, Addr
<1>3. p' = p + 1 /\ n' = n - 1 /\ ret' = Running /\ call' = call
  BY DEF Round
<1>4. DoneIn(call.a, p)' /\ Memories'
  BY <1>1, <1>2, <1>3, StoreUpwards DEF Upwards
<1>5. n' \in Nat /\ n' <= call'.n
  BY <1>1, <1>3 DEF Blocks
<1>6. p' = call'.a + (call'.n - n')
  BY <1>1, <1>3 DEF Upwards, Blocks
<1>7. call'.fn # "memset" => q' = call'.b + (call'.n - n')
  BY <1>1, <1>3 DEF Upwards, Blocks
<1>8. ~GoesDown'
  BY <1>3 DEF GoesDown, Forward
<1>9. Upwards'
  BY <1>4, <1>6, <1>7 DEF Upwards
<1> QED BY <1>3, <1>4, <1>5, <1>8, <1>9 DEF Progress, Returned, Entered, Running

\* One more byte downwards.
LEMMA RoundDownwards ==
    ASSUME call.fn = "memmove", Blocks, Memories, Progress, ret = Running,
           n # 0, GoesDown, UNCHANGED <<call, old>>,
           mem' = [mem EXCEPT ![p - 1] = At(q - 1)],
           Round(p - 1, q - 1, n - 1)
    PROVE  Memories' /\ Progress'
<1>1. Downwards /\ n \in Nat /\ n <= call.n
  BY DEF Progress
<1>2. /\ p - 1 \in Addr /\ At(q - 1) = Wanted(p - 1) /\ At(q - 1) \in 0 .. 255
      /\ p \in Nat /\ p <= call.a + call.n
  BY <1>1, ReadDownwards DEF Downwards, Blocks
<1>3. p' = p - 1 /\ q' = q - 1 /\ n' = n - 1 /\ ret' = Running /\ call' = call
  BY DEF Round
<1>4. DoneIn(p, call.a + call.n)' /\ Memories'
  BY <1>1, <1>2, <1>3, StoreDownwards DEF Downwards
<1>5. n' \in Nat /\ n' <= call'.n
  BY <1>1, <1>3 DEF Blocks
<1>6. p' = call'.a + n' /\ q' = call'.b + n'
  BY <1>1, <1>3 DEF Downwards, Blocks
<1>7. GoesDown'
  BY <1>3 DEF GoesDown, Forward
<1>8. Downwards'
  BY <1>4, <1>6 DEF Downwards
<1> QED BY <1>3, <1>4, <1>5, <1>7, <1>8 DEF Progress, Returned, Entered, Running

-----------------------------------------------------------------------------
(* One step                                                                *)

\* A call that begins is where the calls upwards start.
LEMMA EnterKeeps ==
    ASSUME Enter, call.fn \in Moves, Blocks, Memories, Progress
    PROVE  Blocks' /\ Memories' /\ Progress'
<1>1. /\ call.fn \in WithoutPrologue /\ ret = Entered
      /\ UNCHANGED <<call, old, mem>>
      /\ p' = p /\ q' = q /\ n' = n /\ ret' = Running
  BY DEF Enter, Begin, Round
<1>2. call.fn # "memmove"
  BY <1>1 DEF WithoutPrologue
<1>3. p = call.a /\ q = call.b /\ n = call.n /\ mem = old
  BY <1>1 DEF Progress
<1>4. DoneIn(call.a, p)'
  BY <1>1, <1>3, NothingDone DEF Blocks, DoneIn, Wanted
<1>5. ~GoesDown' /\ Upwards'
  BY <1>1, <1>2, <1>3, <1>4 DEF GoesDown, Upwards, Blocks
<1>6. Progress'
  BY <1>1, <1>3, <1>5 DEF Progress, Returned, Entered, Running, Blocks
<1> QED BY <1>1, <1>6, BlocksKept DEF Memories

LEMMA memcpyKeeps ==
    ASSUME memcpy, Blocks, Memories, Progress
    PROVE  Blocks' /\ Memories' /\ Progress'
<1>1. call.fn = "memcpy" /\ ret = Running /\ UNCHANGED <<call, old>>
  BY DEF memcpy, Loop
<1>2. ~GoesDown /\ call.fn \in Moves
  BY <1>1 DEF GoesDown, Moves
<1>3. CASE n = 0
  <2>1. Return(call.a) /\ UNCHANGED mem
    BY <1>3 DEF memcpy
  <2> QED BY <1>1, <1>3, <2>1, LastByte, BlocksKept DEF Memories
<1>4. CASE n # 0
  <2>1. mem' = [mem EXCEPT ![p] = At(q)] /\ Round(p + 1, q + 1, n - 1)
    BY <1>4 DEF memcpy
  <2>2. At(q) = Wanted(p) /\ At(q) \in 0 .. 255
    BY <1>1, <1>2, <1>4, ReadUpwards DEF Progress
  <2>3. q' = q + 1
    BY <2>1 DEF Round
  <2>4. Round(p + 1, q', n - 1)
    BY <2>1, <2>3
  <2> QED BY <1>1, <1>2, <1>4, <2>1, <2>2, <2>3, <2>4, RoundUpwards, BlocksKept
<1> QED BY <1>3, <1>4

LEMMA memsetKeeps ==
    ASSUME memset, Blocks, Memories, Progress
    PROVE  Blocks' /\ Memories' /\ Progress'
<1>1. call.fn = "memset" /\ ret = Running /\ UNCHANGED <<call, old>>
  BY DEF memset, Loop
<1>2. ~GoesDown /\ call.fn \in Moves
  BY <1>1 DEF GoesDown, Moves
<1>3. CASE n = 0
  <2>1. Return(call.a) /\ UNCHANGED mem
    BY <1>3 DEF memset
  <2> QED BY <1>1, <1>3, <2>1, LastByte, BlocksKept DEF Memories
<1>4. CASE n # 0
  <2>1. mem' = [mem EXCEPT ![p] = unsigned_char(call.c)] /\ Round(p + 1, q, n - 1)
    BY <1>4 DEF memset
  <2>2. unsigned_char(call.c) = Wanted(p)
    BY <1>1 DEF Wanted
  <2>3. unsigned_char(call.c) \in 0 .. 255
    BY DEF unsigned_char, Blocks
  <2>4. Round(p + 1, q', n - 1)
    BY <2>1 DEF Round
  <2> QED BY <1>1, <1>2, <1>4, <2>1, <2>2, <2>3, <2>4, RoundUpwards, BlocksKept
<1> QED BY <1>3, <1>4

\* memmove's prologue goes to the end of the blocks when it copies downwards.
LEMMA memmoveBegins ==
    ASSUME Begin("memmove"), Blocks, Memories, Progress,
           IF Forward THEN Round(p, q, n) ELSE Round(p + n, q + n, n)
    PROVE  Blocks' /\ Memories' /\ Progress'
<1>1. /\ call.fn = "memmove" /\ ret = Entered /\ UNCHANGED <<call, old, mem>>
      /\ p = call.a /\ q = call.b /\ n = call.n /\ mem = old
  BY DEF Begin, Progress
<1>2. (GoesDown <=> ~Forward) /\ (GoesDown' <=> GoesDown)
  BY <1>1 DEF GoesDown, Forward
<1>3. n' = n /\ ret' = Running
  BY DEF Round
<1>4. CASE Forward
  <2>1. p' = p /\ q' = q
    BY <1>4 DEF Round
  <2>2. DoneIn(call.a, p)'
    BY <1>1, <2>1, NothingDone DEF Blocks, DoneIn, Wanted
  <2>3. Upwards'
    BY <1>1, <1>3, <2>1, <2>2 DEF Upwards, Blocks
  <2>4. Progress'
    BY <1>1, <1>2, <1>3, <1>4, <2>3 DEF Progress, Returned, Entered, Running, Blocks
  <2> QED BY <1>1, <2>4, BlocksKept DEF Memories
<1>5. CASE ~Forward
  <2>1. p' = p + n /\ q' = q + n
    BY <1>5 DEF Round
  <2>2. DoneIn(p', call.a + call.n)
    BY <1>1, <2>1, NothingDone DEF Blocks
  <2>3. DoneIn(p, call.a + call.n)'
    BY <1>1, <2>2 DEF DoneIn, Wanted
  <2>4. Downwards'
    BY <1>1, <1>3, <2>1, <2>3 DEF Downwards, Blocks
  <2>5. Progress'
    BY <1>1, <1>2, <1>3, <1>5, <2>4 DEF Progress, Returned, Entered, Running, Blocks
  <2> QED BY <1>1, <2>5, BlocksKept DEF Memories
<1> QED BY <1>4, <1>5

\* A round of memmove.
LEMMA memmoveLoops ==
    ASSUME Loop("memmove"), memmove, Blocks, Memories, Progress
    PROVE  Blocks' /\ Memories' /\ Progress'
<1>1. call.fn = "memmove" /\ ret = Running /\ UNCHANGED <<call, old>>
  BY DEF Loop
<1>2. (GoesDown <=> ~Forward) /\ call.fn \in Moves
  BY <1>1 DEF GoesDown, Moves
<1>3. IF n = 0 THEN Return(call.a) /\ Reads({}) /\ UNCHANGED mem
      ELSE IF Forward
      THEN /\ mem' = [mem EXCEPT ![p] = At(q)] /\ Reads({q})
           /\ Round(p + 1, q + 1, n - 1)
      ELSE /\ mem' = [mem EXCEPT ![p - 1] = At(q - 1)] /\ Reads({q - 1})
           /\ Round(p - 1, q - 1, n - 1)
  BY <1>1 DEF memmove, Begin, Entered, Running
<1>4. CASE n = 0
  BY <1>1, <1>3, <1>4, LastByte, BlocksKept DEF Memories
<1>5. CASE n # 0 /\ Forward
  <2>1. mem' = [mem EXCEPT ![p] = At(q)] /\ Round(p + 1, q + 1, n - 1)
    BY <1>3, <1>5
  <2>2. At(q) = Wanted(p) /\ At(q) \in 0 .. 255
    BY <1>1, <1>2, <1>5, ReadUpwards DEF Progress
  <2>3. q' = q + 1
    BY <2>1 DEF Round
  <2>4. Round(p + 1, q', n - 1)
    BY <2>1, <2>3
  <2> QED BY <1>1, <1>2, <1>5, <2>1, <2>2, <2>3, <2>4, RoundUpwards, BlocksKept
<1>6. CASE n # 0 /\ ~Forward
  <2>1. mem' = [mem EXCEPT ![p - 1] = At(q - 1)] /\ Round(p - 1, q - 1, n - 1)
    BY <1>3, <1>6
  <2> QED BY <1>1, <1>2, <1>6, <2>1, RoundDownwards, BlocksKept
<1> QED BY <1>4, <1>5, <1>6

\* The other functions leave the three to theirs: the call stays what it is.
LEMMA OthersKeep ==
    ASSUME \/ strcpy \/ strncpy \/ strcmp \/ strncmp \/ strlen \/ strnlen
           \/ strstr \/ strnsrt \/ strchr \/ strrchr
           \/ memcmp \/ memchr \/ strtoul
    PROVE  call' = call /\ call.fn \notin Moves
BY DEF strcpy, strncpy, strcmp, strncmp, strlen, strnlen, strstr, strnsrt, strchr,
       strrchr, memcmp, memchr, strtoul, Search, Loop, Begin, Moves

LEMMA MovesStep == MoveInv /\ [Next]_vars => MoveInv'
<1> SUFFICES ASSUME MoveInv, [Next]_vars
             PROVE  MoveInv'
  OBVIOUS
<1>1. CASE UNCHANGED vars
  <2>1. UNCHANGED <<call, mem, old, p, q, n, ret>>
    BY <1>1 DEF vars
  <2> QED BY <2>1 DEF MoveInv, Blocks, Memories, Progress, GoesDown, Forward, Upwards,
                      Downwards, DoneIn, Wanted, Disjoint, Returned
<1>2. CASE Enter
  <2>1. call' = call
    BY <1>2 DEF Enter, Begin
  <2> QED BY <1>2, <2>1, EnterKeeps DEF MoveInv
<1>3. CASE memcpy
  <2>1. call.fn = "memcpy" /\ call.fn \in Moves
    BY <1>3 DEF memcpy, Loop, Moves
  <2> QED BY <1>3, <2>1, memcpyKeeps DEF MoveInv
<1>4. CASE memset
  <2>1. call.fn \in Moves
    BY <1>4 DEF memset, Loop, Moves
  <2> QED BY <1>4, <2>1, memsetKeeps DEF MoveInv
<1>5. CASE memmove
  <2>1. call.fn \in Moves
    BY <1>5 DEF memmove, Loop, Begin, Moves
  <2>2. CASE Loop("memmove")
    BY <1>5, <2>1, <2>2, memmoveLoops DEF MoveInv
  <2>3. CASE ~Loop("memmove")
    BY <1>5, <2>1, <2>3, memmoveBegins DEF MoveInv, memmove
  <2> QED BY <2>2, <2>3
<1>6. CASE \/ strcpy \/ strncpy \/ strcmp \/ strncmp \/ strlen \/ strnlen
           \/ strstr \/ strnsrt \/ strchr \/ strrchr
           \/ memcmp \/ memchr \/ strtoul
  BY <1>6, OthersKeep DEF MoveInv
<1> QED BY <1>1, <1>2, <1>3, <1>4, <1>5, <1>6 DEF Next

-----------------------------------------------------------------------------
\* In every call of memcpy, memmove and memset, MoveInv holds at every round.
THEOREM MovesInvariant == Spec => []MoveInv
BY MovesBegin, MovesStep, PTL DEF Spec

\* memcpy, memmove and memset leave in memory exactly what they are called for,
\* for every size of the memory and of the blocks, and every overlap memmove is
\* given: the direction it chooses never reads a byte it has already overwritten.
THEOREM MovesCorrect == Spec => []MovesExact
<1>1. MoveInv => MovesExact
  BY ProgressExact
<1> QED BY <1>1, MovesInvariant, PTL

-----------------------------------------------------------------------------
(* What is read                                                            *)

\* The string or block at from has no NUL before to.
Scanned(from, to) == from <= to /\ \A j \in from .. to - 1 : old[j] # 0

\* All but n bytes of a block were counted off from its front: the next is at s.
Left(s, start) == n \in 0 .. call.n /\ s = start + (call.n - n)

\* Of the target only what lies below p has been stored.
Untouched == \A i \in Addr : i \notin call.a .. p - 1 => mem[i] = old[i]

\* Where the cursors of a call are in its loop. (The moves have MoveInv.)
RunInv ==
    LET f == call.fn
    IN  /\ f \in OnString \cup {"strtoul", "strnlen", "strcmp", "strncmp"} =>
               Scanned(call.a, p)
        /\ f \in {"strcmp", "strncmp"} => Scanned(call.b, q)
        /\ f \in {"strcpy", "strncpy"} =>
               Scanned(call.b, q) /\ call.a <= p /\ Untouched
        /\ f = "strcpy" => p - call.a = q - call.b
        /\ f \in {"strnlen", "strncmp", "strncpy", "memcmp", "memchr"} =>
               Left(p, call.a)
        /\ f \in {"strncmp", "memcmp"} => Left(q, call.b)
        /\ f = "strncpy" => q <= call.b + (call.n - n)
        /\ f \in {"strstr", "strnsrt"} =>
               /\ q = call.b /\ n \in Nat /\ call.a <= p
               /\ p + n = IF f = "strstr" THEN StrEnd(old, call.a)
                          ELSE call.a + call.n
        /\ f = "strrchr" => q \in Nat
        /\ f = "strtoul" => n \in Nat

Writes == Moves \cup {"strcpy", "strncpy"}

ReadInv ==
    /\ ReadsInside
    /\ Legal(old, call.fn, call.a, call.b, call.n)
    /\ call.fn \notin Writes => mem = old
    /\ ret = Entered => p = call.a /\ q = call.b /\ n = call.n /\ mem = old
    /\ ret = Running => RunInv

-----------------------------------------------------------------------------
(* Where strings end                                                       *)

\* The least number, from the library's theorem on well-founded relations.
LEMMA LeastNumber ==
    ASSUME NEW T, T \subseteq Nat, T # {}
    PROVE  \E x \in T : \A y \in T : x <= y
<1> DEFINE R == OpToRel(<, Nat)
<1>1. IsWellFoundedOn(R, Nat)
  BY NatLessThanWellFounded
<1>2. \A x, y \in Nat : x < y => <<x, y>> \in R
  BY DEF OpToRel
<1> HIDE DEF R
<1>3. PICK x \in T : \A y \in T : ~ (<<y, x>> \in R)
  BY <1>1, WFMin
<1>4. ASSUME NEW y \in T PROVE x <= y
  <2>1. x \in Nat /\ y \in Nat
    OBVIOUS
  <2>2. ~(y < x)
    BY <1>2, <1>3, <2>1
  <2> QED BY <2>1, <2>2
<1> QED BY <1>4

\* StrEnd finds the first NUL.
LEMMA EndFound ==
    ASSUME NEW m \in [Addr -> 0 .. 255], NEW a \in Addr, StringAt(m, a)
    PROVE  /\ StrEnd(m, a) \in a .. Size /\ m[StrEnd(m, a)] = 0
           /\ \A i \in a .. StrEnd(m, a) - 1 : m[i] # 0
<1> DEFINE T == {k \in a .. Size : m[k] = 0}
<1>1. T \subseteq Nat /\ T # {}
  BY LibAssumption DEF Addr, StringAt
<1>2. PICK k \in T : \A j \in T : k <= j
  BY <1>1, LeastNumber
<1>3. \A i \in a .. k - 1 : m[i] # 0
  BY <1>2, LibAssumption DEF Addr
<1>4. \E k_1 \in a .. Size : m[k_1] = 0 /\ \A i \in a .. k_1 - 1 : m[i] # 0
  BY <1>2, <1>3
<1> QED BY <1>4 DEF StrEnd

LEMMA FirstFound ==
    ASSUME NEW s, s \subseteq Nat, s # {}
    PROVE  FirstOf(s) \in s /\ \A j \in s : FirstOf(s) <= j
<1>1. \E i \in s : \A j \in s : i <= j
  BY LeastNumber
<1> QED BY <1>1 DEF FirstOf

\* A cursor that has met no NUL in a string is at most at its NUL.
LEMMA InString ==
    ASSUME old \in [Addr -> 0 .. 255], NEW a \in Addr, StringAt(old, a),
           NEW t \in Int, Scanned(a, t)
    PROVE  /\ t \in Addr /\ t <= StrEnd(old, a) /\ t \in UpToNUL(a, Size)
           /\ old[t] # 0 => /\ Scanned(a, t + 1) /\ t + 1 \in Addr
                             /\ t + 1 \in UpToNUL(a, Size)
<1>1. /\ StrEnd(old, a) \in a .. Size /\ old[StrEnd(old, a)] = 0
  BY EndFound
<1>2. ~(StrEnd(old, a) < t)
  BY <1>1, LibAssumption DEF Scanned, Addr
<1>3. t \in a .. Size /\ t <= StrEnd(old, a)
  BY <1>1, <1>2, LibAssumption DEF Scanned, Addr
<1>4. ASSUME old[t] # 0
      PROVE  Scanned(a, t + 1) /\ t + 1 \in a .. Size
  <2>1. t # StrEnd(old, a)
    BY <1>1, <1>4
  <2> QED BY <1>1, <1>3, <1>4, <2>1, LibAssumption DEF Scanned, Addr
<1> QED BY <1>3, <1>4, LibAssumption DEF Scanned, UpToNUL, Addr

-----------------------------------------------------------------------------
(* What every step knows                                                   *)

LEMMA ReadFacts ==
    ASSUME ReadInv
    PROVE  /\ call.a \in Addr /\ call.b \in Addr /\ call.a \in Nat /\ call.b \in Nat
           /\ call.n \in Nat /\ call.c \in Nat /\ Size \in Nat \ {0}
           /\ mem \in [Addr -> 0 .. 255] /\ old \in [Addr -> 0 .. 255]
           /\ p \in Int /\ q \in Int /\ n \in Int /\ endp \in Int
           /\ read \subseteq MayRead
<1>1. call \in [fn : Functions, a : Addr, b : Addr, n : Nat, c : Nat]
  BY DEF ReadInv, ReadsInside, TypeOK
<1>2. /\ mem \in [Addr -> 0 .. 255] /\ old \in [Addr -> 0 .. 255]
      /\ p \in Int /\ q \in Int /\ n \in Int /\ endp \in Int
      /\ read \subseteq MayRead
  BY DEF ReadInv, ReadsInside, TypeOK
<1>3. call.a \in Addr /\ call.b \in Addr /\ call.n \in Nat /\ call.c \in Nat
  BY <1>1
<1>4. Addr \subseteq Nat /\ Size \in Nat \ {0}
  BY LibAssumption DEF Addr
<1> QED BY <1>2, <1>3, <1>4

\* The addresses as numbers.
LEMMA AddrFacts == Size \in Nat \ {0} /\ \A i \in Addr : i \in Nat /\ 1 <= i /\ i <= Size
BY LibAssumption DEF Addr

LEMMA ByteRead ==
    ASSUME ReadInv, NEW i
    PROVE  /\ At(i) \in 0 .. 255
           /\ At(i) # 0 => i \in Addr
           /\ i \in Addr => At(i) = mem[i]
BY ReadFacts DEF At

\* The contract, as far as it is needed.
LEMMA LegalIs ==
    ASSUME ReadInv
    PROVE  /\ call.fn \in OnString \cup {"strtoul", "strcmp", "strstr"} =>
                  StringAt(old, call.a)
           /\ call.fn \in {"strcmp", "strstr", "strcpy", "strnsrt"} =>
                  StringAt(old, call.b)
           /\ call.fn = "strcpy" =>
                  LET l == Len(Str(old, call.b)) + 1
                  IN  call.a + l <= Size + 1 /\ Disjoint(call.a, l, call.b, l)
           /\ call.fn = "strncpy" =>
                  /\ call.a + call.n <= Size + 1
                  /\ call.b + call.n <= Size + 1 \/ StringAt(old, call.b)
                  /\ \A i \in (call.a .. call.a + call.n - 1)
                              \cap (call.b .. call.b + call.n - 1) :
                        \E j \in call.b .. i - 1 : old[j] = 0
<1>1. Legal(old, call.fn, call.a, call.b, call.n)
  BY DEF ReadInv
<1>2. CASE call.fn \in OnString \cup {"strtoul"}
  BY <1>1, <1>2 DEF Legal, OnString
<1>3. CASE call.fn \in {"strcmp", "strstr"}
  BY <1>1, <1>3 DEF Legal, OnString
<1>4. CASE call.fn = "strcpy"
  BY <1>1, <1>4 DEF Legal, OnString
<1>5. CASE call.fn = "strncpy"
  BY <1>1, <1>5 DEF Legal, OnString
<1>6. CASE call.fn = "strnsrt"
  BY <1>1, <1>6 DEF Legal, OnString
<1> QED BY <1>2, <1>3, <1>4, <1>5, <1>6

\* What each function may read.
LEMMA MayReadIs ==
    /\ call.fn \in OnString \cup {"strtoul"} => MayRead = UpToNUL(call.a, Size)
    /\ call.fn \in {"strcmp", "strstr"} =>
           MayRead = UpToNUL(call.a, Size) \cup UpToNUL(call.b, Size)
    /\ call.fn = "strcpy"  => MayRead = UpToNUL(call.b, Size)
    /\ call.fn = "strncpy" => MayRead = UpToNUL(call.b, call.b + call.n - 1)
    /\ call.fn = "strnlen" => MayRead = UpToNUL(call.a, call.a + call.n - 1)
    /\ call.fn = "strncmp" =>
           MayRead = UpToNUL(call.a, call.a + call.n - 1)
                         \cup UpToNUL(call.b, call.b + call.n - 1)
    /\ call.fn = "strnsrt" => MayRead = Block(call.a) \cup UpToNUL(call.b, Size)
    /\ call.fn = "memcmp"  => MayRead = Block(call.a) \cup Block(call.b)
    /\ call.fn = "memchr"  => MayRead = Block(call.a)
    /\ call.fn \in {"memcpy", "memmove"} => MayRead = Block(call.b)
<1>1. call.fn \in OnString \cup {"strtoul"} => MayRead = UpToNUL(call.a, Size)
  BY DEF MayRead, OnString
<1>2. call.fn \in {"strcmp", "strstr"} =>
           MayRead = UpToNUL(call.a, Size) \cup UpToNUL(call.b, Size)
  BY DEF MayRead, OnString
<1>3. /\ call.fn = "strcpy"  => MayRead = UpToNUL(call.b, Size)
      /\ call.fn = "strncpy" => MayRead = UpToNUL(call.b, call.b + call.n - 1)
      /\ call.fn = "strnlen" => MayRead = UpToNUL(call.a, call.a + call.n - 1)
      /\ call.fn = "strncmp" =>
             MayRead = UpToNUL(call.a, call.a + call.n - 1)
                           \cup UpToNUL(call.b, call.b + call.n - 1)
  BY DEF MayRead, OnString
<1>4. /\ call.fn = "strnsrt" => MayRead = Block(call.a) \cup UpToNUL(call.b, Size)
      /\ call.fn = "memcmp"  => MayRead = Block(call.a) \cup Block(call.b)
      /\ call.fn = "memchr"  => MayRead = Block(call.a)
      /\ call.fn \in {"memcpy", "memmove"} => MayRead = Block(call.b)
  BY DEF MayRead, OnString
<1> QED BY <1>1, <1>2, <1>3, <1>4

\* What a step has to show.
LEMMA ReadKept ==
    ASSUME ReadInv, UNCHANGED <<call, old>>,
           mem' \in [Addr -> 0 .. 255], call.fn \notin Writes => mem' = mem,
           p' \in Int, q' \in Int, n' \in Int, endp' \in Int,
           ret' \in Int, ret' # Entered, ret' = Running => RunInv',
           read' \subseteq MayRead
    PROVE  ReadInv'
<1>1. MayRead' = MayRead
  BY DEF MayRead, UpToNUL, Block
<1>2. Legal(old, call.fn, call.a, call.b, call.n)'
  BY DEF ReadInv
<1>3. TypeOK'
  BY DEF ReadInv, ReadsInside, TypeOK
<1> QED BY <1>1, <1>2, <1>3 DEF ReadInv, ReadsInside

\* A call that returns leaves its cursors where they are.
LEMMA ReturnKept ==
    ASSUME ReadInv, UNCHANGED <<call, old>>, UNCHANGED <<p, q, n>>,
           ret' \in Int, ret' > Running,
           mem' \in [Addr -> 0 .. 255], call.fn \notin Writes => mem' = mem,
           endp' \in Int, read' \subseteq MayRead
    PROVE  ReadInv'
<1>1. ret' # Entered /\ ret' # Running
  BY DEF Entered, Running
<1> QED BY <1>1, ReadKept, ReadFacts

\* One that goes on has moved them.
LEMMA RoundKept ==
    ASSUME ReadInv, UNCHANGED <<call, old>>, ret' = Running,
           p' \in Int, q' \in Int, n' \in Int, RunInv',
           mem' \in [Addr -> 0 .. 255], call.fn \notin Writes => mem' = mem,
           endp' \in Int, read' \subseteq MayRead
    PROVE  ReadInv'
<1>1. ret' # Entered /\ ret' \in Int
  BY DEF Entered, Running
<1> QED BY <1>1, ReadKept

-----------------------------------------------------------------------------
(* One function after the other                                            *)

\* strlen, strchr, strrchr and strtoul go up to the NUL of one string.
LEMMA StringRead ==
    ASSUME ReadInv, ret = Running, call.fn \in OnString \cup {"strtoul"}
    PROVE  /\ mem = old /\ p \in Addr /\ {p} \subseteq MayRead /\ call.a <= p
           /\ At(p) # 0 => Scanned(call.a, p + 1)
<1>1. mem = old /\ Scanned(call.a, p) /\ StringAt(old, call.a)
  BY LegalIs DEF ReadInv, RunInv, Writes, Moves, OnString
<1>2. p \in Addr /\ p \in UpToNUL(call.a, Size) /\ (old[p] # 0 => Scanned(call.a, p + 1))
  BY <1>1, InString, ReadFacts
<1> QED BY <1>1, <1>2, MayReadIs, ByteRead DEF Scanned

LEMMA strlenReads == ASSUME ReadInv, strlen PROVE ReadInv'
<1>1. /\ call.fn = "strlen" /\ ret = Running /\ UNCHANGED <<call, old, mem, endp>>
      /\ read' = read \cup {p} /\ call.fn \in OnString
  BY DEF strlen, Loop, Reads, OnString
<1>2. read' \subseteq MayRead /\ mem' \in [Addr -> 0 .. 255] /\ endp' \in Int
  BY <1>1, StringRead, ReadFacts
<1>3. CASE At(p) # 0
  <2>1. p' = p + 1 /\ q' = q /\ n' = n /\ ret' = Running
    BY <1>3 DEF strlen, Round
  <2>2. Scanned(call.a, p + 1)
    BY <1>1, <1>3, StringRead
  <2>3. RunInv'
    BY <1>1, <2>1, <2>2 DEF RunInv, Scanned
  <2>4. p' \in Int /\ q' \in Int /\ n' \in Int
    BY <2>1, ReadFacts
  <2> QED BY <1>1, <1>2, <2>1, <2>3, <2>4, RoundKept
<1>4. CASE At(p) = 0
  <2>1. ret' = p - call.a /\ UNCHANGED <<p, q, n>>
    BY <1>4 DEF strlen, Return
  <2>2. ret' \in Int /\ ret' > Running
    BY <1>1, <2>1, StringRead, ReadFacts DEF Running
  <2> QED BY <1>1, <1>2, <2>1, <2>2, ReturnKept
<1> QED BY <1>3, <1>4

LEMMA strchrReads == ASSUME ReadInv, strchr PROVE ReadInv'
<1>1. /\ call.fn = "strchr" /\ ret = Running /\ UNCHANGED <<call, old, mem, endp>>
      /\ read' = read \cup {p} /\ call.fn \in OnString
  BY DEF strchr, Loop, Reads, OnString
<1>2. read' \subseteq MayRead /\ mem' \in [Addr -> 0 .. 255] /\ endp' \in Int
  BY <1>1, StringRead, ReadFacts
<1>3. CASE At(p) # unsigned_char(call.c) /\ At(p) # 0
  <2>1. p' = p + 1 /\ q' = q /\ n' = n /\ ret' = Running
    BY <1>3 DEF strchr, Round
  <2>2. Scanned(call.a, p + 1)
    BY <1>1, <1>3, StringRead
  <2>3. RunInv'
    BY <1>1, <2>1, <2>2 DEF RunInv, Scanned
  <2>4. p' \in Int /\ q' \in Int /\ n' \in Int
    BY <2>1, ReadFacts
  <2> QED BY <1>1, <1>2, <2>1, <2>3, <2>4, RoundKept
<1>4. CASE ~(At(p) # unsigned_char(call.c) /\ At(p) # 0)
  <2>1. ret' \in {p, NULL} /\ UNCHANGED <<p, q, n>>
    BY <1>4 DEF strchr, Return
  <2>2. ret' \in Int /\ ret' > Running
    BY <1>1, <2>1, StringRead, LibAssumption DEF Running, NULL, Addr
  <2> QED BY <1>1, <1>2, <2>1, <2>2, ReturnKept
<1> QED BY <1>3, <1>4

LEMMA strrchrReads == ASSUME ReadInv, strrchr PROVE ReadInv'
<1>1. CASE Begin("strrchr") /\ Reads({}) /\ Round(p, NULL, n)
  <2>1. /\ call.fn = "strrchr" /\ ret = Entered /\ UNCHANGED <<call, old, mem, endp>>
        /\ read' = read /\ p = call.a /\ mem = old
    BY <1>1 DEF Begin, Reads, ReadInv
  <2>2. p' = p /\ q' = NULL /\ n' = n /\ ret' = Running
    BY <1>1 DEF Round
  <2>3. RunInv'
    BY <2>1, <2>2, ReadFacts DEF RunInv, Scanned, NULL
  <2>4. /\ p' \in Int /\ q' \in Int /\ n' \in Int /\ endp' \in Int
        /\ mem' \in [Addr -> 0 .. 255] /\ read' \subseteq MayRead
    BY <2>1, <2>2, ReadFacts DEF NULL
  <2> QED BY <2>1, <2>2, <2>3, <2>4, RoundKept
<1>2. CASE Loop("strrchr")
  <2> DEFINE last == IF At(p) = unsigned_char(call.c) THEN p ELSE q
  <2>1. /\ call.fn = "strrchr" /\ ret = Running /\ UNCHANGED <<call, old, mem, endp>>
        /\ read' = read \cup {p} /\ call.fn \in OnString
        /\ IF At(p) # 0 THEN Round(p + 1, last, n) ELSE Return(last)
    BY <1>2 DEF strrchr, Loop, Begin, Entered, Running, Reads, OnString
  <2>2. read' \subseteq MayRead /\ mem' \in [Addr -> 0 .. 255] /\ endp' \in Int
    BY <2>1, StringRead, ReadFacts
  <2>3. last \in Nat
    BY <2>1, StringRead, LibAssumption DEF ReadInv, RunInv, Addr
  <2> HIDE DEF last
  <2>4. CASE At(p) # 0
    <3>1. p' = p + 1 /\ q' = last /\ n' = n /\ ret' = Running
      BY <2>1, <2>4 DEF Round
    <3>2. Scanned(call.a, p + 1)
      BY <2>1, <2>4, StringRead
    <3>3. RunInv'
      BY <2>1, <2>3, <3>1, <3>2 DEF RunInv, Scanned
    <3>4. p' \in Int /\ q' \in Int /\ n' \in Int
      BY <2>3, <3>1, ReadFacts
    <3> QED BY <2>1, <2>2, <3>1, <3>3, <3>4, RoundKept
  <2>5. CASE At(p) = 0
    <3>1. ret' = last /\ UNCHANGED <<p, q, n>>
      BY <2>1, <2>5 DEF Return
    <3>2. ret' \in Int /\ ret' > Running
      BY <2>3, <3>1 DEF Running
    <3> QED BY <2>1, <2>2, <3>1, <3>2, ReturnKept
  <2> QED BY <2>4, <2>5
<1> QED BY <1>1, <1>2 DEF strrchr

-----------------------------------------------------------------------------
(* strtoul                                                                 *)

LEMMA Remainder ==
    ASSUME NEW x \in Nat, NEW m \in Nat \ {0}
    PROVE  x % m \in Nat
OBVIOUS

LEMMA Product ==
    ASSUME NEW x \in Nat, NEW y \in Nat
    PROVE  x * y \in Nat
OBVIOUS

LEMMA DigitIsNat ==
    ASSUME NEW c \in 0 .. 255, isxdigit(c)
    PROVE  Digit(c) \in Nat
BY DEF isxdigit, Digit, isdigit, tolower, isupper

\* The x of 0x is no NUL.
LEMMA XIsNoNUL ==
    ASSUME NEW c \in 0 .. 255, tolower(c) = 120
    PROVE  c # 0
BY DEF tolower, isupper

LEMMA strtoulBegins ==
    ASSUME ReadInv, Begin("strtoul"),
           LET hex == Radix = 16 /\ At(p) = 48
           IN  /\ Reads(IF Radix # 16 THEN {} ELSE IF hex THEN {p, p + 1} ELSE {p})
               /\ Round(IF hex /\ tolower(At(p + 1)) = 120 THEN p + 2 ELSE p, q, 0)
    PROVE  ReadInv'
<1> DEFINE hex == Radix = 16 /\ At(p) = 48
<1>1. /\ call.fn = "strtoul" /\ ret = Entered /\ UNCHANGED <<call, old, mem, endp>>
      /\ p = call.a /\ mem = old
  BY DEF Begin, ReadInv
<1>2. StringAt(old, call.a) /\ Scanned(call.a, p) /\ MayRead = UpToNUL(call.a, Size)
  BY <1>1, LegalIs, MayReadIs, ReadFacts DEF Scanned
<1>3. p \in Addr /\ p \in MayRead
      /\ (old[p] # 0 => Scanned(call.a, p + 1) /\ p + 1 \in Addr /\ p + 1 \in MayRead)
  BY <1>2, InString, ReadFacts
<1>4. hex => Scanned(call.a, p + 1) /\ p + 1 \in Addr /\ p + 1 \in MayRead
  BY <1>1, <1>3, ByteRead
<1>5. hex /\ tolower(At(p + 1)) = 120 => Scanned(call.a, p + 2)
  <2> SUFFICES ASSUME hex, tolower(At(p + 1)) = 120
               PROVE  Scanned(call.a, p + 2)
    OBVIOUS
  <2>1. At(p + 1) # 0
    BY XIsNoNUL, ByteRead
  <2>2. old[p + 1] # 0
    BY <1>1, <1>4, <2>1, ByteRead
  <2>3. Scanned(call.a, (p + 1) + 1)
    BY <1>2, <1>4, <2>2, InString, ReadFacts
  <2>4. (p + 1) + 1 = p + 2
    BY ReadFacts
  <2> QED BY <2>3, <2>4
<1>6. p' \in {p, p + 2} /\ Scanned(call.a, p') /\ q' = q /\ n' = 0 /\ ret' = Running
  BY <1>2, <1>5 DEF Round
<1>7. read' \subseteq MayRead
  BY <1>3, <1>4, ReadFacts DEF Reads
<1>8. RunInv'
  BY <1>1, <1>6 DEF RunInv, Scanned
<1>9. /\ p' \in Int /\ q' \in Int /\ n' \in Int /\ endp' \in Int
      /\ mem' \in [Addr -> 0 .. 255]
  BY <1>1, <1>6, ReadFacts
<1> QED BY <1>1, <1>6, <1>7, <1>8, <1>9, RoundKept

LEMMA strtoulReads == ASSUME ReadInv, strtoul PROVE ReadInv'
<1>1. CASE Loop("strtoul")
  <2>1. /\ call.fn = "strtoul" /\ ret = Running /\ UNCHANGED <<call, old, mem>>
        /\ read' = read \cup {p}
        /\ IF isxdigit(At(p)) /\ Digit(At(p)) <= Radix
           THEN /\ Round(p + 1, q, (n * Radix + Digit(At(p))) % ULong)
                /\ UNCHANGED endp
           ELSE Return(n) /\ endp' = IF call.n # 0 THEN p ELSE endp
    BY <1>1 DEF strtoul, Loop, Begin, Entered, Running, Reads
  <2>2. /\ read' \subseteq MayRead /\ mem' \in [Addr -> 0 .. 255] /\ endp' \in Int
        /\ n \in Nat
    BY <2>1, StringRead, ReadFacts DEF ReadInv, RunInv, Round, Return
  <2>3. CASE isxdigit(At(p)) /\ Digit(At(p)) <= Radix
    <3>1. /\ p' = p + 1 /\ q' = q /\ ret' = Running
          /\ n' = (n * Radix + Digit(At(p))) % ULong
      BY <2>1, <2>3 DEF Round
    <3>2. At(p) \in 0 .. 255 /\ At(p) # 0 /\ Digit(At(p)) \in Nat
      BY <2>3, ByteRead, DigitIsNat DEF isxdigit
    <3>3. Scanned(call.a, p + 1)
      BY <2>1, <3>2, StringRead
    <3>4. n' \in Nat
      <4>1. Radix \in Nat
        BY ReadFacts DEF Radix
      <4>2. n * Radix \in Nat
        BY <2>2, <4>1, Product
      <4>3. n * Radix + Digit(At(p)) \in Nat
        BY <3>2, <4>2
      <4> QED BY <3>1, <4>3, Remainder, LibAssumption
    <3>5. RunInv'
      BY <2>1, <3>1, <3>3, <3>4 DEF RunInv, Scanned
    <3>6. p' \in Int /\ q' \in Int /\ n' \in Int
      BY <3>1, <3>4, ReadFacts
    <3> QED BY <2>1, <2>2, <3>1, <3>5, <3>6, RoundKept
  <2>4. CASE ~(isxdigit(At(p)) /\ Digit(At(p)) <= Radix)
    <3>1. ret' = n /\ UNCHANGED <<p, q, n>>
      BY <2>1, <2>4 DEF Return
    <3>2. ret' \in Int /\ ret' > Running
      BY <2>2, <3>1 DEF Running
    <3> QED BY <2>1, <2>2, <3>1, <3>2, ReturnKept
  <2> QED BY <2>3, <2>4
<1>2. CASE ~Loop("strtoul")
  BY <1>2, strtoulBegins DEF strtoul
<1> QED BY <1>1, <1>2

-----------------------------------------------------------------------------
(* Strings bounded by a count, two strings at a time                       *)

\* A byte counted off a block at a, with no NUL before it.
LEMMA BoundedRead ==
    ASSUME ReadInv, mem = old, NEW a \in Addr, NEW t \in Int,
           Scanned(a, t), Left(t, a), n # 0
    PROVE  /\ t \in UpToNUL(a, a + call.n - 1)
           /\ At(t) # 0 => Scanned(a, t + 1)
           /\ n - 1 \in 0 .. call.n /\ t + 1 = a + (call.n - (n - 1))
<1>1. /\ n - 1 \in 0 .. call.n /\ t + 1 = a + (call.n - (n - 1))
      /\ t \in a .. a + call.n - 1
  <2>1. n \in 0 .. call.n /\ t = a + (call.n - n) /\ a <= t
    BY DEF Left, Scanned
  <2>2. call.n \in Nat /\ a \in Nat
    BY ReadFacts, LibAssumption DEF Addr
  <2> QED BY <2>1, <2>2
<1>2. t \in UpToNUL(a, a + call.n - 1)
  BY <1>1 DEF UpToNUL, Scanned
<1>3. ASSUME At(t) # 0 PROVE Scanned(a, t + 1)
  <2>1. old[t] # 0
    BY <1>3, ByteRead
  <2> QED BY <1>1, <2>1, LibAssumption DEF Scanned, Addr
<1> QED BY <1>1, <1>2, <1>3

LEMMA strnlenReads == ASSUME ReadInv, strnlen PROVE ReadInv'
<1>1. /\ call.fn = "strnlen" /\ ret = Running /\ UNCHANGED <<call, old, mem, endp>>
      /\ read' = read \cup (IF n # 0 THEN {p} ELSE {})
  BY DEF strnlen, Loop, Reads
<1>2. /\ mem = old /\ Scanned(call.a, p) /\ Left(p, call.a)
      /\ MayRead = UpToNUL(call.a, call.a + call.n - 1)
  BY <1>1, MayReadIs DEF ReadInv, RunInv, Writes, Moves
<1>3. read' \subseteq MayRead /\ mem' \in [Addr -> 0 .. 255] /\ endp' \in Int
  BY <1>1, <1>2, BoundedRead, ReadFacts
<1>4. CASE n # 0 /\ At(p) # 0
  <2>1. p' = p + 1 /\ q' = q /\ n' = n - 1 /\ ret' = Running
    BY <1>4 DEF strnlen, Round
  <2>2. /\ Scanned(call.a, p + 1) /\ n - 1 \in 0 .. call.n
        /\ p + 1 = call.a + (call.n - (n - 1))
    BY <1>2, <1>4, BoundedRead, ReadFacts
  <2>3. Left(p, call.a)' /\ Scanned(call.a, p)'
    BY <1>1, <2>1, <2>2 DEF Left, Scanned
  <2>4. RunInv'
    BY <1>1, <2>3 DEF RunInv, OnString
  <2>5. p' \in Int /\ q' \in Int /\ n' \in Int
    BY <2>1, ReadFacts
  <2> QED BY <1>1, <1>3, <2>1, <2>4, <2>5, RoundKept
<1>5. CASE ~(n # 0 /\ At(p) # 0)
  <2>1. ret' = p - call.a /\ UNCHANGED <<p, q, n>>
    BY <1>5 DEF strnlen, Return
  <2>2. ret' \in Int /\ ret' > Running
    BY <1>2, <2>1, ReadFacts DEF Running, Scanned
  <2> QED BY <1>1, <1>3, <2>1, <2>2, ReturnKept
<1> QED BY <1>4, <1>5

\* strcmp and strncmp go on as long as neither character is a NUL.
LEMMA CompareKept ==
    ASSUME ReadInv, call.fn \in {"strcmp", "strncmp"}, ret = Running,
           UNCHANGED <<call, old>>, NEW n2 \in Int, Compare(n2),
           mem = old, {p, q} \subseteq MayRead,
           At(p) # 0 => Scanned(call.a, p + 1),
           At(q) # 0 => Scanned(call.b, q + 1),
           call.fn = "strncmp" =>
               /\ n2 \in 0 .. call.n
               /\ p + 1 = call.a + (call.n - n2) /\ q + 1 = call.b + (call.n - n2)
    PROVE  ReadInv'
<1>1. UNCHANGED <<mem, endp>> /\ read' = read \cup {p, q}
  BY DEF Compare, Reads
<1>2. read' \subseteq MayRead /\ mem' \in [Addr -> 0 .. 255] /\ endp' \in Int
  BY <1>1, ReadFacts
<1>3. CASE At(p) = At(q) /\ At(p) # 0
  <2>1. p' = p + 1 /\ q' = q + 1 /\ n' = n2 /\ ret' = Running
    BY <1>3 DEF Compare, Round
  <2>2. Scanned(call.a, p)' /\ Scanned(call.b, q)'
    BY <1>3, <2>1 DEF Scanned
  <2>3. call.fn = "strncmp" => Left(p, call.a)' /\ Left(q, call.b)'
    BY <2>1 DEF Left
  <2>4. RunInv'
    BY <2>2, <2>3 DEF RunInv, OnString
  <2>5. p' \in Int /\ q' \in Int /\ n' \in Int
    BY <2>1, ReadFacts
  <2> QED BY <1>1, <1>2, <2>1, <2>4, <2>5, RoundKept
<1>4. CASE ~(At(p) = At(q) /\ At(p) # 0)
  <2>1. ret' \in {1, -1, 0} /\ UNCHANGED <<p, q, n>>
    BY <1>4 DEF Compare, Return
  <2>2. ret' \in Int /\ ret' > Running
    BY <2>1 DEF Running
  <2> QED BY <1>1, <1>2, <2>1, <2>2, ReturnKept
<1> QED BY <1>3, <1>4

LEMMA strcmpReads == ASSUME ReadInv, strcmp PROVE ReadInv'
<1>1. /\ call.fn = "strcmp" /\ ret = Running /\ UNCHANGED <<call, old>>
      /\ Compare(n) /\ mem = old /\ Scanned(call.a, p) /\ Scanned(call.b, q)
  BY DEF strcmp, Loop, ReadInv, RunInv, Writes, Moves
<1>2. StringAt(old, call.a) /\ StringAt(old, call.b)
      /\ MayRead = UpToNUL(call.a, Size) \cup UpToNUL(call.b, Size)
  BY <1>1, LegalIs, MayReadIs
<1>3. /\ p \in Addr /\ p \in UpToNUL(call.a, Size)
      /\ old[p] # 0 => Scanned(call.a, p + 1)
  BY <1>1, <1>2, InString, ReadFacts
<1>4. /\ q \in Addr /\ q \in UpToNUL(call.b, Size)
      /\ old[q] # 0 => Scanned(call.b, q + 1)
  BY <1>1, <1>2, InString, ReadFacts
<1>5. At(p) = old[p] /\ At(q) = old[q]
  BY <1>1, <1>3, <1>4, ByteRead
<1>6. n \in Int
  BY ReadFacts
<1> QED BY <1>1, <1>2, <1>3, <1>4, <1>5, <1>6, CompareKept

LEMMA strncmpReads == ASSUME ReadInv, strncmp PROVE ReadInv'
<1>1. /\ call.fn = "strncmp" /\ ret = Running /\ UNCHANGED <<call, old>>
      /\ mem = old /\ Scanned(call.a, p) /\ Scanned(call.b, q)
      /\ Left(p, call.a) /\ Left(q, call.b)
  BY DEF strncmp, Loop, ReadInv, RunInv, Writes, Moves
<1>2. CASE n = 0
  <2>1. /\ ret' = 0 /\ UNCHANGED <<p, q, n>> /\ read' = read
        /\ UNCHANGED <<mem, endp>>
    BY <1>2 DEF strncmp, Return, Reads
  <2>2. /\ ret' \in Int /\ ret' > Running /\ read' \subseteq MayRead
        /\ mem' \in [Addr -> 0 .. 255] /\ endp' \in Int
    BY <2>1, ReadFacts DEF Running
  <2> QED BY <1>1, <2>1, <2>2, ReturnKept
<1>3. CASE n # 0
  <2>1. Compare(n - 1) /\ n - 1 \in Int
    BY <1>3, ReadFacts DEF strncmp
  <2>2. /\ p \in UpToNUL(call.a, call.a + call.n - 1)
        /\ At(p) # 0 => Scanned(call.a, p + 1)
        /\ n - 1 \in 0 .. call.n /\ p + 1 = call.a + (call.n - (n - 1))
    BY <1>1, <1>3, BoundedRead, ReadFacts
  <2>3. /\ q \in UpToNUL(call.b, call.b + call.n - 1)
        /\ At(q) # 0 => Scanned(call.b, q + 1)
        /\ q + 1 = call.b + (call.n - (n - 1))
    BY <1>1, <1>3, BoundedRead, ReadFacts
  <2>4. {p, q} \subseteq MayRead
    BY <1>1, <2>2, <2>3, MayReadIs
  <2> QED BY <1>1, <2>1, <2>2, <2>3, <2>4, CompareKept
<1> QED BY <1>2, <1>3

-----------------------------------------------------------------------------
(* Copies of strings                                                       *)

\* A byte stored at p leaves what lies above it.
LEMMA StoredBelow ==
    ASSUME ReadInv, UNCHANGED <<call, old>>, Untouched, call.a <= p, p' = p + 1,
           NEW x \in 0 .. 255, mem' = [mem EXCEPT ![p] = x]
    PROVE  Untouched' /\ mem' \in [Addr -> 0 .. 255] /\ (call.a <= p)'
<1>1. mem' \in [Addr -> 0 .. 255]
  BY ReadFacts
<1>4. (call.a <= p)'
  <2>1. call' = call
    OBVIOUS
  <2> QED BY <2>1, ReadFacts
<1>2. ASSUME NEW i \in Addr, i \notin call.a .. p
      PROVE  mem'[i] = old[i]
  <2>1. i # p /\ i \notin call.a .. p - 1
    BY <1>2, ReadFacts
  <2> QED BY <2>1, ReadFacts DEF Untouched
<1>3. p' - 1 = p
  BY ReadFacts
<1>5. call' = call /\ old' = old
  OBVIOUS
<1> QED BY <1>1, <1>2, <1>3, <1>4, <1>5 DEF Untouched

\* The length of a string, from where it ends.
LEMMA StrLength ==
    ASSUME NEW m \in [Addr -> 0 .. 255], NEW a \in Addr, StringAt(m, a)
    PROVE  Len(Str(m, a)) = StrEnd(m, a) - a
<1>1. StrEnd(m, a) \in a .. Size
  BY EndFound
<1>2. m \in Seq(0 .. 255) /\ Len(m) = Size
  BY LibAssumption DEF Addr
<1>3. StrEnd(m, a) - 1 \in a - 1 .. Size /\ a \in 1 .. Size + 1
  BY <1>1, LibAssumption DEF Addr
<1>4. Len(SubSeq(m, a, StrEnd(m, a) - 1)) = (StrEnd(m, a) - 1) - a + 1
  BY <1>1, <1>2, <1>3, SubSeqProperties
<1> QED BY <1>1, <1>3, <1>4, LibAssumption DEF Str, Addr

LEMMA strcpyReads == ASSUME ReadInv, strcpy PROVE ReadInv'
<1> DEFINE l == StrEnd(old, call.b) - call.b + 1
<1>1. /\ call.fn = "strcpy" /\ ret = Running /\ UNCHANGED <<call, old, endp>>
      /\ mem' = [mem EXCEPT ![p] = At(q)] /\ read' = read \cup {q}
      /\ Scanned(call.b, q) /\ call.a <= p /\ Untouched
      /\ p - call.a = q - call.b
  BY DEF strcpy, Loop, Reads, ReadInv, RunInv
<1>2. StringAt(old, call.b)
  BY <1>1, LegalIs
<1>3. call.a + l <= Size + 1 /\ Disjoint(call.a, l, call.b, l)
  BY <1>1, <1>2, LegalIs, StrLength, ReadFacts
<1>4. /\ q \in Addr /\ q <= StrEnd(old, call.b) /\ q \in UpToNUL(call.b, Size)
      /\ old[q] # 0 => Scanned(call.b, q + 1)
  BY <1>1, <1>2, InString, ReadFacts
<1>5. StrEnd(old, call.b) \in Int
  BY <1>2, EndFound, ReadFacts
<1>6. q \notin call.a .. p - 1
  BY <1>1, <1>3, <1>4, <1>5, ReadFacts DEF Disjoint, Scanned
<1>7. At(q) = old[q] /\ At(q) \in 0 .. 255
  BY <1>1, <1>4, <1>6, ByteRead DEF Untouched
<1>8. read' \subseteq MayRead /\ endp' \in Int /\ mem' \in [Addr -> 0 .. 255]
  BY <1>1, <1>4, <1>7, MayReadIs, ReadFacts
<1>9. CASE At(q) # 0
  <2>1. p' = p + 1 /\ q' = q + 1 /\ n' = n /\ ret' = Running
    BY <1>9 DEF strcpy, Round
  <2>2. Untouched' /\ (call.a <= p)'
    BY <1>1, <1>7, <2>1, StoredBelow
  <2>3. Scanned(call.b, q)' /\ (p - call.a = q - call.b)'
    BY <1>1, <1>4, <1>7, <1>9, <2>1, ReadFacts DEF Scanned
  <2>4. RunInv'
    BY <1>1, <2>2, <2>3 DEF RunInv, OnString
  <2>5. p' \in Int /\ q' \in Int /\ n' \in Int
    BY <2>1, ReadFacts
  <2> QED BY <1>1, <1>8, <2>1, <2>4, <2>5, RoundKept DEF Writes
<1>10. CASE At(q) = 0
  <2>1. ret' = call.a /\ UNCHANGED <<p, q, n>>
    BY <1>10 DEF strcpy, Return
  <2>2. ret' \in Int /\ ret' > Running
    BY <2>1, ReadFacts DEF Running
  <2> QED BY <1>1, <1>8, <2>1, <2>2, ReturnKept DEF Writes
<1> QED BY <1>9, <1>10

\* The next byte that strncpy reads is one of its source that it has not
\* stored over.
LEMMA SourceRead ==
    ASSUME ReadInv, call.fn = "strncpy", ret = Running, n # 0
    PROVE  /\ q \in call.b .. call.b + call.n - 1 /\ q \in Addr
           /\ q \notin call.a .. p - 1
<1>1. Scanned(call.b, q) /\ Left(p, call.a) /\ q <= call.b + (call.n - n)
  BY DEF ReadInv, RunInv
<1>2. /\ call.a \in Int /\ call.b \in Int /\ call.n \in Nat /\ Size \in Int
      /\ 1 <= call.b /\ p \in Int /\ q \in Int /\ call.b \in Addr
      /\ old \in [Addr -> 0 .. 255]
  BY ReadFacts, AddrFacts
<1>3. /\ n \in 0 .. call.n /\ p = call.a + (call.n - n) /\ call.b <= q
      /\ \A j \in call.b .. q - 1 : old[j] # 0
  BY <1>1 DEF Left, Scanned
<1>4. q \in call.b .. call.b + call.n - 1
  BY <1>1, <1>2, <1>3
<1>5. call.a .. p - 1 \subseteq call.a .. call.a + call.n - 1
  BY <1>2, <1>3
<1>6. q \notin call.a .. p - 1
  BY <1>3, <1>4, <1>5, LegalIs
<1>7. CASE call.b + call.n <= Size + 1
  BY <1>2, <1>4, <1>6, <1>7 DEF Addr
<1>8. CASE StringAt(old, call.b)
  BY <1>1, <1>2, <1>4, <1>6, <1>8, InString
<1> QED BY <1>7, <1>8, LegalIs

LEMMA strncpyReads == ASSUME ReadInv, strncpy PROVE ReadInv'
<1>1. /\ call.fn = "strncpy" /\ ret = Running /\ UNCHANGED <<call, old>>
      /\ Scanned(call.b, q) /\ call.a <= p /\ Untouched
      /\ Left(p, call.a) /\ q <= call.b + (call.n - n)
  BY DEF strncpy, Loop, ReadInv, RunInv
<1>2. CASE n = 0
  <2>1. /\ ret' = call.a /\ UNCHANGED <<p, q, n>> /\ read' = read
        /\ UNCHANGED <<mem, endp>>
    BY <1>2 DEF strncpy, Return, Reads
  <2>2. /\ ret' \in Int /\ ret' > Running /\ read' \subseteq MayRead
        /\ mem' \in [Addr -> 0 .. 255] /\ endp' \in Int
    BY <2>1, ReadFacts DEF Running
  <2> QED BY <1>1, <2>1, <2>2, ReturnKept DEF Writes
<1>3. CASE n # 0
  <2>1. /\ mem' = [mem EXCEPT ![p] = At(q)] /\ UNCHANGED endp
        /\ read' = read \cup {q}
        /\ p' = p + 1 /\ q' = (IF At(q) # 0 THEN q + 1 ELSE q) /\ n' = n - 1
        /\ ret' = Running
    BY <1>3 DEF strncpy, Round, Reads
  <2>2. /\ q \in call.b .. call.b + call.n - 1 /\ q \in Addr
        /\ q \notin call.a .. p - 1
    BY <1>1, <1>3, SourceRead
  <2>3. /\ n - 1 \in 0 .. call.n /\ p + 1 = call.a + (call.n - (n - 1))
        /\ q \in call.b .. call.b + call.n - 1 /\ q \in Addr
        /\ q + 1 <= call.b + (call.n - (n - 1))
    <3>1. /\ n \in 0 .. call.n /\ p = call.a + (call.n - n)
          /\ call.b <= q /\ q <= call.b + (call.n - n)
      BY <1>1 DEF Left, Scanned
    <3>2. /\ call.a \in Nat /\ call.b \in Nat /\ call.n \in Nat /\ q \in Int
          /\ call.b >= 1
      BY ReadFacts, LibAssumption DEF Addr
    <3>3. /\ n - 1 \in 0 .. call.n /\ p + 1 = call.a + (call.n - (n - 1))
          /\ q + 1 <= call.b + (call.n - (n - 1))
      BY <1>3, <3>1, <3>2
    <3> QED BY <2>2, <3>3
  <2>4. q \notin call.a .. p - 1
    BY <2>2
  <2>5. At(q) = old[q] /\ At(q) \in 0 .. 255
    BY <1>1, <2>3, <2>4, ByteRead DEF Untouched
  <2>6. q \in UpToNUL(call.b, call.b + call.n - 1)
    BY <1>1, <2>3 DEF UpToNUL, Scanned
  <2>7. read' \subseteq MayRead /\ endp' \in Int
    BY <1>1, <2>1, <2>6, MayReadIs, ReadFacts
  <2>8. Untouched' /\ (call.a <= p)' /\ mem' \in [Addr -> 0 .. 255]
    BY <1>1, <2>1, <2>5, StoredBelow
  <2>9. Scanned(call.b, q)'
    BY <1>1, <2>1, <2>5, ReadFacts DEF Scanned
  <2>10. Left(p, call.a)' /\ (q <= call.b + (call.n - n))'
    BY <1>1, <2>1, <2>3, ReadFacts DEF Left
  <2>11. RunInv'
    BY <1>1, <2>8, <2>9, <2>10 DEF RunInv, OnString
  <2>12. p' \in Int /\ q' \in Int /\ n' \in Int
    BY <2>1, ReadFacts
  <2> QED BY <1>1, <2>1, <2>7, <2>8, <2>11, <2>12, RoundKept DEF Writes
<1> QED BY <1>2, <1>3

-----------------------------------------------------------------------------
(* Searches                                                                *)

\* Where the bytes of a block and of a string may be read.
LEMMA InBlock ==
    ASSUME call.n \in Nat, NEW a \in Nat, NEW i \in a .. a + call.n - 1
    PROVE  i \in Block(a)
BY DEF Block

LEMMA InText ==
    ASSUME old \in [Addr -> 0 .. 255], NEW a \in Addr, StringAt(old, a),
           NEW i \in a .. StrEnd(old, a)
    PROVE  i \in UpToNUL(a, Size)
<1>1. StrEnd(old, a) \in a .. Size /\ \A j \in a .. StrEnd(old, a) - 1 : old[j] # 0
  BY EndFound
<1>2. i \in a .. Size /\ \A j \in a .. i - 1 : old[j] # 0
  BY <1>1, LibAssumption DEF Addr
<1> QED BY <1>2 DEF UpToNUL

\* Where strstr and strnsrt are in their loop: n bytes are left at p, all of
\* them bytes that may be read.
LEMMA SearchRead ==
    ASSUME ReadInv, call.fn \in {"strstr", "strnsrt"}, ret = Running
    PROVE  /\ mem = old /\ q = call.b /\ n \in Nat /\ call.a <= p
           /\ StringAt(old, call.b)
           /\ \A i \in p .. p + n - 1 : i \in MayRead
           /\ \A i \in call.b .. StrEnd(old, call.b) : i \in MayRead
<1>1. /\ mem = old /\ q = call.b /\ n \in Nat /\ call.a <= p
      /\ p + n = IF call.fn = "strstr" THEN StrEnd(old, call.a)
                 ELSE call.a + call.n
  BY DEF ReadInv, RunInv, Writes, Moves
<1>2. StringAt(old, call.b)
  BY LegalIs
<1>3. \A i \in call.b .. StrEnd(old, call.b) : i \in UpToNUL(call.b, Size)
  BY <1>2, InText, ReadFacts
<1>4. \A i \in call.b .. StrEnd(old, call.b) : i \in MayRead
  BY <1>3, MayReadIs
<1>5. CASE call.fn = "strstr"
  <2>1. StringAt(old, call.a)
    BY <1>5, LegalIs
  <2>2. \A i \in call.a .. StrEnd(old, call.a) : i \in UpToNUL(call.a, Size)
    BY <2>1, InText, ReadFacts
  <2>3. StrEnd(old, call.a) \in Int
    BY <2>1, EndFound, ReadFacts
  <2>4. \A i \in p .. p + n - 1 : i \in call.a .. StrEnd(old, call.a)
    BY <1>1, <1>5, <2>3, ReadFacts
  <2> QED BY <1>1, <1>2, <1>4, <1>5, <2>2, <2>4, MayReadIs
<1>6. CASE call.fn = "strnsrt"
  <2>1. \A i \in p .. p + n - 1 : i \in call.a .. call.a + call.n - 1
    BY <1>1, <1>6, ReadFacts
  <2>2. \A i \in p .. p + n - 1 : i \in Block(call.a)
    BY <2>1, InBlock, ReadFacts
  <2> QED BY <1>1, <1>2, <1>4, <1>6, <2>2, MayReadIs
<1> QED BY <1>5, <1>6

\* The bytes memcmp reads end with the first that differs, or with the string.
LEMMA ComparedUpTo ==
    ASSUME NEW m, NEW a, NEW b, NEW l \in Nat, l # 0
    PROVE  LET d == Differ(m, a, b, l)
               e == IF d = {} THEN l - 1 ELSE FirstOf(d)
           IN  e \in 0 .. l - 1
<1> DEFINE d == Differ(m, a, b, l)
<1>1. d \subseteq 0 .. l - 1 /\ d \subseteq Nat
  BY DEF Differ
<1> HIDE DEF d
<1>2. d # {} => FirstOf(d) \in d
  BY <1>1, FirstFound
<1>3. d # {} => FirstOf(d) \in 0 .. l - 1
  BY <1>1, <1>2
<1>4. l - 1 \in 0 .. l - 1
  OBVIOUS
<1> QED BY <1>3, <1>4 DEF d

LEMMA SearchReads ==
    ASSUME ReadInv, NEW fn \in {"strstr", "strnsrt"}, Search(fn)
    PROVE  ReadInv'
<1> DEFINE l == Strlen(mem, call.b)
           d == Differ(mem, p, q, l)
           e == IF d = {} THEN l - 1 ELSE FirstOf(d)
<1>1. /\ call.fn = fn /\ ret = Running /\ UNCHANGED <<call, old, mem, endp>>
      /\ IF ~Fits(l) THEN Return(NULL) /\ Reads({})
         ELSE /\ Reads({p + i : i \in 0 .. e} \cup {q + i : i \in 0 .. e})
              /\ IF Memcmp(mem, p, q, l) = 0 THEN Return(p)
                 ELSE Round(p + 1, q, n - 1)
  BY DEF Search, Loop
<1>2. /\ mem = old /\ q = call.b /\ n \in Nat /\ call.a <= p
      /\ StringAt(old, call.b)
      /\ \A i \in p .. p + n - 1 : i \in MayRead
      /\ \A i \in call.b .. StrEnd(old, call.b) : i \in MayRead
  BY <1>1, SearchRead
<1>3. /\ l = StrEnd(old, call.b) - call.b /\ l \in Nat
      /\ StrEnd(old, call.b) \in Int
  <2>1. StrEnd(old, call.b) \in call.b .. Size
    BY <1>2, EndFound, ReadFacts
  <2> QED BY <1>2, <2>1, ReadFacts DEF Strlen
<1>4. l # 0 => e \in 0 .. l - 1
  BY <1>3, ComparedUpTo
<1>5. l = 0 => d = {} /\ Memcmp(mem, p, q, l) = 0 /\ 0 .. e = {}
  <2> SUFFICES ASSUME l = 0
               PROVE  d = {} /\ Memcmp(mem, p, q, l) = 0 /\ 0 .. e = {}
    OBVIOUS
  <2>1. d = {}
    BY DEF Differ
  <2>2. Memcmp(mem, p, q, l) = 0
    BY <2>1 DEF Memcmp
  <2>3. e = -1
    BY <2>1
  <2> QED BY <2>1, <2>2, <2>3
<1>6. /\ mem' \in [Addr -> 0 .. 255] /\ endp' \in Int /\ p \in Int
      /\ mem' = mem /\ read \subseteq MayRead /\ call.a \in Nat /\ call.b \in Nat
      /\ call' = call /\ old' = old
  BY <1>1, ReadFacts
<1> HIDE DEF l, d, e
<1>7. CASE ~Fits(l)
  <2>1. ret' = NULL /\ UNCHANGED <<p, q, n>> /\ read' = read
    BY <1>1, <1>7 DEF Return, Reads
  <2>2. ret' \in Int /\ ret' > Running
    BY <2>1 DEF NULL, Running
  <2> QED BY <1>6, <2>1, <2>2, ReturnKept
<1>8. CASE Fits(l)
  <2>1. l <= n
    BY <1>2, <1>3, <1>8 DEF Fits
  <2>2. \A i \in 0 .. e : p + i \in MayRead /\ q + i \in MayRead
    <3>1. SUFFICES ASSUME NEW i \in 0 .. e
                   PROVE  p + i \in MayRead /\ q + i \in MayRead
      OBVIOUS
    <3>2. l # 0
      BY <1>5, <3>1
    <3>3. i \in 0 .. l - 1
      BY <1>3, <1>4, <3>2
    <3>4. p + i \in p .. p + n - 1
      BY <1>2, <1>3, <1>6, <2>1, <3>3
    <3>5. call.b + i \in call.b .. StrEnd(old, call.b)
      BY <1>3, <1>6, <3>3
    <3> QED BY <1>2, <3>4, <3>5
  <2>3. read' \subseteq MayRead
    BY <1>1, <1>6, <1>8, <2>2 DEF Reads
  <2>4. CASE Memcmp(mem, p, q, l) = 0
    <3>1. ret' = p /\ UNCHANGED <<p, q, n>>
      BY <1>1, <1>8, <2>4 DEF Return
    <3>2. ret' \in Int /\ ret' > Running
      BY <1>2, <1>6, <3>1 DEF Running
    <3> QED BY <1>6, <2>3, <3>1, <3>2, ReturnKept
  <2>5. CASE Memcmp(mem, p, q, l) # 0
    <3>1. p' = p + 1 /\ q' = q /\ n' = n - 1 /\ ret' = Running
      BY <1>1, <1>8, <2>5 DEF Round
    <3>2. n - 1 \in Nat
      BY <1>2, <1>3, <1>5, <2>1, <2>5
    <3>3. p + n = IF call.fn = "strstr" THEN StrEnd(old, call.a)
                  ELSE call.a + call.n
      BY <1>1 DEF ReadInv, RunInv
    <3>4. p' + n' = p + n /\ call.a <= p'
      BY <1>2, <1>6, <3>1
    <3>5. RunInv'
      BY <1>1, <1>2, <1>6, <3>1, <3>2, <3>3, <3>4 DEF RunInv, OnString
    <3>6. p' \in Int /\ q' \in Int /\ n' \in Int
      BY <1>2, <1>6, <3>1
    <3> QED BY <1>6, <2>3, <3>1, <3>5, <3>6, RoundKept
  <2> QED BY <2>4, <2>5
<1> QED BY <1>7, <1>8

\* The prologues find the ends of the strings.
LEMMA strstrReads == ASSUME ReadInv, strstr PROVE ReadInv'
<1>1. CASE Search("strstr")
  BY <1>1, SearchReads
<1>2. CASE ~Search("strstr")
  <2>1. /\ call.fn = "strstr" /\ ret = Entered /\ UNCHANGED <<call, old, mem, endp>>
        /\ p = call.a /\ q = call.b /\ mem = old
        /\ IF Strlen(mem, q) = 0 THEN Return(p) /\ Reads({q})
           ELSE /\ Round(p, q, Strlen(mem, p))
                /\ Reads(p .. StrEnd(mem, p) \cup q .. StrEnd(mem, q))
    BY <1>2 DEF strstr, Begin, ReadInv
  <2>2. StringAt(old, call.a) /\ StringAt(old, call.b)
    BY <2>1, LegalIs
  <2>3. /\ StrEnd(old, call.a) \in call.a .. Size
        /\ StrEnd(old, call.b) \in call.b .. Size
    BY <2>2, EndFound, ReadFacts
  <2>4. /\ \A i \in call.a .. StrEnd(old, call.a) : i \in MayRead
        /\ \A i \in call.b .. StrEnd(old, call.b) : i \in MayRead
    BY <2>1, <2>2, InText, MayReadIs, ReadFacts
  <2>5. call.b \in call.b .. StrEnd(old, call.b)
    BY <2>3, ReadFacts
  <2>6. read' \subseteq MayRead
    BY <2>1, <2>4, <2>5, ReadFacts DEF Reads
  <2>7. mem' \in [Addr -> 0 .. 255] /\ endp' \in Int
    BY <2>1, ReadFacts
  <2>8. CASE Strlen(mem, q) = 0
    <3>1. ret' = p /\ UNCHANGED <<p, q, n>>
      BY <2>1, <2>8 DEF Return
    <3>2. ret' \in Int /\ ret' > Running
      BY <2>1, <3>1, ReadFacts DEF Running
    <3> QED BY <2>1, <2>6, <2>7, <3>1, <3>2, ReturnKept
  <2>9. CASE Strlen(mem, q) # 0
    <3>1. p' = p /\ q' = q /\ n' = Strlen(mem, p) /\ ret' = Running
      BY <2>1, <2>9 DEF Round
    <3>2. n' \in Nat /\ p' + n' = StrEnd(old, call.a)
      BY <2>1, <2>3, <3>1, ReadFacts DEF Strlen
    <3>3. RunInv'
      BY <2>1, <3>1, <3>2, ReadFacts DEF RunInv, OnString
    <3>4. p' \in Int /\ q' \in Int /\ n' \in Int
      BY <3>1, <3>2, ReadFacts
    <3> QED BY <2>1, <2>6, <2>7, <3>1, <3>3, <3>4, RoundKept
  <2> QED BY <2>8, <2>9
<1> QED BY <1>1, <1>2

LEMMA strnsrtReads == ASSUME ReadInv, strnsrt PROVE ReadInv'
<1>1. CASE Search("strnsrt")
  BY <1>1, SearchReads
<1>2. CASE ~Search("strnsrt")
  <2>1. /\ call.fn = "strnsrt" /\ ret = Entered /\ UNCHANGED <<call, old, mem, endp>>
        /\ p = call.a /\ q = call.b /\ n = call.n /\ mem = old
        /\ Reads(q .. StrEnd(mem, q))
        /\ IF Strlen(mem, q) = 0 THEN Return(p) ELSE Round(p, q, n)
    BY <1>2 DEF strnsrt, Begin, ReadInv
  <2>2. StringAt(old, call.b)
    BY <2>1, LegalIs
  <2>3. \A i \in call.b .. StrEnd(old, call.b) : i \in MayRead
    BY <2>1, <2>2, InText, MayReadIs, ReadFacts
  <2>4. read' \subseteq MayRead
    BY <2>1, <2>3, ReadFacts DEF Reads
  <2>5. mem' \in [Addr -> 0 .. 255] /\ endp' \in Int
    BY <2>1, ReadFacts
  <2>6. CASE Strlen(mem, q) = 0
    <3>1. ret' = p /\ UNCHANGED <<p, q, n>>
      BY <2>1, <2>6 DEF Return
    <3>2. ret' \in Int /\ ret' > Running
      BY <2>1, <3>1, ReadFacts DEF Running
    <3> QED BY <2>1, <2>4, <2>5, <3>1, <3>2, ReturnKept
  <2>7. CASE Strlen(mem, q) # 0
    <3>1. p' = p /\ q' = q /\ n' = n /\ ret' = Running
      BY <2>1, <2>7 DEF Round
    <3>2. RunInv'
      BY <2>1, <3>1, ReadFacts DEF RunInv, OnString
    <3>3. p' \in Int /\ q' \in Int /\ n' \in Int
      BY <3>1, ReadFacts
    <3> QED BY <2>1, <2>4, <2>5, <3>1, <3>2, <3>3, RoundKept
  <2> QED BY <2>6, <2>7
<1> QED BY <1>1, <1>2

-----------------------------------------------------------------------------
(* Blocks                                                                  *)

\* A byte counted off a block.
LEMMA CountedRead ==
    ASSUME ReadInv, NEW a \in Nat, NEW t \in Int, Left(t, a), n # 0
    PROVE  /\ t \in Block(a)
           /\ n - 1 \in 0 .. call.n /\ t + 1 = a + (call.n - (n - 1))
<1>1. n \in 0 .. call.n /\ t = a + (call.n - n) /\ call.n \in Nat
  BY ReadFacts DEF Left
<1> QED BY <1>1 DEF Block

LEMMA memcmpReads == ASSUME ReadInv, memcmp PROVE ReadInv'
<1>1. /\ call.fn = "memcmp" /\ ret = Running /\ UNCHANGED <<call, old, mem, endp>>
      /\ mem = old /\ Left(p, call.a) /\ Left(q, call.b)
  BY DEF memcmp, Loop, ReadInv, RunInv, Writes, Moves
<1>2. mem' \in [Addr -> 0 .. 255] /\ endp' \in Int /\ read \subseteq MayRead
  BY <1>1, ReadFacts
<1>3. CASE n = 0
  <2>1. ret' = 0 /\ UNCHANGED <<p, q, n>> /\ read' = read
    BY <1>3 DEF memcmp, Return, Reads
  <2>2. ret' \in Int /\ ret' > Running
    BY <2>1 DEF Running
  <2> QED BY <1>1, <1>2, <2>1, <2>2, ReturnKept
<1>4. CASE n # 0
  <2>1. /\ p \in Block(call.a) /\ q \in Block(call.b) /\ n - 1 \in 0 .. call.n
        /\ p + 1 = call.a + (call.n - (n - 1)) /\ q + 1 = call.b + (call.n - (n - 1))
    BY <1>1, <1>4, CountedRead, ReadFacts
  <2>2. read' \subseteq MayRead
    BY <1>1, <1>2, <1>4, <2>1, MayReadIs DEF memcmp, Reads
  <2>3. CASE At(p) = At(q)
    <3>1. p' = p + 1 /\ q' = q + 1 /\ n' = n - 1 /\ ret' = Running
      BY <1>4, <2>3 DEF memcmp, Round
    <3>2. Left(p, call.a)' /\ Left(q, call.b)'
      BY <1>1, <2>1, <3>1 DEF Left
    <3>3. RunInv'
      BY <1>1, <3>2 DEF RunInv, OnString
    <3>4. p' \in Int /\ q' \in Int /\ n' \in Int
      BY <3>1, ReadFacts
    <3> QED BY <1>1, <1>2, <2>2, <3>1, <3>3, <3>4, RoundKept
  <2>4. CASE At(p) # At(q)
    <3>1. ret' = At(p) - At(q) /\ UNCHANGED <<p, q, n>>
      BY <1>4, <2>4 DEF memcmp, Return
    <3>2. At(p) \in 0 .. 255 /\ At(q) \in 0 .. 255
      BY ByteRead
    <3>3. \A x, y \in 0 .. 255 : x - y \in Int /\ x - y > Running
      BY DEF Running
    <3>4. ret' \in Int /\ ret' > Running
      BY <3>1, <3>2, <3>3
    <3> QED BY <1>1, <1>2, <2>2, <3>1, <3>4, ReturnKept
  <2> QED BY <2>3, <2>4
<1> QED BY <1>3, <1>4

LEMMA memchrReads == ASSUME ReadInv, memchr PROVE ReadInv'
<1>1. /\ call.fn = "memchr" /\ ret = Running /\ UNCHANGED <<call, old, mem, endp>>
      /\ mem = old /\ Left(p, call.a)
  BY DEF memchr, Loop, ReadInv, RunInv, Writes, Moves
<1>2. mem' \in [Addr -> 0 .. 255] /\ endp' \in Int /\ read \subseteq MayRead
  BY <1>1, ReadFacts
<1>3. CASE n = 0
  <2>1. ret' = NULL /\ UNCHANGED <<p, q, n>> /\ read' = read
    BY <1>3 DEF memchr, Return, Reads
  <2>2. ret' \in Int /\ ret' > Running
    BY <2>1 DEF NULL, Running
  <2> QED BY <1>1, <1>2, <2>1, <2>2, ReturnKept
<1>4. CASE n # 0
  <2>1. /\ p \in Block(call.a) /\ n - 1 \in 0 .. call.n
        /\ p + 1 = call.a + (call.n - (n - 1))
    BY <1>1, <1>4, CountedRead, ReadFacts
  <2>2. read' \subseteq MayRead
    BY <1>1, <1>2, <1>4, <2>1, MayReadIs DEF memchr, Reads
  <2>3. CASE At(p) # unsigned_char(call.c)
    <3>1. p' = p + 1 /\ q' = q /\ n' = n - 1 /\ ret' = Running
      BY <1>4, <2>3 DEF memchr, Round
    <3>2. Left(p, call.a)'
      BY <1>1, <2>1, <3>1 DEF Left
    <3>3. RunInv'
      BY <1>1, <3>2 DEF RunInv, OnString
    <3>4. p' \in Int /\ q' \in Int /\ n' \in Int
      BY <3>1, ReadFacts
    <3> QED BY <1>1, <1>2, <2>2, <3>1, <3>3, <3>4, RoundKept
  <2>4. CASE At(p) = unsigned_char(call.c)
    <3>1. ret' = p /\ UNCHANGED <<p, q, n>>
      BY <1>4, <2>4 DEF memchr, Return
    <3>2. ret' \in Int /\ ret' > Running
      BY <1>1, <3>1, ReadFacts DEF Running, Left
    <3> QED BY <1>1, <1>2, <2>2, <3>1, <3>2, ReturnKept
  <2> QED BY <2>3, <2>4
<1> QED BY <1>3, <1>4

\* The moves: the cursors are where MoveInv says, and its proof has shown the
\* memory to stay one of bytes.
LEMMA CopyRead ==
    ASSUME ReadInv, MoveInv, call.fn \in {"memcpy", "memmove"}, ret = Running, n # 0
    PROVE  /\ ~GoesDown => q \in Block(call.b)
           /\ GoesDown => q - 1 \in Block(call.b)
<1>1. n \in Nat /\ n <= call.n /\ IF GoesDown THEN Downwards ELSE Upwards
  BY DEF MoveInv, Progress, Moves
<1>2. call.b \in Nat /\ call.n \in Nat
  BY ReadFacts
<1>3. IF GoesDown THEN q = call.b + n ELSE q = call.b + (call.n - n)
  BY <1>1 DEF Downwards, Upwards
<1> QED BY <1>1, <1>2, <1>3 DEF Block

\* For the moves RunInv has nothing to say: MoveInv does.
LEMMA MoveRuns == ASSUME call.fn \in Moves, call' = call PROVE RunInv'
BY DEF RunInv, Moves, OnString

\* Every cursor of a move stays a number, and what it read was in its block.
LEMMA MoveKept ==
    ASSUME ReadInv, call.fn \in Moves, UNCHANGED <<call, old, endp>>, MoveInv',
           p' \in Int, q' \in Int, n' \in Int, read' \subseteq MayRead,
           ret' # Running => ret' = call.a /\ p' = p /\ q' = q /\ n' = n
    PROVE  ReadInv'
<1>1. mem' \in [Addr -> 0 .. 255]
  BY DEF MoveInv, Memories
<1>2. endp' \in Int
  BY ReadFacts
<1>3. CASE ret' = Running
  BY <1>1, <1>2, <1>3, MoveRuns, RoundKept DEF Writes
<1>4. CASE ret' # Running
  <2>1. ret' \in Int /\ ret' > Running
    BY <1>4, ReadFacts DEF Running
  <2> QED BY <1>1, <1>2, <1>4, <2>1, ReturnKept DEF Writes
<1> QED BY <1>3, <1>4

LEMMA memcpyReads == ASSUME ReadInv, MoveInv, MoveInv', memcpy PROVE ReadInv'
<1>1. /\ call.fn = "memcpy" /\ ret = Running /\ UNCHANGED <<call, old, endp>>
      /\ call.fn \in Moves
  BY DEF memcpy, Loop, Moves
<1>2. CASE n = 0
  <2>1. ret' = call.a /\ p' = p /\ q' = q /\ n' = n /\ read' = read
    BY <1>2 DEF memcpy, Return, Reads
  <2>2. p' \in Int /\ q' \in Int /\ n' \in Int /\ read' \subseteq MayRead
    BY <2>1, ReadFacts
  <2> QED BY <1>1, <2>1, <2>2, MoveKept
<1>3. CASE n # 0
  <2>1. /\ p' = p + 1 /\ q' = q + 1 /\ n' = n - 1 /\ ret' = Running
        /\ read' = read \cup {q}
    BY <1>3 DEF memcpy, Round, Reads
  <2>2. q \in Block(call.b)
    BY <1>1, <1>3, CopyRead DEF GoesDown
  <2>3. read' \subseteq MayRead
    BY <1>1, <2>1, <2>2, MayReadIs, ReadFacts
  <2>4. p' \in Int /\ q' \in Int /\ n' \in Int
    BY <2>1, ReadFacts
  <2> QED BY <1>1, <2>1, <2>3, <2>4, MoveKept
<1> QED BY <1>2, <1>3

LEMMA memsetReads == ASSUME ReadInv, MoveInv, MoveInv', memset PROVE ReadInv'
<1>1. /\ call.fn = "memset" /\ ret = Running /\ UNCHANGED <<call, old, endp>>
      /\ call.fn \in Moves /\ read' = read
  BY DEF memset, Loop, Moves, Reads
<1>2. CASE n = 0
  <2>1. ret' = call.a /\ p' = p /\ q' = q /\ n' = n
    BY <1>2 DEF memset, Return
  <2>2. p' \in Int /\ q' \in Int /\ n' \in Int /\ read' \subseteq MayRead
    BY <1>1, <2>1, ReadFacts
  <2> QED BY <1>1, <2>1, <2>2, MoveKept
<1>3. CASE n # 0
  <2>1. p' = p + 1 /\ q' = q /\ n' = n - 1 /\ ret' = Running
    BY <1>3 DEF memset, Round
  <2>2. p' \in Int /\ q' \in Int /\ n' \in Int /\ read' \subseteq MayRead
    BY <1>1, <2>1, ReadFacts
  <2> QED BY <1>1, <2>1, <2>2, MoveKept
<1> QED BY <1>2, <1>3

LEMMA memmoveReads == ASSUME ReadInv, MoveInv, MoveInv', memmove PROVE ReadInv'
<1>1. CASE Loop("memmove")
  <2>1. /\ call.fn = "memmove" /\ ret = Running /\ UNCHANGED <<call, old, endp>>
        /\ call.fn \in Moves
        /\ IF n = 0 THEN Return(call.a) /\ Reads({}) /\ UNCHANGED mem
           ELSE IF Forward
           THEN Reads({q}) /\ Round(p + 1, q + 1, n - 1)
           ELSE Reads({q - 1}) /\ Round(p - 1, q - 1, n - 1)
    BY <1>1 DEF memmove, Loop, Begin, Entered, Running, Moves
  <2>2. CASE n = 0
    <3>1. ret' = call.a /\ p' = p /\ q' = q /\ n' = n /\ read' = read
      BY <2>1, <2>2 DEF Return, Reads
    <3>2. p' \in Int /\ q' \in Int /\ n' \in Int /\ read' \subseteq MayRead
      BY <3>1, ReadFacts
    <3> QED BY <2>1, <3>1, <3>2, MoveKept
  <2>3. CASE n # 0
    <3>1. /\ p' \in {p + 1, p - 1} /\ q' \in {q + 1, q - 1} /\ n' = n - 1
          /\ ret' = Running /\ read' = read \cup {IF Forward THEN q ELSE q - 1}
      BY <2>1, <2>3 DEF Round, Reads
    <3>2. (IF Forward THEN q ELSE q - 1) \in Block(call.b)
      BY <2>1, <2>3, CopyRead DEF GoesDown
    <3>3. read' \subseteq MayRead
      BY <2>1, <3>1, <3>2, MayReadIs, ReadFacts
    <3>4. p' \in Int /\ q' \in Int /\ n' \in Int
      BY <3>1, ReadFacts
    <3> QED BY <2>1, <3>1, <3>3, <3>4, MoveKept
  <2> QED BY <2>2, <2>3
<1>2. CASE ~Loop("memmove")
  <2>1. /\ call.fn = "memmove" /\ UNCHANGED <<call, old, endp>> /\ read' = read
        /\ IF Forward THEN Round(p, q, n) ELSE Round(p + n, q + n, n)
        /\ call.fn \in Moves
    BY <1>2 DEF memmove, Begin, Reads, Moves
  <2>2. p' \in {p, p + n} /\ q' \in {q, q + n} /\ n' = n /\ ret' = Running
    BY <2>1 DEF Round
  <2>3. p' \in Int /\ q' \in Int /\ n' \in Int /\ read' \subseteq MayRead
    BY <2>1, <2>2, ReadFacts
  <2> QED BY <2>1, <2>2, <2>3, MoveKept
<1> QED BY <1>1, <1>2

-----------------------------------------------------------------------------
(* Every step                                                              *)

LEMMA EnterReads == ASSUME ReadInv, Enter PROVE ReadInv'
<1>1. /\ call.fn \in WithoutPrologue /\ ret = Entered
      /\ UNCHANGED <<call, old, mem, endp, read>>
      /\ p' = p /\ q' = q /\ n' = n /\ ret' = Running
      /\ p = call.a /\ q = call.b /\ n = call.n /\ mem = old
  BY DEF Enter, Begin, Round, Reads, ReadInv
<1>2. call.fn \notin {"strstr", "strnsrt", "strrchr", "strtoul"}
  BY <1>1 DEF WithoutPrologue
<1>3. /\ Scanned(call.a, p)' /\ Scanned(call.b, q)' /\ Untouched'
      /\ Left(p, call.a)' /\ Left(q, call.b)' /\ (q <= call.b + (call.n - n))'
      /\ (call.a <= p)' /\ (p - call.a = q - call.b)'
  BY <1>1, ReadFacts DEF Scanned, Untouched, Left
<1>4. RunInv'
  BY <1>1, <1>2, <1>3 DEF RunInv
<1>5. /\ p' \in Int /\ q' \in Int /\ n' \in Int /\ endp' \in Int
      /\ mem' \in [Addr -> 0 .. 255] /\ read' \subseteq MayRead
  BY <1>1, ReadFacts
<1> QED BY <1>1, <1>4, <1>5, RoundKept

LEMMA ReadStep == ReadInv /\ MoveInv /\ MoveInv' /\ [Next]_vars => ReadInv'
<1> SUFFICES ASSUME ReadInv, MoveInv, MoveInv', [Next]_vars
             PROVE  ReadInv'
  OBVIOUS
<1>1. CASE UNCHANGED vars
  <2>1. /\ call' = call /\ mem' = mem /\ old' = old /\ p' = p /\ q' = q /\ n' = n
        /\ ret' = ret /\ endp' = endp /\ read' = read
    BY <1>1 DEF vars
  <2>2. ReadsInside'
    <3>1. MayRead' = MayRead
      BY <2>1 DEF MayRead, UpToNUL, Block
    <3>2. TypeOK'
      BY <2>1 DEF ReadInv, ReadsInside, TypeOK
    <3> QED BY <2>1, <3>1, <3>2 DEF ReadInv, ReadsInside
  <2>3. RunInv' <=> RunInv
    BY <2>1 DEF RunInv, Scanned, Left, Untouched
  <2>4. Legal(old, call.fn, call.a, call.b, call.n)'
    BY <2>1 DEF ReadInv
  <2> QED BY <2>1, <2>2, <2>3, <2>4 DEF ReadInv
<1>2. CASE \/ Enter \/ strcpy \/ strncpy \/ strcmp \/ strncmp \/ strlen \/ strnlen
  BY <1>2, EnterReads, strcpyReads, strncpyReads, strcmpReads, strncmpReads,
     strlenReads, strnlenReads
<1>3. CASE \/ strstr \/ strnsrt \/ strchr \/ strrchr \/ strtoul
  BY <1>3, strstrReads, strnsrtReads, strchrReads, strrchrReads, strtoulReads
<1>4. CASE \/ memcmp \/ memchr \/ memcpy \/ memmove \/ memset
  BY <1>4, memcmpReads, memchrReads, memcpyReads, memmoveReads, memsetReads
<1> QED BY <1>1, <1>2, <1>3, <1>4 DEF Next

LEMMA ReadBegins == Init => ReadInv
<1> SUFFICES ASSUME Init
             PROVE  ReadInv
  OBVIOUS
<1>1. PICK fn \in Functions : \E m \in Memory(fn), a \in Addr, b \in Source(fn),
                                k \in Count(fn), c \in Char(fn) :
          /\ Legal(m, fn, a, b, k)
          /\ call = [fn |-> fn, a |-> a, b |-> b, n |-> k, c |-> c]
          /\ mem = m /\ old = m
          /\ p = a /\ q = b /\ n = k
  BY DEF Init
<1>2. PICK m \in Memory(fn), a \in Addr, b \in Source(fn),
           k \in Count(fn), c \in Char(fn) :
          /\ Legal(m, fn, a, b, k)
          /\ call = [fn |-> fn, a |-> a, b |-> b, n |-> k, c |-> c]
          /\ mem = m /\ old = m
          /\ p = a /\ q = b /\ n = k
  BY <1>1
<1>3. m \in [Addr -> 0 .. 255]
  BY LibAssumption DEF Memory
<1>4. c \in Nat
  <2>1. CASE fn \in {"strchr", "strrchr", "memchr", "memset"}
    BY <2>1, LibAssumption DEF Char, Chars
  <2>2. CASE fn = "strtoul"
    BY <2>2, LibAssumption DEF Char
  <2>3. CASE fn \notin {"strchr", "strrchr", "memchr", "memset", "strtoul"}
    BY <2>3 DEF Char
  <2> QED BY <2>1, <2>2, <2>3
<1>5. k \in Nat
  <2>1. CASE fn \in OnBlock \cup OnBoth
    BY <2>1, LibAssumption DEF Count
  <2>2. CASE fn = "strtoul"
    BY <2>2 DEF Count, OnBlock, OnBoth
  <2>3. CASE fn \notin OnBlock \cup OnBoth \cup {"strtoul"}
    BY <2>3 DEF Count
  <2> QED BY <2>1, <2>2, <2>3
<1>6. b \in Addr
  BY LibAssumption DEF Source, Addr
<1>7. a \in Nat /\ b \in Nat
  BY <1>6, LibAssumption DEF Addr
<1>8. TypeOK
  <2>1. call \in [fn : Functions, a : Addr, b : Addr, n : Nat, c : Nat]
    BY <1>2, <1>4, <1>5, <1>6
  <2>2. p \in Int /\ q \in Int /\ n \in Int /\ ret \in Int /\ endp \in Int
    BY <1>2, <1>5, <1>7 DEF Init, Entered, NULL
  <2> QED BY <1>2, <1>3, <2>1, <2>2 DEF TypeOK
<1>9. ReadsInside
  BY <1>8 DEF ReadsInside, Init
<1>10. /\ Legal(old, call.fn, call.a, call.b, call.n)
       /\ p = call.a /\ q = call.b /\ n = call.n /\ mem = old
  BY <1>2
<1>11. ret # Running
  BY DEF Init, Entered, Running
<1> QED BY <1>9, <1>10, <1>11 DEF ReadInv

\* Where a cursor is tells which bytes were read: at every round of every call,
\* it has met no NUL of the string and not the end of the block it is in.
THEOREM CursorsInside == Spec => []ReadInv
BY ReadBegins, ReadStep, MovesInvariant, PTL DEF Spec

\* No function of the library reads past the NUL of a string it was given or past
\* its count, for memories, strings and blocks of any size.
THEOREM NothingPastTheEnd == Spec => []ReadsInside
<1>1. ReadInv => ReadsInside
  BY DEF ReadInv
<1> QED BY <1>1, CursorsInside, PTL

-----------------------------------------------------------------------------
(* What is found                                                           *)

Matches(m, a, e, c) == {i \in a .. e : m[i] = c}

\* No byte from a to before t is a c.
NotMet(m, a, t, c) == \A i \in a .. t - 1 : m[i] # c

\* The last c from a to before t, if there is one, is at l.
LastMet(m, a, t, c, l) ==
    IF l = NULL THEN NotMet(m, a, t, c)
    ELSE l \in a .. t - 1 /\ m[l] = c /\ NotMet(m, l + 1, t, c)

\* What is before p is the same as what is before q.
Alike ==
    /\ p - call.a = q - call.b
    /\ \A i \in 0 .. p - call.a - 1 : old[call.a + i] = old[call.b + i]

\* The bytes before q are stored before p, and NULs after them.
Copied ==
    \A i \in call.a .. p - 1 :
        mem[i] = IF i - call.a < q - call.b THEN old[call.b + (i - call.a)] ELSE 0

\* The digits before p are weighed. (strtoul takes one more than it should.)
Start == call.a + Skip

Weighed ==
    /\ Start <= p
    /\ \A i \in Start .. p - 1 : isxdigit(old[i]) /\ Digit(old[i]) <= Radix
    /\ \/ \E i \in Start .. p - 1 : Digit(old[i]) = Radix
       \/ Weigh(Start, p) \in Nat /\ n = Weigh(Start, p) % ULong

\* What a call has found so far.
SoFar ==
    LET f == call.fn
        c == unsigned_char(call.c)
    IN  /\ f \in {"strchr", "memchr"} => NotMet(old, call.a, p, c)
        /\ f = "strrchr" => LastMet(old, call.a, p, c, q)
        /\ f \in {"strstr", "strnsrt"} =>
               /\ StrEnd(old, call.b) # call.b
               /\ \A i \in call.a .. p - 1 : ~Occurs(i, call.b)
        /\ f \in {"strcmp", "strncmp", "memcmp"} => Alike
        /\ f \in {"strcpy", "strncpy"} => Copied
        /\ f = "strncpy" => q = call.b + (call.n - n) \/ old[q] = 0
        /\ f = "strtoul" => endp = NULL /\ Weighed

ResultInv ==
    /\ ret = Entered => endp = NULL
    /\ ret = Running => SoFar
    /\ ResultExact

-----------------------------------------------------------------------------
(* The least and the greatest of what was found                            *)

LEMMA LeastIs ==
    ASSUME NEW s, s \subseteq Int, NEW x \in s, \A j \in s : x <= j
    PROVE  LeastIn(s) = x
<1>1. \E i \in s : \A j \in s : i <= j
  OBVIOUS
<1>2. LeastIn(s) \in s /\ \A j \in s : LeastIn(s) <= j
  BY <1>1 DEF LeastIn
<1>3. LeastIn(s) <= x /\ x <= LeastIn(s) /\ LeastIn(s) \in Int /\ x \in Int
  BY <1>2
<1> QED BY <1>3

LEMMA GreatestIs ==
    ASSUME NEW s, s \subseteq Int, NEW x \in s, \A j \in s : j <= x
    PROVE  GreatestIn(s) = x
<1>1. \E i \in s : \A j \in s : j <= i
  OBVIOUS
<1>2. GreatestIn(s) \in s /\ \A j \in s : j <= GreatestIn(s)
  BY <1>1 DEF GreatestIn
<1>3. GreatestIn(s) <= x /\ x <= GreatestIn(s) /\ GreatestIn(s) \in Int /\ x \in Int
  BY <1>2
<1> QED BY <1>3

LEMMA NoneFound == LeastIn({}) = NULL /\ GreatestIn({}) = NULL
BY DEF LeastIn, GreatestIn

\* The first, the last and no c of a block.
LEMMA FirstMatch ==
    ASSUME NEW m, NEW c, NEW a \in Int, NEW e \in Int, NEW t \in a .. e,
           m[t] = c, NotMet(m, a, t, c)
    PROVE  LeastIn(Matches(m, a, e, c)) = t
<1>1. Matches(m, a, e, c) \subseteq Int /\ t \in Matches(m, a, e, c)
  BY DEF Matches
<1>2. ASSUME NEW j \in Matches(m, a, e, c) PROVE t <= j
  <2>1. j \in a .. e /\ j \notin a .. t - 1
    BY DEF Matches, NotMet
  <2> QED BY <2>1
<1> QED BY <1>1, <1>2, LeastIs

LEMMA LastMatch ==
    ASSUME NEW m, NEW c, NEW a \in Int, NEW e \in Int, NEW t \in a .. e,
           m[t] = c, NotMet(m, t + 1, e + 1, c)
    PROVE  GreatestIn(Matches(m, a, e, c)) = t
<1>1. Matches(m, a, e, c) \subseteq Int /\ t \in Matches(m, a, e, c)
  BY DEF Matches
<1>2. ASSUME NEW j \in Matches(m, a, e, c) PROVE j <= t
  <2>1. j \in a .. e /\ j \notin t + 1 .. (e + 1) - 1
    BY DEF Matches, NotMet
  <2> QED BY <2>1
<1> QED BY <1>1, <1>2, GreatestIs

LEMMA NoMatch ==
    ASSUME NEW m, NEW c, NEW a \in Int, NEW e \in Int, NotMet(m, a, e + 1, c)
    PROVE  LeastIn(Matches(m, a, e, c)) = NULL /\ GreatestIn(Matches(m, a, e, c)) = NULL
<1>1. Matches(m, a, e, c) = {}
  BY DEF Matches, NotMet
<1> QED BY <1>1, NoneFound

LEMMA StillNotMet ==
    ASSUME NEW m, NEW c, NEW a \in Int, NEW t \in Int, NotMet(m, a, t, c), m[t] # c
    PROVE  NotMet(m, a, t + 1, c)
BY DEF NotMet

\* A cursor that has met no NUL and is at one is at the end.
LEMMA EndReached ==
    ASSUME old \in [Addr -> 0 .. 255], NEW a \in Addr, StringAt(old, a),
           NEW t \in Int, Scanned(a, t), old[t] = 0
    PROVE  t = StrEnd(old, a)
<1>1. /\ StrEnd(old, a) \in a .. Size
      /\ \A i \in a .. StrEnd(old, a) - 1 : old[i] # 0
  BY EndFound
<1>2. t <= StrEnd(old, a) /\ a <= t
  BY InString DEF Scanned
<1>3. StrEnd(old, a) \in Int /\ a \in Int
  BY <1>1, LibAssumption DEF Addr
<1>4. ~(t <= StrEnd(old, a) - 1)
  BY <1>1, <1>2, <1>3
<1> QED BY <1>2, <1>3, <1>4

\* What a step that goes on has to show, and one that returns.
LEMMA GoesOn ==
    ASSUME ret' = Running, SoFar'
    PROVE  ResultInv'
BY DEF ResultInv, ResultExact, Returned, Entered, Running

LEMMA Ends ==
    ASSUME ret' \in Int, ret' > Running, ResultExact'
    PROVE  ResultInv'
BY DEF ResultInv, Entered, Running

-----------------------------------------------------------------------------
(* One function after the other                                            *)

LEMMA strlenFinds == ASSUME ReadInv, ResultInv, strlen PROVE ResultInv'
<1>1. call.fn = "strlen" /\ ret = Running /\ UNCHANGED <<call, old, mem>> /\ call.fn \in OnString
  BY DEF strlen, Loop, OnString
<1>2. /\ mem = old /\ p \in Addr /\ call.a <= p /\ Scanned(call.a, p)
      /\ StringAt(old, call.a)
  BY <1>1, StringRead, LegalIs DEF ReadInv, RunInv, OnString
<1>3. CASE At(p) # 0
  <2>1. ret' = Running
    BY <1>3 DEF strlen, Round
  <2>2. SoFar'
    BY <1>1 DEF SoFar
  <2> QED BY <2>1, <2>2, GoesOn
<1>4. CASE At(p) = 0
  <2>1. ret' = p - call.a
    BY <1>4 DEF strlen, Return
  <2>2. old[p] = 0
    BY <1>2, <1>4, ByteRead
  <2>3. p = StrEnd(old, call.a)
    BY <1>2, <2>2, EndReached, ReadFacts
  <2>4. ret' = Len(Str(old, call.a))
    BY <1>2, <2>1, <2>3, StrLength, ReadFacts
  <2>5. ResultExact'
    BY <1>1, <1>2, <2>4 DEF ResultExact
  <2>6. ret' \in Int /\ ret' > Running
    BY <1>2, <2>1, ReadFacts DEF Running
  <2> QED BY <2>5, <2>6, Ends
<1> QED BY <1>3, <1>4

LEMMA strchrFinds == ASSUME ReadInv, ResultInv, strchr PROVE ResultInv'
<1> DEFINE c == unsigned_char(call.c)
           e == StrEnd(old, call.a)
<1>1. call.fn = "strchr" /\ ret = Running /\ UNCHANGED <<call, old, mem>> /\ call.fn \in OnString
  BY DEF strchr, Loop, OnString
<1>2. /\ mem = old /\ p \in Addr /\ call.a <= p /\ Scanned(call.a, p)
      /\ StringAt(old, call.a)
  BY <1>1, StringRead, LegalIs DEF ReadInv, RunInv, OnString
<1>3. At(p) = old[p] /\ p \in Int /\ call.a \in Int
  BY <1>2, ByteRead, ReadFacts
<1>4. NotMet(old, call.a, p, c)
  BY <1>1 DEF ResultInv, SoFar
<1>5. p \in call.a .. e /\ e \in Int
  BY <1>2, <1>3, InString, EndFound, ReadFacts
<1>6. ASSUME ret' = LeastIn(Matches(old, call.a, e, c)) PROVE ResultExact'
  BY <1>1, <1>2, <1>6 DEF ResultExact, Matches
<1> HIDE DEF c, e
<1>7. CASE At(p) # c /\ At(p) # 0
  <2>1. p' = p + 1 /\ ret' = Running
    BY <1>7 DEF strchr, Round, c
  <2>2. NotMet(old, call.a, p + 1, c)
    BY <1>3, <1>4, <1>7, StillNotMet
  <2>3. SoFar'
    BY <1>1, <2>1, <2>2 DEF SoFar, NotMet, c
  <2> QED BY <2>1, <2>3, GoesOn
<1>8. CASE At(p) = c
  <2>1. ret' = p
    BY <1>8 DEF strchr, Return, c
  <2>2. ResultExact'
    BY <1>3, <1>4, <1>5, <1>6, <1>8, <2>1, FirstMatch
  <2>3. ret' \in Int /\ ret' > Running
    BY <1>2, <2>1, LibAssumption DEF Running, Addr
  <2> QED BY <2>2, <2>3, Ends
<1>9. CASE At(p) # c /\ At(p) = 0
  <2>1. ret' = NULL
    BY <1>9 DEF strchr, Return, c
  <2>2. p = e
    BY <1>2, <1>3, <1>9, EndReached, ReadFacts DEF e
  <2>3. NotMet(old, call.a, e + 1, c)
    BY <1>3, <1>4, <1>9, <2>2, StillNotMet
  <2>4. ResultExact'
    BY <1>3, <1>5, <1>6, <2>1, <2>3, NoMatch
  <2>5. ret' \in Int /\ ret' > Running
    BY <2>1 DEF Running, NULL
  <2> QED BY <2>4, <2>5, Ends
<1> QED BY <1>7, <1>8, <1>9

LEMMA strrchrFinds == ASSUME ReadInv, ResultInv, strrchr PROVE ResultInv'
<1> DEFINE c == unsigned_char(call.c)
           e == StrEnd(old, call.a)
<1>1. CASE Begin("strrchr") /\ Reads({}) /\ Round(p, NULL, n)
  <2>1. /\ call.fn = "strrchr" /\ UNCHANGED <<call, old>> /\ p' = call.a /\ q' = NULL
        /\ ret' = Running
    BY <1>1 DEF Begin, Round, ReadInv
  <2>2. NotMet(old, call.a, call.a, c)
    BY ReadFacts DEF NotMet
  <2>3. SoFar'
    BY <2>1, <2>2 DEF SoFar, LastMet, NotMet
  <2> QED BY <2>1, <2>3, GoesOn
<1>2. CASE Loop("strrchr")
  <2> DEFINE last == IF At(p) = c THEN p ELSE q
  <2>1. /\ call.fn = "strrchr" /\ ret = Running /\ UNCHANGED <<call, old, mem>>
        /\ call.fn \in OnString
        /\ IF At(p) # 0 THEN Round(p + 1, last, n) ELSE Return(last)
    BY <1>2 DEF strrchr, Loop, Begin, Entered, Running, OnString
  <2>2. /\ mem = old /\ p \in Addr /\ call.a <= p /\ Scanned(call.a, p)
        /\ StringAt(old, call.a)
    BY <2>1, StringRead, LegalIs DEF ReadInv, RunInv, OnString
  <2>3. At(p) = old[p] /\ p \in Int /\ call.a \in Int /\ p # NULL /\ q \in Int
    <3>1. At(p) = old[p]
      BY <2>2, ByteRead
    <3>2. p # NULL
      BY <2>2, AddrFacts DEF NULL
    <3> QED BY <3>1, <3>2, ReadFacts
  <2>4. LastMet(old, call.a, p, c, q)
    BY <2>1 DEF ResultInv, SoFar
  <2>5. p \in call.a .. e /\ e \in Int
    BY <2>2, <2>3, InString, EndFound, ReadFacts
  <2>6. ASSUME ret' = GreatestIn(Matches(old, call.a, e, c)) PROVE ResultExact'
    BY <2>1, <2>2, <2>6 DEF ResultExact, Matches
  <2> HIDE DEF c, e
  <2>7. LastMet(old, call.a, p + 1, c, last)
    <3>1. CASE At(p) = c
      <4>1. last = p
        BY <3>1
      <4>2. NotMet(old, p + 1, p + 1, c)
        BY <2>3 DEF NotMet
      <4>3. p \in call.a .. (p + 1) - 1
        BY <2>2, <2>3, <2>5
      <4> QED BY <2>3, <3>1, <4>1, <4>2, <4>3 DEF LastMet
    <3>2. CASE At(p) # c
      <4>1. last = q
        BY <3>2
      <4>2. q = NULL => NotMet(old, call.a, p + 1, c)
        BY <2>3, <2>4, <3>2, StillNotMet DEF LastMet
      <4>3. q # NULL => NotMet(old, q + 1, p + 1, c) /\ q \in call.a .. (p + 1) - 1 /\ old[q] = c
        BY <2>3, <2>4, <3>2, StillNotMet DEF LastMet
      <4> QED BY <4>1, <4>2, <4>3 DEF LastMet
    <3> QED BY <3>1, <3>2
  <2> HIDE DEF last
  <2>8. CASE At(p) # 0
    <3>1. p' = p + 1 /\ q' = last /\ ret' = Running
      BY <2>1, <2>8 DEF Round
    <3>2. SoFar'
      BY <2>1, <2>7, <3>1 DEF SoFar, LastMet, NotMet, c
    <3> QED BY <3>1, <3>2, GoesOn
  <2>9. CASE At(p) = 0
    <3>1. ret' = last
      BY <2>1, <2>9 DEF Return
    <3>2. p = e
      BY <2>2, <2>3, <2>9, EndReached, ReadFacts DEF e
    <3>3. last = GreatestIn(Matches(old, call.a, e, c))
      <4>1. CASE last = NULL
        BY <2>3, <2>5, <2>7, <3>2, <4>1, NoMatch DEF LastMet
      <4>2. CASE last # NULL
        <5>1. last \in call.a .. e /\ old[last] = c /\ NotMet(old, last + 1, e + 1, c)
          BY <2>3, <2>7, <3>2, <4>2 DEF LastMet
        <5> QED BY <2>3, <2>5, <5>1, LastMatch
      <4> QED BY <4>1, <4>2
    <3>4. ResultExact'
      BY <2>6, <3>1, <3>3
    <3>5. ret' \in Int /\ ret' > Running
      <4>1. last = NULL \/ last \in call.a .. (p + 1) - 1
        BY <2>7 DEF LastMet
      <4> QED BY <2>3, <3>1, <4>1, ReadFacts DEF Running, NULL
    <3> QED BY <3>4, <3>5, Ends
  <2> QED BY <2>8, <2>9
<1> QED BY <1>1, <1>2 DEF strrchr

LEMMA memchrFinds == ASSUME ReadInv, ResultInv, memchr PROVE ResultInv'
<1> DEFINE c == unsigned_char(call.c)
           e == call.a + call.n - 1
<1>1. call.fn = "memchr" /\ ret = Running /\ UNCHANGED <<call, old, mem>>
  BY DEF memchr, Loop
<1>2. /\ mem = old /\ Left(p, call.a) /\ call.a + call.n <= Size + 1
  BY <1>1 DEF ReadInv, RunInv, Writes, Moves, Legal, OnString
<1>3. p \in Int /\ call.a \in Int /\ e \in Int /\ p \in call.a .. e + 1 /\ (n = 0 <=> p = e + 1)
  BY <1>2, ReadFacts DEF Left
<1>4. n # 0 => p \in Addr /\ At(p) = old[p]
  <2>1. n # 0 => p \in call.a .. e
    BY <1>3
  <2>2. e <= Size /\ 1 <= call.a /\ Size \in Int
    <3>1. call.a \in Addr /\ call.n \in Nat
      BY ReadFacts
    <3>2. 1 <= call.a /\ Size \in Int /\ call.a \in Int
      BY <3>1, AddrFacts
    <3> QED BY <1>2, <3>1, <3>2
  <2>3. n # 0 => p \in Addr
    BY <1>3, <2>1, <2>2 DEF Addr
  <2> QED BY <1>2, <2>3, ByteRead
<1>5. NotMet(old, call.a, p, c)
  BY <1>1 DEF ResultInv, SoFar
<1>6. ASSUME ret' = LeastIn(Matches(old, call.a, e, c)) PROVE ResultExact'
  BY <1>1, <1>2, <1>6 DEF ResultExact, Matches
<1> HIDE DEF c, e
<1>7. CASE n # 0 /\ At(p) # c
  <2>1. p' = p + 1 /\ ret' = Running
    BY <1>7 DEF memchr, Round, c
  <2>2. NotMet(old, call.a, p + 1, c)
    BY <1>3, <1>4, <1>5, <1>7, StillNotMet
  <2>3. SoFar'
    BY <1>1, <2>1, <2>2 DEF SoFar, NotMet, c
  <2> QED BY <2>1, <2>3, GoesOn
<1>8. CASE n # 0 /\ At(p) = c
  <2>1. ret' = p
    BY <1>8 DEF memchr, Return, c
  <2>2. p \in call.a .. e
    BY <1>3, <1>8
  <2>3. ResultExact'
    BY <1>3, <1>4, <1>5, <1>6, <1>8, <2>1, <2>2, FirstMatch
  <2>4. ret' \in Int /\ ret' > Running
    BY <1>4, <1>8, <2>1, LibAssumption DEF Running, Addr
  <2> QED BY <2>3, <2>4, Ends
<1>9. CASE n = 0
  <2>1. ret' = NULL
    BY <1>9 DEF memchr, Return
  <2>2. ResultExact'
    BY <1>3, <1>5, <1>6, <1>9, <2>1, NoMatch
  <2>3. ret' \in Int /\ ret' > Running
    BY <2>1 DEF Running, NULL
  <2> QED BY <2>2, <2>3, Ends
<1> QED BY <1>7, <1>8, <1>9

-----------------------------------------------------------------------------
(* Strings bounded by a count, two strings at a time                       *)

\* The text from a to e ends before a NUL, or at its count.
TextEnds(a, e, stop) ==
    /\ e \in a - 1 .. Size /\ e <= stop
    /\ \A i \in a .. e : old[i] # 0
    /\ e = stop \/ (e + 1 \in Addr /\ old[e + 1] = 0)

LEMMA StrIs ==
    ASSUME old \in [Addr -> 0 .. 255], NEW a \in Addr, StringAt(old, a)
    PROVE  /\ TextEnds(a, StrEnd(old, a) - 1, Size)
           /\ Str(old, a) = SubSeq(old, a, StrEnd(old, a) - 1)
<1>1. /\ StrEnd(old, a) \in a .. Size /\ old[StrEnd(old, a)] = 0
      /\ \A i \in a .. StrEnd(old, a) - 1 : old[i] # 0
  BY EndFound
<1>2. a \in Int /\ Size \in Int /\ 1 <= a
  BY LibAssumption DEF Addr
<1>3. /\ StrEnd(old, a) - 1 \in a - 1 .. Size /\ StrEnd(old, a) - 1 <= Size
      /\ (StrEnd(old, a) - 1) + 1 = StrEnd(old, a) /\ StrEnd(old, a) \in Addr
  BY <1>1, <1>2 DEF Addr
<1>4. TextEnds(a, StrEnd(old, a) - 1, Size)
  BY <1>1, <1>3 DEF TextEnds
<1> QED BY <1>4 DEF Str

LEMMA PrefixIs ==
    ASSUME old \in [Addr -> 0 .. 255], NEW a \in Addr, NEW k \in Nat,
           a + k <= Size + 1 \/ StringAt(old, a)
    PROVE  \E e \in Int : TextEnds(a, e, a + k - 1) /\ Prefix(old, a, k) = SubSeq(old, a, e)
<1> DEFINE T == {e \in a - 1 .. a + k - 1 : e = a + k - 1 \/ old[e + 1] = 0}
           P(e) == /\ \A i \in a .. e : old[i] # 0
                   /\ e = a + k - 1 \/ old[e + 1] = 0
           f == CHOOSE e \in a - 1 .. a + k - 1 : P(e)
<1>1. a \in Int /\ Size \in Int /\ 1 <= a
  BY LibAssumption DEF Addr
<1>2. T \subseteq Nat /\ a + k - 1 \in T
  BY <1>1
<1>3. PICK x \in T : \A y \in T : x <= y
  BY <1>2, LeastNumber
<1>4. x \in a - 1 .. a + k - 1 /\ (x = a + k - 1 \/ old[x + 1] = 0)
  BY <1>3
<1>5. ASSUME NEW i \in a .. x PROVE old[i] # 0
  <2>1. i - 1 \in a - 1 .. a + k - 1 /\ (i - 1) + 1 = i /\ ~(x <= i - 1)
    BY <1>1, <1>4
  <2>2. i - 1 \notin T
    BY <1>3, <2>1
  <2> QED BY <2>1, <2>2
<1>6. \E e \in a - 1 .. a + k - 1 : P(e)
  BY <1>4, <1>5
<1>7. f \in a - 1 .. a + k - 1 /\ P(f)
  BY <1>6
<1>8. Prefix(old, a, k) = SubSeq(old, a, f)
  BY DEF Prefix
<1> HIDE DEF f
<1>9. f <= Size /\ (f # a + k - 1 => f + 1 \in Addr)
  <2>1. CASE a + k <= Size + 1
    BY <1>1, <1>7, <2>1 DEF Addr
  <2>2. CASE StringAt(old, a)
    <3>1. PICK z \in a .. Size : old[z] = 0
      BY <2>2 DEF StringAt
    <3>2. ~(z <= f)
      BY <1>7, <3>1
    <3> QED BY <1>1, <1>7, <3>1, <3>2 DEF Addr
  <2> QED BY <2>1, <2>2
<1>10. TextEnds(a, f, a + k - 1)
  BY <1>1, <1>7, <1>9 DEF TextEnds
<1>11. f \in Int
  BY <1>1, <1>7
<1> QED BY <1>8, <1>10, <1>11

\* The bytes of a part of the memory.
LEMMA PartIs ==
    ASSUME NEW m \in [Addr -> 0 .. 255], NEW a \in Addr, NEW e \in a - 1 .. Size
    PROVE  /\ SubSeq(m, a, e) \in Seq(0 .. 255)
           /\ Len(SubSeq(m, a, e)) = e - a + 1
           /\ \A j \in 1 .. e - a + 1 : SubSeq(m, a, e)[j] = m[a + j - 1]
<1>1. m \in Seq(0 .. 255) /\ Len(m) = Size
  BY LibAssumption DEF Addr
<1>2. a \in 1 .. Len(m) + 1 /\ e \in a - 1 .. Len(m)
  BY <1>1, LibAssumption DEF Addr
<1> QED BY <1>1, <1>2, SubSeqProperties, LibAssumption DEF Addr

\* Where the cursors are in their texts.
LEMMA TextReached ==
    ASSUME old \in [Addr -> 0 .. 255], NEW a \in Addr, NEW e \in Int, NEW stop \in Int,
           TextEnds(a, e, stop), NEW t \in Int, Scanned(a, t), t <= stop + 1
    PROVE  /\ t \in a .. e + 1
           /\ t = stop + 1 \/ (t \in Addr /\ old[t] = 0) => t = e + 1
           /\ t # stop + 1 => t \in Addr
           /\ t # stop + 1 /\ t = e + 1 => old[t] = 0
<1>1. /\ a \in Int /\ Size \in Int /\ 1 <= a
      /\ e \in a - 1 .. Size /\ e <= stop
      /\ \A i \in a .. e : old[i] # 0
      /\ e = stop \/ (e + 1 \in Addr /\ old[e + 1] = 0)
      /\ a <= t /\ \A i \in a .. t - 1 : old[i] # 0
  BY LibAssumption DEF TextEnds, Scanned, Addr
<1>2. t <= e + 1
  <2> SUFFICES ASSUME ~(t <= e + 1) PROVE FALSE
    OBVIOUS
  <2>1. e # stop /\ e + 1 \in a .. t - 1
    BY <1>1
  <2> QED BY <1>1, <2>1
<1>3. t = stop + 1 => t = e + 1
  BY <1>1, <1>2
<1>4. t \in Addr /\ old[t] = 0 => t = e + 1
  <2> SUFFICES ASSUME t \in Addr, old[t] = 0, t # e + 1 PROVE FALSE
    OBVIOUS
  <2>1. t \in a .. e
    BY <1>1, <1>2
  <2> QED BY <1>1, <2>1
<1>5. t # stop + 1 => t \in Addr
  <2>1. CASE t = e + 1
    BY <1>1, <2>1
  <2>2. CASE t # e + 1
    BY <1>1, <1>2, <2>2 DEF Addr
  <2> QED BY <2>1, <2>2
<1>6. t # stop + 1 /\ t = e + 1 => old[t] = 0
  BY <1>1
<1> QED BY <1>1, <1>2, <1>3, <1>4, <1>5, <1>6

LEMMA strnlenFinds == ASSUME ReadInv, ResultInv, strnlen PROVE ResultInv'
<1>1. call.fn = "strnlen" /\ ret = Running /\ UNCHANGED <<call, old, mem>>
  BY DEF strnlen, Loop
<1>2. /\ mem = old /\ Scanned(call.a, p) /\ Left(p, call.a)
      /\ call.a + call.n <= Size + 1 \/ StringAt(old, call.a)
  BY <1>1 DEF ReadInv, RunInv, Writes, Moves, Legal, OnString
<1>3. PICK e \in Int : /\ TextEnds(call.a, e, call.a + call.n - 1)
                       /\ Prefix(old, call.a, call.n) = SubSeq(old, call.a, e)
  BY <1>2, PrefixIs, ReadFacts
<1> DEFINE stop == call.a + call.n - 1
<1>4. /\ call.a \in Int /\ call.n \in Nat /\ p \in Int /\ stop \in Int
      /\ p <= stop + 1 /\ (n = 0 <=> p = stop + 1)
  BY <1>2, ReadFacts DEF Left
<1> HIDE DEF stop
<1>5. /\ n = 0 => p = e + 1
      /\ n # 0 => p \in Addr /\ (old[p] = 0 => p = e + 1)
  <2>1. /\ old \in [Addr -> 0 .. 255] /\ call.a \in Addr /\ Scanned(call.a, p)
        /\ TextEnds(call.a, e, stop)
    BY <1>2, <1>3, ReadFacts DEF stop
  <2>2. /\ p = stop + 1 \/ (p \in Addr /\ old[p] = 0) => p = e + 1
        /\ p # stop + 1 => p \in Addr
    BY <1>4, <2>1, TextReached
  <2> QED BY <1>4, <2>2
<1>6. CASE n # 0 /\ At(p) # 0
  <2>1. ret' = Running
    BY <1>6 DEF strnlen, Round
  <2>2. SoFar'
    BY <1>1 DEF SoFar
  <2> QED BY <2>1, <2>2, GoesOn
<1>7. CASE ~(n # 0 /\ At(p) # 0)
  <2>1. ret' = p - call.a
    BY <1>7 DEF strnlen, Return
  <2>2. p = e + 1
    BY <1>2, <1>5, <1>7, ByteRead
  <2>3. e \in call.a - 1 .. Size
    BY <1>3 DEF TextEnds
  <2>4. ret' = Len(Prefix(old, call.a, call.n))
    <3>1. old \in [Addr -> 0 .. 255] /\ call.a \in Addr
      BY ReadFacts
    <3>2. Len(SubSeq(old, call.a, e)) = e - call.a + 1
      BY <2>3, <3>1, PartIs
    <3>3. Prefix(old, call.a, call.n) = SubSeq(old, call.a, e) /\ e \in Int
      BY <1>3
    <3> QED BY <1>4, <2>1, <2>2, <3>2, <3>3
  <2>5. ResultExact'
    BY <1>1, <1>2, <2>4 DEF ResultExact
  <2>6. ret' \in Int /\ ret' > Running
    BY <1>2, <1>4, <2>1 DEF Running, Scanned
  <2> QED BY <2>5, <2>6, Ends
<1> QED BY <1>6, <1>7

\* The order of two sequences is that of their first bytes that differ.
LEMMA OrderIs ==
    ASSUME NEW s, NEW t, Len(s) \in Nat, NEW d \in 1 .. Len(s) + 1,
           \A j \in 1 .. d - 1 : ByteOf(s, j) = ByteOf(t, j),
           ByteOf(s, d) # ByteOf(t, d)
    PROVE  Order(s, t) = IF ByteOf(s, d) < ByteOf(t, d) THEN 1 ELSE -1
<1> DEFINE D == {j \in 1 .. Len(s) + 1 : ByteOf(s, j) # ByteOf(t, j)}
<1>1. D \subseteq Nat /\ d \in D
  OBVIOUS
<1>2. FirstOf(D) \in D /\ FirstOf(D) <= d
  BY <1>1, FirstFound
<1>3. ~(FirstOf(D) <= d - 1)
  <2>1. FirstOf(D) \in 1 .. Len(s) + 1 /\ ByteOf(s, FirstOf(D)) # ByteOf(t, FirstOf(D))
    BY <1>2
  <2> QED BY <2>1
<1>4. FirstOf(D) = d
  <2>1. FirstOf(D) \in Int
    BY <1>2
  <2> HIDE DEF D
  <2> QED BY <1>2, <1>3, <2>1
<1>5. s # t
  OBVIOUS
<1>6. Order(s, t) = IF ByteOf(s, FirstOf(D)) < ByteOf(t, FirstOf(D)) THEN 1 ELSE -1
  BY <1>5 DEF Order
<1> HIDE DEF D
<1> QED BY <1>4, <1>6

LEMMA OrderOfSame == ASSUME NEW s PROVE Order(s, s) = 0
BY DEF Order

\* Two parts of the memory that begin alike and then differ; past its end a
\* part counts as a NUL.
LEMMA PartsDiffer ==
    ASSUME NEW m \in [Addr -> 0 .. 255], NEW a \in Addr, NEW b \in Addr,
           NEW ea \in a - 1 .. Size, NEW eb \in b - 1 .. Size,
           NEW i \in Nat, a + i <= ea + 1, b + i <= eb + 1,
           a + i = ea + 1 => m[a + i] = 0, b + i = eb + 1 => m[b + i] = 0,
           \A j \in 0 .. i - 1 : m[a + j] = m[b + j],
           m[a + i] # m[b + i]
    PROVE  /\ Order(SubSeq(m, a, ea), SubSeq(m, b, eb)) =
                  IF m[a + i] < m[b + i] THEN 1 ELSE -1
           /\ SubSeq(m, a, ea) # SubSeq(m, b, eb)
<1> DEFINE s == SubSeq(m, a, ea)
           t == SubSeq(m, b, eb)
<1>1. a \in Int /\ b \in Int /\ Size \in Int /\ ea \in Int /\ eb \in Int
  BY LibAssumption DEF Addr
<1>2. /\ Len(s) = ea - a + 1 /\ \A j \in 1 .. ea - a + 1 : s[j] = m[a + j - 1]
      /\ Len(t) = eb - b + 1 /\ \A j \in 1 .. eb - b + 1 : t[j] = m[b + j - 1]
  BY PartIs
<1> HIDE DEF s, t
<1>3. ASSUME NEW j \in 0 .. i
      PROVE  ByteOf(s, j + 1) = m[a + j] /\ ByteOf(t, j + 1) = m[b + j]
  <2>1. ByteOf(s, j + 1) = m[a + j]
    <3>1. CASE a + j <= ea
      <4>1. j + 1 \in 1 .. ea - a + 1 /\ a + (j + 1) - 1 = a + j /\ ~(j + 1 > Len(s))
        BY <1>1, <1>2, <3>1
      <4> QED BY <1>2, <4>1 DEF ByteOf
    <3>2. CASE ~(a + j <= ea)
      <4>1. j = i /\ a + i = ea + 1 /\ j + 1 > Len(s)
        BY <1>1, <1>2, <3>2
      <4> QED BY <4>1 DEF ByteOf
    <3> QED BY <3>1, <3>2
  <2>2. ByteOf(t, j + 1) = m[b + j]
    <3>1. CASE b + j <= eb
      <4>1. j + 1 \in 1 .. eb - b + 1 /\ b + (j + 1) - 1 = b + j /\ ~(j + 1 > Len(t))
        BY <1>1, <1>2, <3>1
      <4> QED BY <1>2, <4>1 DEF ByteOf
    <3>2. CASE ~(b + j <= eb)
      <4>1. j = i /\ b + i = eb + 1 /\ j + 1 > Len(t)
        BY <1>1, <1>2, <3>2
      <4> QED BY <4>1 DEF ByteOf
    <3> QED BY <3>1, <3>2
  <2> QED BY <2>1, <2>2
<1>4. ASSUME NEW j \in 1 .. (i + 1) - 1 PROVE ByteOf(s, j) = ByteOf(t, j)
  <2>1. j - 1 \in 0 .. i /\ j - 1 \in 0 .. i - 1 /\ (j - 1) + 1 = j
    OBVIOUS
  <2>2. /\ ByteOf(s, (j - 1) + 1) = m[a + (j - 1)]
        /\ ByteOf(t, (j - 1) + 1) = m[b + (j - 1)]
    BY <1>3, <2>1
  <2>3. m[a + (j - 1)] = m[b + (j - 1)]
    BY <2>1
  <2> QED BY <2>1, <2>2, <2>3
<1>5. i \in 0 .. i /\ i + 1 \in 1 .. Len(s) + 1 /\ Len(s) \in Nat
  BY <1>1, <1>2
<1>6. ByteOf(s, i + 1) = m[a + i] /\ ByteOf(t, i + 1) = m[b + i]
  BY <1>3, <1>5
<1>7. Order(s, t) = IF m[a + i] < m[b + i] THEN 1 ELSE -1
  BY <1>4, <1>5, <1>6, OrderIs
<1>8. s # t
  BY <1>6
<1> QED BY <1>7, <1>8 DEF s, t

LEMMA PartsSame ==
    ASSUME NEW m \in [Addr -> 0 .. 255], NEW a \in Addr, NEW b \in Addr,
           NEW ea \in a - 1 .. Size, NEW eb \in b - 1 .. Size, ea - a = eb - b,
           \A j \in 0 .. ea - a : m[a + j] = m[b + j]
    PROVE  SubSeq(m, a, ea) = SubSeq(m, b, eb)
<1> DEFINE s == SubSeq(m, a, ea)
           t == SubSeq(m, b, eb)
<1>1. a \in Int /\ b \in Int /\ Size \in Int /\ ea \in Int /\ eb \in Int
  BY LibAssumption DEF Addr
<1>2. /\ s \in Seq(0 .. 255) /\ t \in Seq(0 .. 255)
      /\ Len(s) = ea - a + 1 /\ \A j \in 1 .. ea - a + 1 : s[j] = m[a + j - 1]
      /\ Len(t) = eb - b + 1 /\ \A j \in 1 .. eb - b + 1 : t[j] = m[b + j - 1]
  BY PartIs
<1> HIDE DEF s, t
<1>3. ASSUME NEW j \in 1 .. Len(s) PROVE s[j] = t[j]
  <2>1. /\ j - 1 \in 0 .. ea - a /\ a + (j - 1) = a + j - 1 /\ b + (j - 1) = b + j - 1
        /\ j \in 1 .. ea - a + 1 /\ j \in 1 .. eb - b + 1
    BY <1>1, <1>2
  <2>2. m[a + (j - 1)] = m[b + (j - 1)]
    BY <2>1
  <2> QED BY <1>2, <2>1, <2>2
<1>4. Len(s) = Len(t)
  BY <1>1, <1>2
<1>5. s = t
  BY <1>2, <1>3, <1>4, SeqEqual
<1> QED BY <1>5 DEF s, t

\* strcmp and strncmp return the order of two texts: it is decided where the
\* cursors differ or are both at a NUL.
LEMMA StillAlike ==
    ASSUME ReadInv, Alike, call' = call, old' = old, p' = p + 1, q' = q + 1,
           old[p] = old[q]
    PROVE  Alike'
<1>1. p \in Int /\ q \in Int /\ call.a \in Int /\ call.b \in Int
  BY ReadFacts
<1>2. p - call.a = q - call.b
  BY DEF Alike
<1>3. \A i \in 0 .. p - call.a : old[call.a + i] = old[call.b + i]
  <2> TAKE i \in 0 .. p - call.a
  <2>1. CASE i = p - call.a
    <3>1. call.a + i = p /\ call.b + i = q
      BY <1>1, <1>2, <2>1
    <3> QED BY <3>1
  <2>2. CASE i # p - call.a
    <3>1. i \in 0 .. p - call.a - 1
      BY <1>1, <2>2
    <3> QED BY <3>1 DEF Alike
  <2> QED BY <2>1, <2>2
<1>4. (p + 1) - call.a = (q + 1) - call.b /\ (p + 1) - call.a - 1 = p - call.a
  BY <1>1, <1>2
<1> QED BY <1>3, <1>4 DEF Alike

LEMMA CompareFinds ==
    ASSUME ReadInv, ResultInv, call.fn \in {"strcmp", "strncmp"}, ret = Running,
           UNCHANGED <<call, old>>, NEW n2, Compare(n2), mem = old,
           NEW ea \in Int, NEW eb \in Int, NEW sa \in Int, NEW sb \in Int,
           TextEnds(call.a, ea, sa), TextEnds(call.b, eb, sb),
           Scanned(call.a, p), Scanned(call.b, q), p <= sa, q <= sb,
           ret' = Order(SubSeq(old, call.a, ea), SubSeq(old, call.b, eb)) => ResultExact'
    PROVE  ResultInv'
<1>1. /\ old \in [Addr -> 0 .. 255] /\ call.a \in Addr /\ call.b \in Addr
      /\ p \in Int /\ q \in Int /\ call.a \in Int /\ call.b \in Int
  BY ReadFacts
<1>2. /\ p # sa + 1 /\ p <= sa + 1 /\ q # sb + 1 /\ q <= sb + 1
  BY <1>1
<1>3. /\ p \in call.a .. ea + 1 /\ p \in Addr
      /\ old[p] = 0 => p = ea + 1
      /\ p = ea + 1 => old[p] = 0
  BY <1>1, <1>2, TextReached
<1>4. /\ q \in call.b .. eb + 1 /\ q \in Addr
      /\ old[q] = 0 => q = eb + 1
      /\ q = eb + 1 => old[q] = 0
  BY <1>1, <1>2, TextReached
<1>5. At(p) = old[p] /\ At(q) = old[q]
  BY <1>3, <1>4, ByteRead
<1>6. ea \in call.a - 1 .. Size /\ eb \in call.b - 1 .. Size
  BY DEF TextEnds
<1>7. Alike
  BY DEF ResultInv, SoFar
<1> DEFINE i == p - call.a
<1>8. /\ i \in Nat /\ call.a + i = p /\ call.b + i = q
      /\ \A j \in 0 .. i - 1 : old[call.a + j] = old[call.b + j]
  BY <1>1, <1>3, <1>7 DEF Alike
<1> HIDE DEF i
<1>9. CASE At(p) # At(q)
  <2>1. ret' = IF old[p] < old[q] THEN 1 ELSE -1
    BY <1>5, <1>9 DEF Compare, Return
  <2>2. /\ call.a + i <= ea + 1 /\ call.b + i <= eb + 1
        /\ call.a + i = ea + 1 => old[call.a + i] = 0
        /\ call.b + i = eb + 1 => old[call.b + i] = 0
        /\ old[call.a + i] # old[call.b + i]
    BY <1>3, <1>4, <1>5, <1>8, <1>9
  <2>3. Order(SubSeq(old, call.a, ea), SubSeq(old, call.b, eb)) =
            IF old[call.a + i] < old[call.b + i] THEN 1 ELSE -1
    BY <1>1, <1>6, <1>8, <2>2, PartsDiffer
  <2>4. ResultExact'
    BY <1>8, <2>1, <2>3
  <2>5. ret' \in Int /\ ret' > Running
    BY <2>1 DEF Running
  <2> QED BY <2>4, <2>5, Ends
<1>10. CASE At(p) = At(q) /\ At(p) = 0
  <2>1. ret' = 0
    BY <1>10 DEF Compare, Return
  <2>2. p = ea + 1 /\ q = eb + 1
    BY <1>3, <1>4, <1>5, <1>10
  <2>3. ea - call.a = eb - call.b /\ ea - call.a = i - 1
    BY <1>1, <1>8, <2>2
  <2>4. SubSeq(old, call.a, ea) = SubSeq(old, call.b, eb)
    <3>1. \A j \in 0 .. ea - call.a : old[call.a + j] = old[call.b + j]
      BY <1>8, <2>3
    <3> QED BY <1>1, <1>6, <2>3, <3>1, PartsSame
  <2>5. ResultExact'
    BY <2>1, <2>4, OrderOfSame
  <2>6. ret' \in Int /\ ret' > Running
    BY <2>1 DEF Running
  <2> QED BY <2>5, <2>6, Ends
<1>11. CASE At(p) = At(q) /\ At(p) # 0
  <2>1. p' = p + 1 /\ q' = q + 1 /\ ret' = Running
    BY <1>11 DEF Compare, Round
  <2>2. Alike'
    BY <1>5, <1>7, <1>11, <2>1, StillAlike
  <2>3. SoFar'
    BY <2>2 DEF SoFar
  <2> QED BY <2>1, <2>3, GoesOn
<1> QED BY <1>9, <1>10, <1>11

LEMMA strcmpFinds == ASSUME ReadInv, ResultInv, strcmp PROVE ResultInv'
<1>1. /\ call.fn = "strcmp" /\ ret = Running /\ call' = call /\ old' = old
      /\ Compare(n) /\ mem = old /\ Scanned(call.a, p) /\ Scanned(call.b, q)
  BY DEF strcmp, Loop, ReadInv, RunInv, Writes, Moves
<1>2. /\ StringAt(old, call.a) /\ StringAt(old, call.b)
      /\ old \in [Addr -> 0 .. 255] /\ call.a \in Addr /\ call.b \in Addr
      /\ p \in Int /\ q \in Int
  BY <1>1, LegalIs, ReadFacts
<1> DEFINE ea == StrEnd(old, call.a) - 1
           eb == StrEnd(old, call.b) - 1
<1>3. /\ TextEnds(call.a, ea, Size) /\ Str(old, call.a) = SubSeq(old, call.a, ea)
      /\ TextEnds(call.b, eb, Size) /\ Str(old, call.b) = SubSeq(old, call.b, eb)
  BY <1>2, StrIs
<1>4. p \in Addr /\ q \in Addr
  BY <1>1, <1>2, InString
<1>5. ea \in Int /\ eb \in Int /\ Size \in Int /\ p <= Size /\ q <= Size
  BY <1>2, <1>4, EndFound, LibAssumption DEF Addr
<1>6. mem' = old'
  BY <1>1 DEF Compare
<1>7. ASSUME ret' = Order(SubSeq(old, call.a, ea), SubSeq(old, call.b, eb))
      PROVE  ResultExact'
  <2>1. ret' = Order(Str(old, call.a), Str(old, call.b))
    BY <1>3, <1>7
  <2>2. SameResult'
    BY <1>1, <2>1 DEF SameResult
  <2> QED BY <1>1, <1>6, <2>2 DEF ResultExact
<1> HIDE DEF ea, eb
<1> QED BY <1>1, <1>3, <1>5, <1>7, CompareFinds

LEMMA strncmpFinds == ASSUME ReadInv, ResultInv, strncmp PROVE ResultInv'
<1>1. /\ call.fn = "strncmp" /\ ret = Running /\ call' = call /\ old' = old
      /\ mem = old /\ Scanned(call.a, p) /\ Scanned(call.b, q)
      /\ Left(p, call.a) /\ Left(q, call.b)
      /\ call.a + call.n <= Size + 1 \/ StringAt(old, call.a)
      /\ call.b + call.n <= Size + 1 \/ StringAt(old, call.b)
  BY DEF strncmp, Loop, ReadInv, RunInv, Writes, Moves, Legal, OnString
<1>2. /\ old \in [Addr -> 0 .. 255] /\ call.a \in Addr /\ call.b \in Addr
      /\ p \in Int /\ q \in Int /\ call.a \in Int /\ call.b \in Int /\ call.n \in Nat
  BY ReadFacts
<1> DEFINE sa == call.a + call.n - 1
           sb == call.b + call.n - 1
<1>3. PICK ea \in Int : /\ TextEnds(call.a, ea, sa)
                        /\ Prefix(old, call.a, call.n) = SubSeq(old, call.a, ea)
  BY <1>1, <1>2, PrefixIs
<1>4. PICK eb \in Int : /\ TextEnds(call.b, eb, sb)
                        /\ Prefix(old, call.b, call.n) = SubSeq(old, call.b, eb)
  BY <1>1, <1>2, PrefixIs
<1>5. /\ sa \in Int /\ sb \in Int /\ p <= sa + 1 /\ q <= sb + 1
      /\ n = 0 => p = sa + 1 /\ q = sb + 1
      /\ n # 0 => p <= sa /\ q <= sb
  BY <1>1, <1>2 DEF Left
<1> HIDE DEF sa, sb
<1>6. mem' = old'
  BY <1>1 DEF strncmp, Compare
<1>7. ASSUME ret' = Order(SubSeq(old, call.a, ea), SubSeq(old, call.b, eb))
      PROVE  ResultExact'
  <2>1. ret' = Order(Prefix(old, call.a, call.n), Prefix(old, call.b, call.n))
    BY <1>3, <1>4, <1>7
  <2>2. SameResult'
    BY <1>1, <2>1 DEF SameResult
  <2> QED BY <1>1, <1>6, <2>2 DEF ResultExact
<1>8. CASE n = 0
  <2>1. ret' = 0
    BY <1>8 DEF strncmp, Return
  <2>2. p = ea + 1 /\ q = eb + 1
    BY <1>1, <1>2, <1>3, <1>4, <1>5, <1>8, TextReached
  <2>3. /\ ea \in call.a - 1 .. Size /\ eb \in call.b - 1 .. Size
        /\ ea - call.a = eb - call.b
        /\ \A j \in 0 .. ea - call.a : old[call.a + j] = old[call.b + j]
    <3>1. Alike
      BY <1>1 DEF ResultInv, SoFar
    <3>2. ea - call.a = p - call.a - 1 /\ eb - call.b = q - call.b - 1
      BY <1>2, <2>2
    <3> QED BY <1>3, <1>4, <3>1, <3>2 DEF Alike, TextEnds
  <2>4. SubSeq(old, call.a, ea) = SubSeq(old, call.b, eb)
    BY <1>2, <2>3, PartsSame
  <2>5. ResultExact'
    BY <1>7, <2>1, <2>4, OrderOfSame
  <2>6. ret' \in Int /\ ret' > Running
    BY <2>1 DEF Running
  <2> QED BY <2>5, <2>6, Ends
<1>9. CASE n # 0
  <2>1. Compare(n - 1)
    BY <1>9 DEF strncmp
  <2> QED BY <1>1, <1>3, <1>4, <1>5, <1>7, <1>9, <2>1, CompareFinds
<1> QED BY <1>8, <1>9

LEMMA memcmpFinds == ASSUME ReadInv, ResultInv, memcmp PROVE ResultInv'
<1>1. /\ call.fn = "memcmp" /\ ret = Running /\ call' = call /\ old' = old /\ mem' = mem
      /\ mem = old /\ Left(p, call.a) /\ Left(q, call.b)
      /\ call.a + call.n <= Size + 1 /\ call.b + call.n <= Size + 1
  BY DEF memcmp, Loop, ReadInv, RunInv, Writes, Moves, Legal, OnString
<1>2. /\ old \in [Addr -> 0 .. 255] /\ call.a \in Addr /\ call.b \in Addr
      /\ p \in Int /\ q \in Int /\ call.a \in Int /\ call.b \in Int /\ call.n \in Nat
      /\ 1 <= call.a /\ 1 <= call.b /\ Size \in Int
  BY ReadFacts, LibAssumption DEF Addr
<1> DEFINE ea == call.a + call.n - 1
           eb == call.b + call.n - 1
           i  == call.n - n
<1>3. /\ ea \in call.a - 1 .. Size /\ eb \in call.b - 1 .. Size /\ ea - call.a = eb - call.b
      /\ i \in Nat /\ call.a + i = p /\ call.b + i = q
      /\ n = 0 => ea - call.a = i - 1
      /\ n # 0 => p \in call.a .. ea /\ q \in call.b .. eb
  BY <1>1, <1>2 DEF Left
<1>4. n # 0 => At(p) = old[p] /\ At(q) = old[q] /\ p \in Addr /\ q \in Addr
  <2> HIDE DEF ea, eb, i
  <2>1. n # 0 => p \in 1 .. Size /\ q \in 1 .. Size
    BY <1>2, <1>3
  <2>2. n # 0 => p \in Addr /\ q \in Addr
    BY <2>1 DEF Addr
  <2> QED BY <1>1, <2>2, ByteRead
<1>5. Alike
  BY <1>1 DEF ResultInv, SoFar
<1>6. \A j \in 0 .. i - 1 : old[call.a + j] = old[call.b + j]
  BY <1>1, <1>2, <1>5 DEF Alike, Left
<1>7. ASSUME LET s == SubSeq(old, call.a, ea)
                 t == SubSeq(old, call.b, eb)
             IN  IF s = t THEN ret' = 0 ELSE ret' * Order(s, t) < 0
      PROVE  ResultExact'
  <2>1. SameResult'
    BY <1>1, <1>7 DEF SameResult
  <2> QED BY <1>1, <2>1 DEF ResultExact
<1> HIDE DEF ea, eb, i
<1>8. CASE n = 0
  <2>1. ret' = 0
    BY <1>8 DEF memcmp, Return
  <2>2. SubSeq(old, call.a, ea) = SubSeq(old, call.b, eb)
    <3>1. \A j \in 0 .. ea - call.a : old[call.a + j] = old[call.b + j]
      BY <1>3, <1>6, <1>8
    <3> QED BY <1>2, <1>3, <3>1, PartsSame
  <2>3. ResultExact'
    BY <1>7, <2>1, <2>2
  <2>4. ret' \in Int /\ ret' > Running
    BY <2>1 DEF Running
  <2> QED BY <2>3, <2>4, Ends
<1>9. CASE n # 0 /\ At(p) = At(q)
  <2>1. p' = p + 1 /\ q' = q + 1 /\ ret' = Running
    BY <1>9 DEF memcmp, Round
  <2>2. Alike'
    BY <1>1, <1>4, <1>5, <1>9, <2>1, StillAlike
  <2>3. SoFar'
    BY <1>1, <2>2 DEF SoFar
  <2> QED BY <2>1, <2>3, GoesOn
<1>10. CASE n # 0 /\ At(p) # At(q)
  <2>1. ret' = old[p] - old[q]
    BY <1>4, <1>10 DEF memcmp, Return
  <2>2. old[p] \in 0 .. 255 /\ old[q] \in 0 .. 255 /\ old[p] # old[q]
    BY <1>2, <1>4, <1>10
  <2>3. /\ Order(SubSeq(old, call.a, ea), SubSeq(old, call.b, eb)) =
               IF old[p] < old[q] THEN 1 ELSE -1
        /\ SubSeq(old, call.a, ea) # SubSeq(old, call.b, eb)
    <3>1. call.a + i = p /\ call.b + i = q
      BY <1>3
    <3>2. /\ call.a + i <= ea + 1 /\ call.b + i <= eb + 1
          /\ call.a + i = ea + 1 => old[call.a + i] = 0
          /\ call.b + i = eb + 1 => old[call.b + i] = 0
      BY <1>2, <1>3, <1>10, <3>1
    <3>3. old[call.a + i] # old[call.b + i]
      BY <2>2, <3>1
    <3>4. i \in Nat /\ ea \in call.a - 1 .. Size /\ eb \in call.b - 1 .. Size
      BY <1>3
    <3>5. /\ Order(SubSeq(old, call.a, ea), SubSeq(old, call.b, eb)) =
                 IF old[call.a + i] < old[call.b + i] THEN 1 ELSE -1
          /\ SubSeq(old, call.a, ea) # SubSeq(old, call.b, eb)
      BY <1>2, <1>6, <3>2, <3>3, <3>4, PartsDiffer
    <3> QED BY <3>1, <3>5
  <2>4. ret' * Order(SubSeq(old, call.a, ea), SubSeq(old, call.b, eb)) < 0
    <3>1. \A x, y \in 0 .. 255 :
             /\ x < y => (x - y) * 1 < 0
             /\ x # y /\ ~(x < y) => (x - y) * (-1) < 0
      OBVIOUS
    <3>2. CASE old[p] < old[q]
      <4>1. Order(SubSeq(old, call.a, ea), SubSeq(old, call.b, eb)) = 1
        BY <2>3, <3>2
      <4> QED BY <2>1, <2>2, <3>1, <3>2, <4>1
    <3>3. CASE ~(old[p] < old[q])
      <4>1. Order(SubSeq(old, call.a, ea), SubSeq(old, call.b, eb)) = -1
        BY <2>3, <3>3
      <4> QED BY <2>1, <2>2, <3>1, <3>3, <4>1
    <3> QED BY <3>2, <3>3
  <2>5. ResultExact'
    BY <1>7, <2>3, <2>4
  <2>6. ret' \in Int /\ ret' > Running
    <3>1. \A x, y \in 0 .. 255 : x - y \in Int /\ x - y > Running
      BY DEF Running
    <3> QED BY <2>1, <2>2, <3>1
  <2> QED BY <2>5, <2>6, Ends
<1> QED BY <1>8, <1>9, <1>10

-----------------------------------------------------------------------------
(* Searches                                                                *)

\* The places from a to e where the string of the call's second argument is.
Places(a, e) == {i \in a .. e : Occurs(i, call.b)}

LEMMA FirstPlace ==
    ASSUME NEW a \in Int, NEW e \in Int, NEW t \in a .. e, Occurs(t, call.b),
           \A i \in a .. t - 1 : ~Occurs(i, call.b)
    PROVE  LeastIn(Places(a, e)) = t
<1>1. Places(a, e) \subseteq Int /\ t \in Places(a, e)
  BY DEF Places
<1>2. ASSUME NEW j \in Places(a, e) PROVE t <= j
  <2>1. j \in a .. e /\ j \notin a .. t - 1
    BY DEF Places
  <2> QED BY <2>1
<1> QED BY <1>1, <1>2, LeastIs

LEMMA NoPlace ==
    ASSUME NEW a \in Int, NEW e \in Int, NEW t \in Int, e < t,
           \A i \in a .. t - 1 : ~Occurs(i, call.b)
    PROVE  LeastIn(Places(a, e)) = NULL
<1>1. Places(a, e) = {}
  BY DEF Places
<1> QED BY <1>1, NoneFound

\* memcmp returns 0 for equal blocks only.
LEMMA MemcmpIs ==
    ASSUME NEW m \in [Addr -> 0 .. 255], NEW a \in Int, NEW b \in Int, NEW l \in Nat,
           \A i \in 0 .. l - 1 : a + i \in Addr /\ b + i \in Addr
    PROVE  Memcmp(m, a, b, l) = 0 <=> \A i \in 0 .. l - 1 : m[a + i] = m[b + i]
<1> DEFINE D == Differ(m, a, b, l)
<1>1. D \subseteq Nat /\ D \subseteq 0 .. l - 1
      /\ \A i \in D : m[a + i] # m[b + i]
  BY DEF Differ
<1>2. CASE D = {}
  <2>1. Memcmp(m, a, b, l) = 0
    BY <1>2 DEF Memcmp
  <2>2. \A i \in 0 .. l - 1 : m[a + i] = m[b + i]
    BY <1>2 DEF Differ
  <2> QED BY <2>1, <2>2
<1>3. CASE D # {}
  <2> DEFINE i == FirstOf(D)
  <2>1. Memcmp(m, a, b, l) = m[a + i] - m[b + i]
    BY <1>3 DEF Memcmp
  <2> HIDE DEF D
  <2>2. i \in D
    BY <1>1, <1>3, FirstFound
  <2>3. i \in 0 .. l - 1 /\ m[a + i] # m[b + i]
    BY <1>1, <2>2
  <2> HIDE DEF i
  <2>4. m[a + i] \in 0 .. 255 /\ m[b + i] \in 0 .. 255
    BY <2>3
  <2>5. \A x, y \in 0 .. 255 : x # y => x - y # 0
    OBVIOUS
  <2> QED BY <2>1, <2>3, <2>4, <2>5
<1> QED BY <1>2, <1>3

\* The string is searched for up to where it would end with the memory or the
\* string it is searched in.
SearchEnd == IF call.fn = "strstr" THEN StrEnd(old, call.a) ELSE call.a + call.n

LEMMA SearchFacts ==
    ASSUME ReadInv, call.fn \in {"strstr", "strnsrt"}
    PROVE  /\ old \in [Addr -> 0 .. 255] /\ mem = old
           /\ call.a \in Int /\ 1 <= call.a /\ call.b \in Int /\ 1 <= call.b
           /\ SearchEnd \in Int /\ SearchEnd <= Size + 1 /\ call.a <= SearchEnd
           /\ StrEnd(old, call.b) \in call.b .. Size
           /\ Strlen(old, call.b) = StrEnd(old, call.b) - call.b
           /\ Strlen(old, call.b) \in Nat
<1>1. /\ mem = old /\ StringAt(old, call.b)
      /\ call.fn = "strstr" => StringAt(old, call.a)
      /\ call.fn = "strnsrt" => call.a + call.n <= Size + 1
  BY LegalIs DEF ReadInv, Writes, Moves, Legal, OnString
<1>2. /\ call.a \in Addr /\ call.b \in Addr /\ call.n \in Nat /\ Size \in Int
      /\ call.a \in Int /\ 1 <= call.a /\ call.b \in Int /\ 1 <= call.b
      /\ old \in [Addr -> 0 .. 255]
  BY ReadFacts, LibAssumption DEF Addr
<1>3. StrEnd(old, call.b) \in call.b .. Size
  BY <1>1, <1>2, EndFound
<1>4. call.fn = "strstr" => StrEnd(old, call.a) \in call.a .. Size
  BY <1>1, <1>2, EndFound
<1>5. SearchEnd \in Int /\ SearchEnd <= Size + 1 /\ call.a <= SearchEnd
  BY <1>1, <1>2, <1>4 DEF SearchEnd
<1>6. /\ Strlen(old, call.b) = StrEnd(old, call.b) - call.b
      /\ Strlen(old, call.b) \in Nat
  BY <1>2, <1>3 DEF Strlen
<1> QED BY <1>1, <1>2, <1>3, <1>5, <1>6

LEMMA SearchExact ==
    ASSUME ReadInv, call.fn \in {"strstr", "strnsrt"}, call' = call, old' = old, mem' = old,
           NEW l, l = StrEnd(old, call.b) - call.b,
           ret' = IF call.fn = "strnsrt" /\ l = 0 THEN call.a
                  ELSE LeastIn(Places(call.a, SearchEnd - l))
    PROVE  ResultExact'
<1>1. CASE call.fn = "strstr"
  <2>1. ret' = LeastIn({i \in call.a .. StrEnd(old, call.a) - l : Occurs(i, call.b)})
    BY <1>1 DEF Places, SearchEnd
  <2> QED BY <1>1, <2>1 DEF ResultExact, Occurs, Strlen
<1>2. CASE call.fn = "strnsrt"
  <2>1. SearchEnd = call.a + call.n
    BY <1>2 DEF SearchEnd
  <2>2. ret' = IF l = 0 THEN call.a
               ELSE LeastIn(Places(call.a, call.a + call.n - l))
    <3>1. SearchEnd - l = call.a + call.n - l
      <4>1. l \in Int /\ call.a \in Int /\ call.n \in Int
        BY SearchFacts, ReadFacts
      <4> QED BY <2>1, <4>1
    <3>2. LeastIn(Places(call.a, SearchEnd - l)) = LeastIn(Places(call.a, call.a + call.n - l))
      BY <3>1
    <3> QED BY <1>2, <3>2
  <2>3. Places(call.a, call.a + call.n - l)
            = {i \in call.a .. call.a + call.n - l : Occurs(i, call.b)}
    BY DEF Places
  <2>4. ret' = IF l = 0 THEN call.a
               ELSE LeastIn({i \in call.a .. call.a + call.n - l : Occurs(i, call.b)})
    BY <2>2, <2>3
  <2> QED BY <1>2, <2>4 DEF ResultExact, Occurs, Strlen
<1> QED BY <1>1, <1>2

LEMMA SearchFinds ==
    ASSUME ReadInv, ResultInv, NEW fn \in {"strstr", "strnsrt"}, Search(fn)
    PROVE  ResultInv'
<1> DEFINE l == Strlen(old, call.b)
<1>1. call.fn = fn /\ ret = Running /\ call' = call /\ old' = old /\ mem' = mem
  BY DEF Search, Loop
<1>2. /\ mem = old /\ q = call.b /\ n \in Nat /\ call.a <= p /\ p \in Int
      /\ p + n = SearchEnd
  BY <1>1, SearchRead, ReadFacts DEF ReadInv, RunInv, SearchEnd
<1>3. IF n >= l
      THEN IF Memcmp(old, p, call.b, l) = 0 THEN Return(p) ELSE Round(p + 1, q, n - 1)
      ELSE Return(NULL)
  BY <1>2 DEF Search, Fits
<1>4. /\ old \in [Addr -> 0 .. 255] /\ call.a \in Int /\ 1 <= call.a
      /\ call.b \in Int /\ 1 <= call.b /\ Size \in Int
      /\ SearchEnd \in Int /\ SearchEnd <= Size + 1
      /\ call.b + l <= Size + 1 /\ l \in Nat /\ l = StrEnd(old, call.b) - call.b
      /\ StrEnd(old, call.b) \in Int
  BY <1>1, SearchFacts, LibAssumption
<1>5. l # 0 /\ \A i \in call.a .. p - 1 : ~Occurs(i, call.b)
  <2>1. /\ StrEnd(old, call.b) # call.b
        /\ \A i \in call.a .. p - 1 : ~Occurs(i, call.b)
    BY <1>1 DEF ResultInv, SoFar
  <2> HIDE DEF l
  <2> QED BY <1>4, <2>1
<1>6. Occurs(p, call.b) <=> \A i \in 0 .. l - 1 : old[p + i] = old[call.b + i]
  BY DEF Occurs
<1> HIDE DEF l
<1>7. n >= l => (Memcmp(old, p, call.b, l) = 0 <=> Occurs(p, call.b))
  <2> SUFFICES ASSUME n >= l
               PROVE  Memcmp(old, p, call.b, l) = 0 <=> Occurs(p, call.b)
    OBVIOUS
  <2>1. \A i \in 0 .. l - 1 : p + i \in 1 .. Size /\ call.b + i \in 1 .. Size
    BY <1>2, <1>4
  <2>2. \A i \in 0 .. l - 1 : p + i \in Addr /\ call.b + i \in Addr
    BY <2>1 DEF Addr
  <2>3. /\ old \in [Addr -> 0 .. 255] /\ p \in Int /\ call.b \in Int /\ l \in Nat
    BY <1>2, <1>4
  <2>4. Memcmp(old, p, call.b, l) = 0 <=> \A i \in 0 .. l - 1 : old[p + i] = old[call.b + i]
    BY <2>2, <2>3, MemcmpIs
  <2> QED BY <1>6, <2>4
<1>8. ASSUME ret' = LeastIn(Places(call.a, SearchEnd - l)) PROVE ResultExact'
  BY <1>1, <1>2, <1>4, <1>5, <1>8, SearchExact
<1>9. CASE n >= l /\ Occurs(p, call.b)
  <2>1. ret' = p
    BY <1>3, <1>7, <1>9 DEF Return
  <2>2. p \in call.a .. SearchEnd - l
    BY <1>2, <1>4, <1>9
  <2>3. SearchEnd - l \in Int
    BY <1>4
  <2>4. LeastIn(Places(call.a, SearchEnd - l)) = p
    BY <1>4, <1>5, <1>9, <2>2, <2>3, FirstPlace
  <2>5. ret' \in Int /\ ret' > Running
    BY <1>2, <1>4, <2>1 DEF Running
  <2> QED BY <1>8, <2>1, <2>4, <2>5, Ends
<1>10. CASE n >= l /\ ~Occurs(p, call.b)
  <2>1. p' = p + 1 /\ ret' = Running
    BY <1>3, <1>7, <1>10 DEF Round
  <2>2. \A i \in call.a .. (p + 1) - 1 : ~Occurs(i, call.b)
    BY <1>2, <1>4, <1>5, <1>10
  <2>3. StrEnd(old, call.b) # call.b
    BY <1>4, <1>5
  <2>4. SoFar'
    BY <1>1, <2>1, <2>2, <2>3 DEF SoFar, Occurs, Strlen
  <2> QED BY <2>1, <2>4, GoesOn
<1>11. CASE ~(n >= l)
  <2>1. ret' = NULL
    BY <1>3, <1>11 DEF Return
  <2>2. SearchEnd - l \in Int /\ SearchEnd - l < p
    BY <1>2, <1>4, <1>11
  <2>3. LeastIn(Places(call.a, SearchEnd - l)) = NULL
    BY <1>2, <1>4, <1>5, <2>2, NoPlace
  <2>4. ret' \in Int /\ ret' > Running
    BY <2>1 DEF Running, NULL
  <2> QED BY <1>8, <2>1, <2>3, <2>4, Ends
<1> QED BY <1>9, <1>10, <1>11

\* The prologue of either: an empty string is found where the search begins.
LEMMA SearchBegins ==
    ASSUME ReadInv, call.fn \in {"strstr", "strnsrt"}, ret = Entered,
           UNCHANGED <<call, old, mem>>, NEW n2,
           IF Strlen(mem, q) = 0 THEN Return(p) ELSE Round(p, q, n2)
    PROVE  ResultInv'
<1> DEFINE l == Strlen(old, call.b)
<1>1. p = call.a /\ q = call.b /\ mem = old /\ mem' = old /\ call' = call /\ old' = old
  BY DEF ReadInv
<1>2. /\ call.a \in Int /\ 1 <= call.a /\ SearchEnd \in Int /\ call.a <= SearchEnd
      /\ l = StrEnd(old, call.b) - call.b /\ l \in Nat
      /\ call.b \in Int /\ StrEnd(old, call.b) \in Int
  BY SearchFacts
<1>3. CASE l = 0
  <2>1. ret' = call.a
    BY <1>1, <1>3 DEF Return
  <2>2. Occurs(call.a, call.b)
    BY <1>3 DEF Occurs
  <2> HIDE DEF l
  <2>3. /\ SearchEnd - l = SearchEnd /\ call.a \in call.a .. SearchEnd
        /\ \A i \in call.a .. call.a - 1 : ~Occurs(i, call.b)
    BY <1>2, <1>3
  <2>4. LeastIn(Places(call.a, SearchEnd - l)) = call.a
    BY <1>2, <2>2, <2>3, FirstPlace
  <2>5. ResultExact'
    BY <1>1, <1>2, <2>1, <2>4, SearchExact
  <2>6. ret' \in Int /\ ret' > Running
    BY <1>2, <2>1 DEF Running
  <2> QED BY <2>5, <2>6, Ends
<1>4. CASE l # 0
  <2>1. p' = call.a /\ ret' = Running
    BY <1>1, <1>4 DEF Round
  <2> HIDE DEF l
  <2>2. StrEnd(old, call.b) # call.b
    BY <1>2, <1>4
  <2>3. \A i \in call.a .. call.a - 1 : ~Occurs(i, call.b)
    BY <1>2
  <2>4. SoFar'
    BY <1>1, <2>1, <2>2, <2>3 DEF SoFar, Occurs, Strlen
  <2> QED BY <2>1, <2>4, GoesOn
<1> QED BY <1>3, <1>4

LEMMA strstrFinds == ASSUME ReadInv, ResultInv, strstr PROVE ResultInv'
<1>1. CASE Search("strstr")
  BY <1>1, SearchFinds
<1>2. CASE ~Search("strstr")
  <2>1. /\ call.fn = "strstr" /\ ret = Entered /\ UNCHANGED <<call, old, mem>>
        /\ IF Strlen(mem, q) = 0 THEN Return(p) ELSE Round(p, q, Strlen(mem, p))
    BY <1>2 DEF strstr, Begin
  <2> QED BY <2>1, SearchBegins
<1> QED BY <1>1, <1>2

LEMMA strnsrtFinds == ASSUME ReadInv, ResultInv, strnsrt PROVE ResultInv'
<1>1. CASE Search("strnsrt")
  BY <1>1, SearchFinds
<1>2. CASE ~Search("strnsrt")
  <2>1. /\ call.fn = "strnsrt" /\ ret = Entered /\ UNCHANGED <<call, old, mem>>
        /\ IF Strlen(mem, q) = 0 THEN Return(p) ELSE Round(p, q, n)
    BY <1>2 DEF strnsrt, Begin
  <2> QED BY <2>1, SearchBegins
<1> QED BY <1>1, <1>2

-----------------------------------------------------------------------------
(* Copies of strings                                                       *)

\* A byte of the source, and where it is stored.
LEMMA strcpyAt ==
    ASSUME ReadInv, call.fn = "strcpy", ret = Running
    PROVE  /\ p \in Addr /\ q \in Addr /\ At(q) = old[q] /\ old[q] \in 0 .. 255
           /\ call.a <= p /\ Untouched /\ p - call.a = q - call.b
           /\ Scanned(call.b, q) /\ StringAt(old, call.b)
<1> DEFINE l == StrEnd(old, call.b) - call.b + 1
<1>1. Scanned(call.b, q) /\ call.a <= p /\ Untouched /\ p - call.a = q - call.b
  BY DEF ReadInv, RunInv
<1>2. StringAt(old, call.b)
  BY LegalIs
<1>3. call.a + l <= Size + 1 /\ Disjoint(call.a, l, call.b, l)
  BY <1>2, LegalIs, StrLength, ReadFacts
<1>4. q \in Addr /\ q <= StrEnd(old, call.b)
  BY <1>1, <1>2, InString, ReadFacts
<1>5. StrEnd(old, call.b) \in Int
  BY <1>2, EndFound, ReadFacts
<1>6. q \notin call.a .. p - 1
  BY <1>1, <1>3, <1>4, <1>5, ReadFacts DEF Disjoint, Scanned
<1>7. At(q) = old[q] /\ old[q] \in 0 .. 255
  BY <1>4, <1>6, ByteRead, <1>1, ReadFacts DEF Untouched
<1>8. p \in 1 .. Size
  <2>1. p \in Int /\ call.a \in Int /\ call.b \in Int /\ q \in Int /\ 1 <= call.a /\ Size \in Int
    BY ReadFacts, LibAssumption DEF Addr
  <2> QED BY <1>1, <1>3, <1>4, <1>5, <2>1
<1> QED BY <1>1, <1>2, <1>4, <1>7, <1>8 DEF Addr

\* What a byte stored at p leaves in memory.
LEMMA StoredIs ==
    ASSUME ReadInv, p \in Addr, NEW x \in 0 .. 255, mem' = [mem EXCEPT ![p] = x]
    PROVE  /\ mem' \in [Addr -> 0 .. 255] /\ mem'[p] = x
           /\ \A i \in Addr : i # p => mem'[i] = mem[i]
BY ReadFacts

LEMMA strcpyFinds == ASSUME ReadInv, ResultInv, strcpy PROVE ResultInv'
<1>1. /\ call.fn = "strcpy" /\ ret = Running /\ call' = call /\ old' = old
      /\ mem' = [mem EXCEPT ![p] = At(q)]
  BY DEF strcpy, Loop
<1>2. /\ p \in Addr /\ q \in Addr /\ At(q) = old[q] /\ old[q] \in 0 .. 255
      /\ call.a <= p /\ Untouched /\ p - call.a = q - call.b
      /\ Scanned(call.b, q) /\ StringAt(old, call.b)
  BY <1>1, strcpyAt
<1>3. /\ old \in [Addr -> 0 .. 255] /\ call.a \in Int /\ call.b \in Int /\ 1 <= call.a
      /\ p \in Int /\ q \in Int /\ Size \in Int /\ p <= Size
  <2>1. /\ old \in [Addr -> 0 .. 255] /\ call.a \in Addr /\ call.b \in Int
        /\ p \in Int /\ q \in Int
    BY ReadFacts
  <2>2. call.a \in Nat /\ 1 <= call.a /\ Size \in Nat
    BY <2>1, AddrFacts
  <2>3. p <= Size
    BY <1>2, AddrFacts
  <2> QED BY <2>1, <2>2, <2>3
<1>4. /\ mem' \in [Addr -> 0 .. 255] /\ mem'[p] = old[q]
      /\ \A i \in Addr : i # p => mem'[i] = mem[i]
  BY <1>1, <1>2, StoredIs
<1>5. \A i \in call.a .. p - 1 : mem[i] = IF i - call.a < q - call.b
                                          THEN old[call.b + (i - call.a)] ELSE 0
  BY <1>1 DEF ResultInv, SoFar, Copied
<1>6. ASSUME NEW i \in call.a .. p
      PROVE  mem'[i] = old[call.b + (i - call.a)]
  <2>1. CASE i = p
    <3>1. call.b + (i - call.a) = q
      BY <1>2, <1>3, <2>1
    <3> QED BY <1>4, <2>1, <3>1
  <2>2. CASE i # p
    <3>1. i \in call.a .. p - 1 /\ i - call.a < q - call.b /\ i \in 1 .. Size
      BY <1>2, <1>3, <2>2
    <3>2. i \in Addr
      BY <3>1 DEF Addr
    <3> QED BY <1>4, <1>5, <2>2, <3>1, <3>2
  <2> QED BY <2>1, <2>2
<1>7. ASSUME NEW i \in Addr, i \notin call.a .. p
      PROVE  mem'[i] = old[i]
  <2>1. i \notin call.a .. p - 1 /\ i # p
    BY <1>2, <1>3, <1>7
  <2> QED BY <1>2, <1>4, <2>1 DEF Untouched
<1>8. CASE At(q) # 0
  <2>1. p' = p + 1 /\ q' = q + 1 /\ ret' = Running
    BY <1>8 DEF strcpy, Round
  <2>2. ASSUME NEW i \in call.a .. (p + 1) - 1
        PROVE  mem'[i] = IF i - call.a < (q + 1) - call.b
                         THEN old[call.b + (i - call.a)] ELSE 0
    <3>1. i \in call.a .. p /\ i - call.a < (q + 1) - call.b
      BY <1>2, <1>3
    <3> QED BY <1>6, <3>1
  <2>3. SoFar'
    BY <1>1, <2>1, <2>2 DEF SoFar, Copied
  <2> QED BY <2>1, <2>3, GoesOn
<1>9. CASE At(q) = 0
  <2>1. ret' = call.a
    BY <1>9 DEF strcpy, Return
  <2> DEFINE l == StrEnd(old, call.b) - call.b
             R(i) == IF i \in call.a .. call.a + l THEN old[call.b + i - call.a] ELSE old[i]
  <2>2. q = StrEnd(old, call.b)
    BY <1>2, <1>3, <1>9, EndReached, ReadFacts
  <2>3. call.a + l = p
    BY <1>2, <1>3, <2>2
  <2> HIDE DEF l
  <2>4. ASSUME NEW i \in Addr PROVE mem'[i] = R(i)
    <3>1. CASE i \in call.a .. p
      <4>1. call.b + (i - call.a) = call.b + i - call.a
        BY <1>3, <3>1
      <4> QED BY <1>6, <2>3, <3>1, <4>1
    <3>2. CASE i \notin call.a .. p
      BY <1>7, <2>3, <3>2
    <3> QED BY <3>1, <3>2
  <2>5. mem' = [i \in Addr |-> R(i)]
    <3> HIDE DEF R
    <3> QED BY <1>4, <2>4
  <2>6. ResultExact'
    BY <1>1, <2>1, <2>5 DEF ResultExact, l
  <2>7. ret' \in Int /\ ret' > Running
    BY <1>3, <2>1 DEF Running
  <2> QED BY <2>6, <2>7, Ends
<1> QED BY <1>8, <1>9

LEMMA strncpyAt ==
    ASSUME ReadInv, call.fn = "strncpy", ret = Running
    PROVE  /\ Left(p, call.a) /\ q <= call.b + (call.n - n) /\ Untouched
           /\ call.a + call.n <= Size + 1
           /\ call.b + call.n <= Size + 1 \/ StringAt(old, call.b)
           /\ Scanned(call.b, q)
           /\ n # 0 => p \in Addr /\ q \in Addr /\ At(q) = old[q] /\ old[q] \in 0 .. 255
<1>1. /\ Scanned(call.b, q) /\ call.a <= p /\ Untouched
      /\ Left(p, call.a) /\ q <= call.b + (call.n - n)
      /\ call.a + call.n <= Size + 1
      /\ call.b + call.n <= Size + 1 \/ StringAt(old, call.b)
  BY LegalIs DEF ReadInv, RunInv
<1>2. /\ p \in Int /\ q \in Int /\ call.a \in Int /\ call.b \in Int /\ call.n \in Nat
      /\ 1 <= call.a /\ 1 <= call.b /\ Size \in Int
  BY ReadFacts, LibAssumption DEF Addr
<1>3. /\ n \in 0 .. call.n /\ p = call.a + (call.n - n) /\ call.b <= q
  BY <1>1 DEF Left, Scanned
<1>4. n # 0 => p \in 1 .. Size
  BY <1>1, <1>2, <1>3
<1>5. n # 0 => q \in Addr /\ q \notin call.a .. p - 1
  BY SourceRead
<1>6. n # 0 => p \in Addr
  BY <1>4 DEF Addr
<1>7. n # 0 => At(q) = old[q] /\ old[q] \in 0 .. 255
  BY <1>1, <1>5, <1>6, ByteRead, ReadFacts DEF Untouched
<1> QED BY <1>1, <1>5, <1>6, <1>7

LEMMA strncpyFinds == ASSUME ReadInv, ResultInv, strncpy PROVE ResultInv'
<1>1. call.fn = "strncpy" /\ ret = Running /\ call' = call /\ old' = old
  BY DEF strncpy, Loop
<1>2. /\ Left(p, call.a) /\ q <= call.b + (call.n - n) /\ Untouched
      /\ call.a + call.n <= Size + 1
      /\ call.b + call.n <= Size + 1 \/ StringAt(old, call.b)
      /\ Scanned(call.b, q)
      /\ n # 0 => p \in Addr /\ q \in Addr /\ At(q) = old[q] /\ old[q] \in 0 .. 255
  BY <1>1, strncpyAt
<1>3. /\ old \in [Addr -> 0 .. 255] /\ mem \in [Addr -> 0 .. 255]
      /\ call.a \in Int /\ call.b \in Int /\ call.n \in Nat
      /\ 1 <= call.a /\ 1 <= call.b /\ call.a \in Addr /\ call.b \in Addr
      /\ p \in Int /\ q \in Int /\ Size \in Int
  <2>1. /\ old \in [Addr -> 0 .. 255] /\ mem \in [Addr -> 0 .. 255]
        /\ call.a \in Addr /\ call.b \in Addr /\ call.n \in Nat
        /\ p \in Int /\ q \in Int
    BY ReadFacts
  <2> QED BY <2>1, AddrFacts
<1>4. n \in 0 .. call.n /\ p = call.a + (call.n - n) /\ call.b <= q
  BY <1>2 DEF Left, Scanned
<1>5. \A i \in call.a .. p - 1 : mem[i] = IF i - call.a < q - call.b
                                          THEN old[call.b + (i - call.a)] ELSE 0
  BY <1>1 DEF ResultInv, SoFar, Copied
<1>6. q = call.b + (call.n - n) \/ old[q] = 0
  BY <1>1 DEF ResultInv, SoFar
<1>7. CASE n # 0
  <2>1. /\ mem' = [mem EXCEPT ![p] = old[q]]
        /\ p' = p + 1 /\ q' = (IF old[q] # 0 THEN q + 1 ELSE q) /\ n' = n - 1
        /\ ret' = Running
    BY <1>2, <1>7 DEF strncpy, Round
  <2>2. /\ mem' \in [Addr -> 0 .. 255] /\ mem'[p] = old[q]
        /\ \A i \in Addr : i # p => mem'[i] = mem[i]
    BY <1>2, <1>7, <2>1, StoredIs
  <2>3. ASSUME NEW i \in call.a .. (p + 1) - 1
        PROVE  mem'[i] = IF i - call.a < q' - call.b
                         THEN old[call.b + (i - call.a)] ELSE 0
    <3>1. CASE i = p
      <4>1. CASE old[q] # 0
        <5>1. i - call.a < q' - call.b /\ call.b + (i - call.a) = q
          BY <1>3, <1>4, <1>6, <2>1, <3>1, <4>1
        <5> QED BY <2>2, <3>1, <5>1
      <4>2. CASE old[q] = 0
        <5>1. ~(i - call.a < q' - call.b)
          BY <1>2, <1>3, <1>4, <2>1, <3>1, <4>2
        <5> QED BY <2>2, <3>1, <4>2, <5>1
      <4> QED BY <4>1, <4>2
    <3>2. CASE i # p
      <4>1. i \in call.a .. p - 1 /\ i \in 1 .. Size
        BY <1>2, <1>3, <1>4, <3>2
      <4>2. mem'[i] = mem[i]
        BY <2>2, <3>2, <4>1 DEF Addr
      <4>3. i - call.a < q' - call.b <=> i - call.a < q - call.b
        BY <1>2, <1>3, <1>4, <1>6, <2>1, <4>1
      <4> QED BY <1>5, <4>1, <4>2, <4>3
    <3> QED BY <3>1, <3>2
  <2>4. q' = call.b + (call.n - n') \/ old[q'] = 0
    BY <1>3, <1>4, <1>6, <2>1
  <2>5. Copied'
    BY <1>1, <2>1, <2>3 DEF Copied
  <2>6. SoFar'
    BY <1>1, <2>4, <2>5 DEF SoFar
  <2> QED BY <2>1, <2>6, GoesOn
<1>8. CASE n = 0
  <2>1. ret' = call.a /\ mem' = mem
    BY <1>8 DEF strncpy, Return
  <2> DEFINE w == Prefix(old, call.b, call.n)
             sb == call.b + call.n - 1
             R(i) == IF i \notin call.a .. call.a + call.n - 1 THEN old[i]
                     ELSE IF i - call.a < Len(w) THEN w[i - call.a + 1] ELSE 0
  <2>2. PICK e \in Int : TextEnds(call.b, e, sb) /\ w = SubSeq(old, call.b, e)
    BY <1>2, <1>3, PrefixIs
  <2>3. e \in call.b - 1 .. Size
    BY <2>2 DEF TextEnds
  <2>4. p = call.a + call.n /\ sb \in Int /\ q <= sb + 1 /\ (q = sb + 1 \/ old[q] = 0)
    BY <1>2, <1>3, <1>4, <1>6, <1>8
  <2> HIDE DEF w, sb
  <2>5. q = e + 1
    <3>1. /\ q # sb + 1 => q \in Addr
          /\ q = sb + 1 \/ (q \in Addr /\ old[q] = 0) => q = e + 1
      <4>1. TextEnds(call.b, e, sb) /\ Scanned(call.b, q) /\ q <= sb + 1
        BY <1>2, <2>2, <2>4
      <4>2. /\ old \in [Addr -> 0 .. 255] /\ call.b \in Addr /\ q \in Int
            /\ sb \in Int /\ e \in Int
        BY <1>3, <2>2, <2>4
      <4> QED BY <4>1, <4>2, TextReached
    <3> QED BY <2>4, <3>1
  <2>6. /\ Len(w) = q - call.b
        /\ \A j \in 1 .. q - call.b : w[j] = old[call.b + j - 1]
    <3>1. /\ Len(w) = e - call.b + 1
          /\ \A j \in 1 .. e - call.b + 1 : w[j] = old[call.b + j - 1]
      BY <1>3, <2>2, <2>3, PartIs
    <3>2. e - call.b + 1 = q - call.b
      BY <1>3, <2>5
    <3> QED BY <3>1, <3>2
  <2>7. ASSUME NEW i \in Addr PROVE mem[i] = R(i)
    <3>0. i \in Int
      BY LibAssumption DEF Addr
    <3>1. CASE i \in call.a .. p - 1
      <4>1. i \in call.a .. call.a + call.n - 1
        BY <1>3, <2>4, <3>1
      <4>2. i - call.a < q - call.b =>
                /\ i - call.a + 1 \in 1 .. q - call.b
                /\ call.b + (i - call.a + 1) - 1 = call.b + (i - call.a)
        BY <1>3, <1>4, <3>0, <3>1
      <4>3. i - call.a < q - call.b => w[i - call.a + 1] = old[call.b + (i - call.a)]
        BY <2>6, <4>2
      <4> QED BY <1>5, <2>6, <3>1, <4>1, <4>3
    <3>2. CASE i \notin call.a .. p - 1
      <4>1. i \notin call.a .. call.a + call.n - 1
        BY <1>3, <2>4, <3>2
      <4> QED BY <1>2, <3>2, <4>1 DEF Untouched
    <3> QED BY <3>1, <3>2
  <2>8. mem = [i \in Addr |-> R(i)]
    <3> HIDE DEF R
    <3> QED BY <1>3, <2>7
  <2>9. ResultExact'
    BY <1>1, <2>1, <2>8 DEF ResultExact, w
  <2>10. ret' \in Int /\ ret' > Running
    BY <1>3, <2>1 DEF Running
  <2> QED BY <2>9, <2>10, Ends
<1> QED BY <1>7, <1>8

-----------------------------------------------------------------------------
(* Numbers                                                                 *)

LEMMA Quotient ==
    ASSUME NEW x \in Nat, NEW m \in Nat \ {0}
    PROVE  x = m * (x \div m) + (x % m) /\ x \div m \in Nat /\ x % m \in 0 .. m - 1
OBVIOUS

LEMMA RemainderIs ==
    ASSUME NEW m \in Nat \ {0}, NEW k \in Nat, NEW r \in 0 .. m - 1
    PROVE  (m * k + r) % m = r
OBVIOUS

LEMMA RemainderOfSum ==
    ASSUME NEW m \in Nat \ {0}, NEW k \in Nat, NEW r \in Nat
    PROVE  (m * k + r) % m = r % m
<1> DEFINE j == r \div m
           t == r % m
<1>1. r = m * j + t /\ j \in Nat /\ t \in 0 .. m - 1
  BY Quotient
<1> HIDE DEF j, t
<1>2. m * k + (m * j + t) = m * (k + j) + t
  BY <1>1
<1>3. k + j \in Nat
  BY <1>1
<1>4. (m * (k + j) + t) % m = t
  BY <1>1, <1>3, RemainderIs
<1> QED BY <1>1, <1>2, <1>4 DEF t

\* Digits may be added to the remainder instead of the number.
LEMMA RemainderWithDigit ==
    ASSUME NEW m \in Nat \ {0}, NEW x \in Nat, NEW b \in Nat, NEW d \in Nat
    PROVE  ((x % m) * b + d) % m = (x * b + d) % m
<1> DEFINE k == x \div m
           r == x % m
<1>1. x = m * k + r /\ k \in Nat /\ r \in 0 .. m - 1
  BY Quotient
<1> HIDE DEF k, r
<1>2. r \in Nat
  BY <1>1
<1>3. x * b + d = m * (k * b) + (r * b + d)
  BY <1>1, <1>2
<1>4. k * b \in Nat /\ r * b \in Nat
  BY <1>1, <1>2, Product
<1>5. r * b + d \in Nat
  BY <1>4
<1>6. (m * (k * b) + (r * b + d)) % m = (r * b + d) % m
  BY <1>4, <1>5, RemainderOfSum
<1> QED BY <1>3, <1>6 DEF r

\* The recursion that weighs the digits of o from one address to another.
Weighs(o, r, from, e, w) ==
    w = [i \in from .. e |-> IF i = from THEN 0 ELSE w[i - 1] * r + Digit(o[i - 1])]

WeighOf(o, r, from, to) == (CHOOSE w : Weighs(o, r, from, to, w))[to]

LEMMA WeighIs == \A from, to : Weigh(from, to) = WeighOf(old, Radix, from, to)
BY DEF Weigh, WeighOf, Weighs

LEMMA WeighIsThen == \A from, to : Weigh(from, to)' = WeighOf(old', Radix', from, to)
BY DEF Weigh, WeighOf, Weighs

LEMMA WeighsExists ==
    ASSUME NEW o, NEW r, NEW from \in Nat, NEW to \in Nat, from <= to
    PROVE  \E w : Weighs(o, r, from, to, w)
<1> DEFINE Step(x, k) == x * r + Digit(o[k - 1])
           Bad == {e \in from .. to : ~ \E w : Weighs(o, r, from, e, w)}
<1>1. \A e, w : Weighs(o, r, from, e, w) <=>
          w = [k \in from .. e |-> IF k = from THEN 0 ELSE Step(w[k - 1], k)]
  BY DEF Weighs
<1> HIDE DEF Step
<1>2. SUFFICES ASSUME Bad # {} PROVE FALSE
  OBVIOUS
<1>3. Bad \subseteq Nat
  OBVIOUS
<1>4. PICK e \in Bad : \A f \in Bad : e <= f
  BY <1>2, <1>3, LeastNumber
<1>5. CASE e = from
  <2> DEFINE w == [k \in from .. from |-> 0]
  <2>1. \A k \in from .. from : k = from
    OBVIOUS
  <2>2. w = [k \in from .. from |-> IF k = from THEN 0 ELSE Step(w[k - 1], k)]
    BY <2>1
  <2> QED BY <1>1, <1>4, <1>5, <2>2
<1>6. CASE e # from
  <2>1. e - 1 \in from .. to /\ ~(e <= e - 1) /\ e \in Int
    BY <1>4, <1>6
  <2>2. PICK w : Weighs(o, r, from, e - 1, w)
    BY <1>4, <2>1
  <2> DEFINE m == [k \in from .. e |-> IF k = e THEN Step(w[k - 1], k) ELSE w[k]]
  <2>3. w = [k \in from .. e - 1 |-> IF k = from THEN 0 ELSE Step(w[k - 1], k)]
    BY <1>1, <2>2
  <2>4. ASSUME NEW k \in from .. e
        PROVE  m[k] = IF k = from THEN 0 ELSE Step(m[k - 1], k)
    <3>1. CASE k = from
      <4>1. k # e /\ k \in from .. e - 1
        BY <1>6, <2>1, <3>1
      <4>2. w[k] = 0
        BY <2>3, <3>1, <4>1
      <4> QED BY <3>1, <4>1, <4>2
    <3>2. CASE k = e
      <4>1. k - 1 \in from .. e /\ k - 1 # e /\ k # from
        BY <1>6, <2>1, <3>2
      <4>2. m[k - 1] = w[k - 1]
        BY <4>1
      <4> QED BY <3>2, <4>1, <4>2
    <3>3. CASE k # from /\ k # e
      <4>1. k - 1 \in from .. e /\ k - 1 # e /\ k \in from .. e - 1
        BY <2>1, <3>3
      <4>2. m[k - 1] = w[k - 1] /\ m[k] = w[k]
        BY <3>3, <4>1
      <4>3. w[k] = Step(w[k - 1], k)
        BY <2>3, <3>3, <4>1
      <4> QED BY <3>3, <4>2, <4>3
    <3> QED BY <3>1, <3>2, <3>3
  <2>5. m = [k \in from .. e |-> m[k]]
    OBVIOUS
  <2> HIDE DEF m
  <2>6. m = [k \in from .. e |-> IF k = from THEN 0 ELSE Step(m[k - 1], k)]
    BY <2>4, <2>5
  <2> QED BY <1>1, <1>4, <2>6
<1> QED BY <1>5, <1>6

LEMMA WeighsAgree ==
    ASSUME NEW o, NEW r, NEW from \in Nat, NEW a \in Nat, NEW b \in Nat,
           NEW v, Weighs(o, r, from, a, v), NEW w, Weighs(o, r, from, b, w),
           NEW i \in Nat, from <= i, i <= a, i <= b
    PROVE  v[i] = w[i]
<1> DEFINE Step(x, k) == x * r + Digit(o[k - 1])
           Bad == {k \in from .. i : v[k] # w[k]}
<1>1. /\ v = [k \in from .. a |-> IF k = from THEN 0 ELSE Step(v[k - 1], k)]
      /\ w = [k \in from .. b |-> IF k = from THEN 0 ELSE Step(w[k - 1], k)]
  BY DEF Weighs
<1> HIDE DEF Step
<1>2. SUFFICES ASSUME Bad # {} PROVE FALSE
  OBVIOUS
<1>3. Bad \subseteq Nat
  OBVIOUS
<1>4. PICK e \in Bad : \A f \in Bad : e <= f
  BY <1>2, <1>3, LeastNumber
<1>5. e \in from .. i /\ v[e] # w[e]
  BY <1>4
<1>6. e \in from .. a /\ e \in from .. b
  BY <1>5
<1>7. CASE e = from
  <2>1. v[e] = 0 /\ w[e] = 0
    BY <1>1, <1>6, <1>7
  <2> QED BY <1>5, <2>1
<1>8. CASE e # from
  <2>1. e - 1 \in from .. i /\ ~(e <= e - 1)
    BY <1>5, <1>8
  <2>2. v[e - 1] = w[e - 1]
    BY <1>4, <2>1
  <2>3. v[e] = Step(v[e - 1], e) /\ w[e] = Step(w[e - 1], e)
    BY <1>1, <1>6, <1>8
  <2> QED BY <1>5, <2>2, <2>3
<1> QED BY <1>7, <1>8

\* No digits weigh 0; one more, the others times the base and itself.
LEMMA WeighBegins ==
    ASSUME NEW o, NEW r, NEW from \in Nat
    PROVE  WeighOf(o, r, from, from) = 0
<1> DEFINE w == CHOOSE f : Weighs(o, r, from, from, f)
<1>1. Weighs(o, r, from, from, w)
  <2>1. from <= from
    OBVIOUS
  <2>2. \E f : Weighs(o, r, from, from, f)
    BY <2>1, WeighsExists
  <2> QED BY <2>2
<1>2. WeighOf(o, r, from, from) = w[from]
  BY DEF WeighOf
<1> HIDE DEF w
<1>3. w[from] = 0
  BY <1>1 DEF Weighs
<1> QED BY <1>2, <1>3

LEMMA WeighOneMore ==
    ASSUME NEW o, NEW r, NEW from \in Nat, NEW to \in Nat, from <= to
    PROVE  WeighOf(o, r, from, to + 1) = WeighOf(o, r, from, to) * r + Digit(o[to])
<1> DEFINE v == CHOOSE f : Weighs(o, r, from, to, f)
           w == CHOOSE f : Weighs(o, r, from, to + 1, f)
<1>1. to + 1 \in Nat /\ from <= to + 1 /\ (to + 1) - 1 = to /\ to + 1 # from
      /\ to + 1 \in from .. to + 1 /\ to <= to + 1
  OBVIOUS
<1>2. Weighs(o, r, from, to, v) /\ Weighs(o, r, from, to + 1, w)
  BY <1>1, WeighsExists
<1>3. WeighOf(o, r, from, to) = v[to] /\ WeighOf(o, r, from, to + 1) = w[to + 1]
  BY DEF WeighOf
<1> HIDE DEF v, w
<1>4. v[to] = w[to]
  BY <1>1, <1>2, WeighsAgree
<1>5. w[to + 1] = w[(to + 1) - 1] * r + Digit(o[(to + 1) - 1])
  BY <1>1, <1>2 DEF Weighs
<1> QED BY <1>1, <1>3, <1>4, <1>5

-----------------------------------------------------------------------------
(* What strtoul converts                                                   *)

NoDigit == {i \in Start .. Size : ~IsDigit(old[i])}

LEMMA NumberKept ==
    ASSUME UNCHANGED <<call, old>>
    PROVE  /\ Radix' = Radix /\ Skip' = Skip /\ Start' = Start /\ NumEnd' = NumEnd
           /\ \A from, to : Weigh(from, to)' = WeighOf(old, Radix, from, to)
<1>1. Radix' = Radix
  BY DEF Radix
<1>2. Skip' = Skip
  BY <1>1 DEF Skip
<1>3. \A c : IsDigit(c)' = IsDigit(c)
  BY <1>1 DEF IsDigit
<1>4. NumEnd' = NumEnd
  BY <1>2, <1>3 DEF NumEnd
<1> QED BY <1>1, <1>2, <1>4, WeighIsThen DEF Start

LEMMA NumEndIs ==
    ASSUME Start \in Nat, NEW t \in Start .. Size, Size \in Nat, ~IsDigit(old[t]),
           \A i \in Start .. t - 1 : IsDigit(old[i])
    PROVE  NumEnd = t
<1>1. NumEnd = LeastIn(NoDigit)
  BY DEF NumEnd, NoDigit, Start
<1>2. NoDigit \subseteq Int /\ t \in NoDigit
  BY DEF NoDigit
<1>3. ASSUME NEW j \in NoDigit PROVE t <= j
  <2>1. j \in Start .. Size /\ j \notin Start .. t - 1
    BY DEF NoDigit
  <2> QED BY <2>1
<1> QED BY <1>1, <1>2, <1>3, LeastIs

\* A digit that is the base ends the number before it was passed over.
LEMMA NumEndIsBase ==
    ASSUME Start \in Nat, NEW t \in Start .. Size, Size \in Nat, Radix \in Nat,
           \A i \in Start .. t - 1 : isxdigit(old[i]) /\ Digit(old[i]) \in Nat
                                         /\ Digit(old[i]) <= Radix,
           \E i \in Start .. t - 1 : Digit(old[i]) = Radix
    PROVE  isxdigit(old[NumEnd]) /\ Digit(old[NumEnd]) = Radix
<1> DEFINE T == {i \in Start .. t - 1 : Digit(old[i]) = Radix}
<1>1. T \subseteq Nat /\ T # {}
  OBVIOUS
<1>2. PICK x \in T : \A y \in T : x <= y
  BY <1>1, LeastNumber
<1>3. x \in Start .. t - 1 /\ x \in Start .. Size /\ isxdigit(old[x]) /\ Digit(old[x]) = Radix
  BY <1>2
<1>4. ~IsDigit(old[x])
  BY <1>3 DEF IsDigit
<1>5. ASSUME NEW i \in Start .. x - 1 PROVE IsDigit(old[i])
  <2>1. i \in Start .. t - 1 /\ ~(x <= i)
    BY <1>3
  <2>2. Digit(old[i]) # Radix
    BY <1>2, <2>1
  <2>3. isxdigit(old[i]) /\ Digit(old[i]) \in Nat /\ Digit(old[i]) <= Radix
    BY <2>1
  <2> QED BY <2>2, <2>3 DEF IsDigit
<1>6. NumEnd = x
  BY <1>3, <1>4, <1>5, NumEndIs
<1> QED BY <1>3, <1>6

LEMMA XIs ==
    ASSUME NEW c \in 0 .. 255
    PROVE  tolower(c) = 120 <=> c \in {88, 120}
BY DEF tolower, isupper

LEMMA strtoulStarts ==
    ASSUME ReadInv, ResultInv, Begin("strtoul"),
           LET hex == Radix = 16 /\ At(p) = 48
           IN  Round(IF hex /\ tolower(At(p + 1)) = 120 THEN p + 2 ELSE p, q, 0)
    PROVE  ResultInv'
<1>1. /\ call.fn = "strtoul" /\ ret = Entered /\ UNCHANGED <<call, old, mem, endp>>
      /\ p = call.a /\ mem = old /\ endp = NULL /\ p \in Addr /\ p \in Nat
  BY ReadFacts DEF Begin, ReadInv, ResultInv
<1>2. StringAt(old, call.a) /\ Scanned(call.a, p)
  BY <1>1, LegalIs, ReadFacts DEF Scanned
<1>3. At(p) = old[p] /\ (old[p] # 0 => p + 1 \in Addr)
  BY <1>1, <1>2, InString, ByteRead, ReadFacts
<1>4. At(p) = 48 => At(p + 1) = old[p + 1] /\ At(p + 1) \in 0 .. 255
  BY <1>1, <1>3, ByteRead
<1>5. At(p) = 48 => (tolower(At(p + 1)) = 120 <=> old[p + 1] \in {88, 120})
  BY <1>4, XIs
<1>6. p' = Start /\ n' = 0 /\ ret' = Running /\ Start \in Nat
  BY <1>1, <1>3, <1>5 DEF Round, Start, Skip
<1>7. Start' = Start /\ Weigh(Start, Start)' = WeighOf(old, Radix, Start, Start)
  BY <1>1, NumberKept
<1>8. Weigh(Start, p)' = 0
  <2>1. Weigh(Start, p)' = WeighOf(old, Radix, Start, Start)
    BY <1>1, <1>6, NumberKept
  <2> QED BY <1>6, <2>1, WeighBegins
<1>9. 0 % ULong = 0
  BY LibAssumption
<1>10. Weighed'
  <2>1. Start' <= p' /\ \A i \in Start' .. p' - 1 : FALSE
    BY <1>6, <1>7
  <2> QED BY <1>6, <1>8, <1>9, <2>1 DEF Weighed
<1>11. SoFar'
  BY <1>1, <1>10 DEF SoFar
<1> QED BY <1>6, <1>11, GoesOn

LEMMA strtoulFinds == ASSUME ReadInv, ResultInv, strtoul PROVE ResultInv'
<1>1. CASE Loop("strtoul")
  <2>1. /\ call.fn = "strtoul" /\ ret = Running /\ UNCHANGED <<call, old, mem>>
        /\ IF isxdigit(At(p)) /\ Digit(At(p)) <= Radix
           THEN /\ Round(p + 1, q, (n * Radix + Digit(At(p))) % ULong)
                /\ UNCHANGED endp
           ELSE Return(n) /\ endp' = IF call.n # 0 THEN p ELSE endp
    BY <1>1 DEF strtoul, Loop, Begin, Entered, Running
  <2>2. mem = old /\ p \in Addr /\ At(p) = old[p] /\ old[p] \in 0 .. 255
    BY <2>1, StringRead, ByteRead, ReadFacts
  <2>3. endp = NULL /\ Weighed
    BY <2>1 DEF ResultInv, SoFar
  <2>4. /\ Start \in Nat /\ Radix \in Nat /\ p \in Nat /\ n \in Nat /\ Size \in Nat
        /\ ULong \in Nat \ {0} /\ p \in Start .. Size
    <3>1. Start \in Nat /\ Radix \in Nat
      BY ReadFacts DEF Start, Skip, Radix
    <3>2. p \in Nat /\ p <= Size /\ Size \in Nat /\ ULong \in Nat \ {0}
      BY <2>2, LibAssumption DEF Addr
    <3>3. n \in Nat
      BY <2>1 DEF ReadInv, RunInv
    <3>4. Start <= p
      BY <2>3 DEF Weighed
    <3> QED BY <3>1, <3>2, <3>3, <3>4
  <2>5. ASSUME NEW i \in Start .. p - 1
        PROVE  /\ isxdigit(old[i]) /\ Digit(old[i]) <= Radix /\ Digit(old[i]) \in Nat
    <3>1. isxdigit(old[i]) /\ Digit(old[i]) <= Radix
      BY <2>3 DEF Weighed
    <3>2. old[i] \in 0 .. 255
      <4>1. call.a \in Nat /\ 1 <= call.a /\ Skip \in {0, 2}
        BY ReadFacts, LibAssumption DEF Addr, Skip
      <4>2. i \in 1 .. Size
        BY <2>4, <4>1 DEF Start
      <4> QED BY <4>2, ReadFacts DEF Addr
    <3> QED BY <3>1, <3>2, DigitIsNat
  <2>6. \/ \E i \in Start .. p - 1 : Digit(old[i]) = Radix
        \/ /\ WeighOf(old, Radix, Start, p) \in Nat
           /\ n = WeighOf(old, Radix, Start, p) % ULong
    BY <2>3, WeighIs DEF Weighed
  <2>7. CASE isxdigit(At(p)) /\ Digit(At(p)) <= Radix
    <3>1. /\ p' = p + 1 /\ ret' = Running /\ endp' = NULL
          /\ n' = (n * Radix + Digit(old[p])) % ULong
      BY <2>1, <2>2, <2>3, <2>7 DEF Round
    <3>2. Digit(old[p]) \in Nat /\ Digit(old[p]) <= Radix /\ isxdigit(old[p])
      BY <2>2, <2>7, DigitIsNat
    <3>3. Start' = Start /\ Radix' = Radix
          /\ Weigh(Start, p)' = WeighOf(old, Radix, Start, p + 1)
      BY <2>1, <3>1, NumberKept
    <3>4. WeighOf(old, Radix, Start, p + 1)
              = WeighOf(old, Radix, Start, p) * Radix + Digit(old[p])
      BY <2>4, WeighOneMore
    <3>5. ASSUME NEW i \in Start .. (p + 1) - 1
          PROVE  isxdigit(old[i]) /\ Digit(old[i]) <= Radix
      <4>1. i = p \/ i \in Start .. p - 1
        BY <2>4
      <4> QED BY <2>5, <3>2, <4>1
    <3>6. \/ \E i \in Start .. (p + 1) - 1 : Digit(old[i]) = Radix
          \/ /\ WeighOf(old, Radix, Start, p + 1) \in Nat
             /\ n' = WeighOf(old, Radix, Start, p + 1) % ULong
      <4>1. CASE \E i \in Start .. p - 1 : Digit(old[i]) = Radix
        <5>1. PICK i \in Start .. p - 1 : Digit(old[i]) = Radix
          BY <4>1
        <5>2. i \in Start .. (p + 1) - 1
          BY <2>4
        <5> QED BY <5>1, <5>2
      <4>2. CASE /\ WeighOf(old, Radix, Start, p) \in Nat
                 /\ n = WeighOf(old, Radix, Start, p) % ULong
        <5> DEFINE x == WeighOf(old, Radix, Start, p)
                   d == Digit(old[p])
        <5>1. x \in Nat /\ n = x % ULong /\ d \in Nat
          BY <3>2, <4>2
        <5>2. n' = (n * Radix + d) % ULong /\ WeighOf(old, Radix, Start, p + 1) = x * Radix + d
          BY <3>1, <3>4
        <5> HIDE DEF x, d
        <5>3. ((x % ULong) * Radix + d) % ULong = (x * Radix + d) % ULong
          <6>1. ULong \in Nat \ {0} /\ x \in Nat /\ Radix \in Nat /\ d \in Nat
            BY <2>4, <5>1
          <6> QED BY <6>1, RemainderWithDigit, ZenonT(60)
        <5>4. x * Radix \in Nat
          BY <2>4, <5>1, Product
        <5> QED BY <5>1, <5>2, <5>3, <5>4
      <4> QED BY <2>6, <4>1, <4>2
    <3>7. Weighed'
      <4>1. Start <= p + 1
        BY <2>4
      <4> QED BY <2>1, <3>1, <3>3, <3>5, <3>6, <4>1 DEF Weighed
    <3>8. SoFar'
      BY <2>1, <3>1, <3>7 DEF SoFar
    <3> QED BY <3>1, <3>8, GoesOn
  <2>8. CASE ~(isxdigit(At(p)) /\ Digit(At(p)) <= Radix)
    <3>1. ret' = n /\ endp' = IF call.n # 0 THEN p ELSE NULL
      BY <2>1, <2>3, <2>8 DEF Return
    <3>2. /\ NumEnd' = NumEnd /\ Start' = Start /\ Radix' = Radix
          /\ Weigh(Start, NumEnd)' = WeighOf(old, Radix, Start, NumEnd)
      BY <2>1, NumberKept
    <3>3. Number'
      <4>1. CASE \E i \in Start .. p - 1 : Digit(old[i]) = Radix
        <5>1. isxdigit(old[NumEnd]) /\ Digit(old[NumEnd]) = Radix
          BY <2>4, <2>5, <4>1, NumEndIsBase
        <5> QED BY <2>1, <3>2, <5>1 DEF Number
      <4>2. CASE /\ ~\E i \in Start .. p - 1 : Digit(old[i]) = Radix
                 /\ n = WeighOf(old, Radix, Start, p) % ULong
        <5>1. ASSUME NEW i \in Start .. p - 1 PROVE IsDigit(old[i])
          <6>1. /\ isxdigit(old[i]) /\ Digit(old[i]) <= Radix /\ Digit(old[i]) \in Nat
                /\ Digit(old[i]) # Radix
            BY <2>5, <4>2
          <6> QED BY <2>4, <6>1 DEF IsDigit
        <5>2. ~IsDigit(old[p])
          <6>1. ASSUME isxdigit(old[p]) PROVE ~(Digit(old[p]) < Radix)
            <7>1. Digit(old[p]) \in Nat /\ ~(Digit(old[p]) <= Radix)
              BY <2>2, <2>8, <6>1, DigitIsNat
            <7> QED BY <2>4, <7>1
          <6> QED BY <6>1 DEF IsDigit
        <5>3. NumEnd = p
          BY <2>4, <5>1, <5>2, NumEndIs
        <5>4. ret' = Weigh(Start, NumEnd)' % ULong
          BY <3>1, <3>2, <4>2, <5>3
        <5>5. endp' = IF call.n = 0 THEN NULL ELSE NumEnd
          BY <3>1, <5>3
        <5> QED BY <2>1, <3>2, <5>4, <5>5 DEF Number, Start
      <4> QED BY <2>6, <4>1, <4>2
    <3>4. ResultExact'
      BY <2>1, <2>2, <3>3 DEF ResultExact
    <3>5. ret' \in Int /\ ret' > Running
      BY <2>4, <3>1 DEF Running
    <3> QED BY <3>4, <3>5, Ends
  <2> QED BY <2>7, <2>8
<1>2. CASE ~Loop("strtoul")
  BY <1>2, strtoulStarts DEF strtoul
<1> QED BY <1>1, <1>2

-----------------------------------------------------------------------------
(* Every step                                                              *)

LEMMA EnterFinds == ASSUME ReadInv, ResultInv, Enter PROVE ResultInv'
<1>1. /\ call.fn \in WithoutPrologue /\ ret = Entered
      /\ UNCHANGED <<call, old, mem, endp>>
      /\ p' = p /\ q' = q /\ n' = n /\ ret' = Running
      /\ p = call.a /\ q = call.b /\ n = call.n /\ mem = old
  BY DEF Enter, Begin, Round, ReadInv
<1>2. call.fn \notin {"strstr", "strnsrt", "strrchr", "strtoul"}
  BY <1>1 DEF WithoutPrologue
<1>3. call.a \in Int /\ call.b \in Int /\ call.n \in Int
  BY ReadFacts
<1>4. \A c : NotMet(old, call.a, call.a, c)
  BY <1>3 DEF NotMet
<1>5. Alike'
  BY <1>1, <1>3 DEF Alike
<1>6. Copied'
  BY <1>1, <1>3 DEF Copied
<1>7. q = call.b + (call.n - n)
  BY <1>1, <1>3
<1>8. SoFar'
  <2>1. NotMet(old, call.a, p, unsigned_char(call.c))'
    BY <1>1, <1>4 DEF NotMet, unsigned_char
  <2> QED BY <1>1, <1>2, <1>5, <1>6, <1>7, <2>1 DEF SoFar
<1> QED BY <1>1, <1>8, GoesOn

\* What the moves do is what MoveInv says.
LEMMA MovesElsewhere ==
    ASSUME call.fn \in Moves, call' = call, ret' # Entered
    PROVE  ResultInv'
BY DEF ResultInv, SoFar, ResultExact, Moves

LEMMA MovesFind ==
    ASSUME ReadInv, memcpy \/ memmove \/ memset
    PROVE  ResultInv'
<1>1. call.a \in Nat
  BY ReadFacts
<1>2. CASE memcpy
  BY <1>1, <1>2, MovesElsewhere DEF memcpy, Loop, Moves, Round, Return, Entered, Running
<1>3. CASE memset
  BY <1>1, <1>3, MovesElsewhere DEF memset, Loop, Moves, Round, Return, Entered, Running
<1>4. CASE memmove
  BY <1>1, <1>4, MovesElsewhere
     DEF memmove, Begin, Loop, Moves, Round, Return, Entered, Running
<1> QED BY <1>2, <1>3, <1>4

LEMMA NothingFound == ASSUME ResultInv, UNCHANGED vars PROVE ResultInv'
<1>1. /\ call' = call /\ mem' = mem /\ old' = old /\ p' = p /\ q' = q /\ n' = n
      /\ ret' = ret /\ endp' = endp
  BY DEF vars
<1>2. /\ Radix' = Radix /\ Start' = Start /\ NumEnd' = NumEnd
      /\ \A from, to : Weigh(from, to)' = Weigh(from, to)
  BY <1>1, NumberKept, WeighIs
<1>3. Weighed' <=> Weighed
  BY <1>1, <1>2 DEF Weighed
<1>4. Number' <=> Number
  BY <1>1, <1>2, NumberKept DEF Number
<1>5. SameResult' <=> SameResult
  BY <1>1 DEF SameResult
<1>6. \A i, b : Occurs(i, b)' <=> Occurs(i, b)
  BY <1>1 DEF Occurs
<1>7. Alike' /\ Copied' <=> Alike /\ Copied
  BY <1>1 DEF Alike, Copied
<1>8. SoFar' <=> SoFar
  BY <1>1, <1>3, <1>6 DEF SoFar, Alike, Copied
<1>9. ResultExact' <=> ResultExact
  BY <1>1, <1>4, <1>5, <1>6 DEF ResultExact, Returned
<1> QED BY <1>1, <1>8, <1>9 DEF ResultInv

LEMMA ResultStep == ReadInv /\ ResultInv /\ [Next]_vars => ResultInv'
<1> SUFFICES ASSUME ReadInv, ResultInv, [Next]_vars
             PROVE  ResultInv'
  OBVIOUS
<1>1. CASE UNCHANGED vars
  BY <1>1, NothingFound
<1>2. CASE \/ Enter \/ strcpy \/ strncpy \/ strcmp \/ strncmp \/ strlen \/ strnlen
  BY <1>2, EnterFinds, strcpyFinds, strncpyFinds, strcmpFinds, strncmpFinds,
     strlenFinds, strnlenFinds
<1>3. CASE \/ strstr \/ strnsrt \/ strchr \/ strrchr \/ strtoul
  BY <1>3, strstrFinds, strnsrtFinds, strchrFinds, strrchrFinds, strtoulFinds
<1>4. CASE \/ memcmp \/ memchr \/ memcpy \/ memmove \/ memset
  BY <1>4, memcmpFinds, memchrFinds, MovesFind
<1> QED BY <1>1, <1>2, <1>3, <1>4 DEF Next

LEMMA ResultBegins == Init => ResultInv
BY DEF Init, ResultInv, ResultExact, Returned, Entered, Running

\* While a call runs, what it has gone over holds no answer it has missed, and
\* what it counts, copies or weighs is exact for that part of its arguments.
THEOREM ResultsFound == Spec => []ResultInv
BY ResultBegins, ResultStep, CursorsInside, PTL DEF Spec

\* Every function that searches, compares, copies a string or converts a number
\* returns, and leaves in memory, what its definition on whole strings says: for
\* every size of the memory, every set of bytes, bases and widths.
THEOREM ResultsExact == Spec => []ResultExact
<1>1. ResultInv => ResultExact
  BY DEF ResultInv
<1> QED BY <1>1, ResultsFound, PTL
=============================================================================

----------------------------- MODULE ListProofs -----------------------------
(***************************************************************************)
(* list.h is right after any calls, for any heads and any finite set of    *)
(* entries: the two directions of every list agree, what a reader finds is *)
(* what was put there at every store of every call, and a loop visits it   *)
(* all.                                                                    *)
(***************************************************************************)
EXTENDS List, TLAPS, FiniteSetTheorems, WellFoundedInduction

Adds     == {"list_add", "list_add_tail"}
Dels     == {"list_del", "__list_del_clearprev"}
Replaces == {"list_replace", "list_replace_init"}

\* The backward pointers without what the call in progress has done to them
\* so far; of an initialisation, with what it has yet to do.
Settled ==
    IF op = None THEN prev
    ELSE IF op.fn \in Adds /\ op.pc > 1 THEN [prev EXCEPT ![op.n] = op.p]
    ELSE IF op.fn \in Dels /\ op.pc = 2 THEN [prev EXCEPT ![op.n] = op.x]
    ELSE IF op.fn \in Replaces /\ op.pc > 2
      THEN [prev EXCEPT ![next[op.at]] = op.at]
    ELSE IF op.fn = "INIT_LIST_HEAD" /\ op.pc = 2
      THEN [prev EXCEPT ![op.x] = op.x]
    ELSE prev

\* What each call knows of its arguments before each of its stores.
AddInv ==
    /\ op.x \in Entry /\ ~Linked(op.x) /\ Linked(op.at)
    /\ owner[op.p] = owner[op.at] /\ owner[op.n] = owner[op.at]
    /\ next[op.p] = op.n
    /\ op.pc > 1 => prev[op.n] = op.x
    /\ op.pc > 2 => next[op.x] = op.n
    /\ op.pc > 3 => prev[op.x] = op.p

DelInv ==
    /\ op.x \in Entry /\ ~LoopNeeds(op.x)
    /\ op.pc < 3 => /\ Linked(op.x)
                    /\ next[op.x] = op.n /\ Settled[op.x] = op.p
    /\ op.pc = 2 => prev[op.n] = op.p
    /\ op.pc = 3 => op.fn = "__list_del_clearprev" /\ ~Linked(op.x)
    /\ op.pc < 4

ReplaceInv ==
    /\ Linked(op.at) /\ ~Linked(op.x) /\ ~LoopNeeds(op.at)
    /\ op.x \in ListHead <=> op.at \in ListHead
    /\ op.pc > 1 => next[op.x] = next[op.at]
    /\ op.pc > 2 => prev[next[op.x]] = op.x
    /\ op.pc > 3 => prev[op.x] = prev[op.at]

InitInv ==
    /\ op.pc < 3
    /\ op.pc = 1 => ~Linked(op.x)
    /\ op.pc = 2 => /\ next[op.x] = op.x
                    /\ op.x \in ListHead => owner[op.x] = op.x
                    /\ op.x \in Entry => ~Linked(op.x)

RingInv  == \A x \in Node : Linked(x) => RingAt(x, Settled)
OwnerInv == \A h \in ListHead : owner[h] \in {h, None}
LoopInv  == loop # None => /\ owner[loop.head] = loop.head
                           /\ owner[LoopBase] = loop.head
CallInv  ==
    op # None =>
        /\ op.fn \in Adds => AddInv
        /\ op.fn \in Dels => DelInv
        /\ op.fn \in Replaces => ReplaceInv
        /\ op.fn = "INIT_LIST_HEAD" => InitInv

\* Mirrored, with what the call in progress has done so far.
IInv == TypeOK /\ RingInv /\ OwnerInv /\ LoopInv /\ CallInv

-----------------------------------------------------------------------------
(* What a step stores                                                      *)

\* The call in progress, before its k-th store; the call list_replace_init
\* ends with.
Before(k) == [op EXCEPT !.pc = k]
InitOld == [fn |-> "INIT_LIST_HEAD", x |-> op.at, at |-> op.at,
            p |-> op.at, n |-> op.at, pc |-> 1]

\* The same call goes on.
LEMMA NextStore ==
    ASSUME op \in OpType, NEW k \in 1 .. 4, op' = Before(k)
    PROVE  /\ op' \in OpType /\ op' # None
           /\ op'.fn = op.fn /\ op'.x = op.x /\ op'.at = op.at
           /\ op'.p = op.p /\ op'.n = op.n /\ op'.pc = k
<1>1. op' \in OpType
  BY DEF OpType, Before
<1>2. None \notin OpType
  BY ListAssumption
<1> QED BY <1>1, <1>2 DEF OpType, Before

\* The call starts over with another function.
LEMMA InitOldStore ==
    ASSUME op \in OpType, op' = InitOld
    PROVE  /\ op' \in OpType /\ op' # None /\ op'.fn = "INIT_LIST_HEAD"
           /\ op'.x = op.at /\ op'.pc = 1
<1>1. op' \in OpType
  BY DEF OpType, InitOld, Function
<1>2. None \notin OpType
  BY ListAssumption
<1> QED BY <1>1, <1>2 DEF InitOld

\* Where a call of len stores goes on after the one it is at.
LEMMA CallStep ==
    ASSUME Store, NEW len, Len(Stores(op)) = len
    PROVE  op' = IF op.pc < len THEN Before(op.pc + 1)
                 ELSE IF op.fn = "list_replace_init" THEN InitOld ELSE None
BY Zenon DEF Store, Before, InitOld

\* What a store to a forward pointer does.
LEMMA NextStep ==
    ASSUME Store, NEW a, NEW v, Stores(op)[op.pc] = Next_(a, v)
    PROVE  next' = [next EXCEPT ![a] = v] /\ prev' = prev
<1> DEFINE s == Stores(op)[op.pc]
<1>1. s.field = "next" /\ s.of = a /\ s.to = v
  BY DEF Next_
<1>2. /\ next' = IF s.field = "next" THEN [next EXCEPT ![s.of] = s.to] ELSE next
      /\ prev' = IF s.field = "prev" THEN [prev EXCEPT ![s.of] = s.to] ELSE prev
  BY DEF Store
<1> HIDE DEF s
<1> QED BY <1>1, <1>2

\* What a store to a backward pointer does.
LEMMA PrevStep ==
    ASSUME Store, NEW a, NEW v, Stores(op)[op.pc] = Prev_(a, v)
    PROVE  prev' = [prev EXCEPT ![a] = v] /\ next' = next
<1> DEFINE s == Stores(op)[op.pc]
<1>1. s.field = "prev" /\ s.of = a /\ s.to = v
  BY DEF Prev_
<1>2. /\ next' = IF s.field = "next" THEN [next EXCEPT ![s.of] = s.to] ELSE next
      /\ prev' = IF s.field = "prev" THEN [prev EXCEPT ![s.of] = s.to] ELSE prev
  BY DEF Store
<1> HIDE DEF s
<1> QED BY <1>1, <1>2

\* A call of list_add or list_add_tail stores in this order.
LEMMA AddStore ==
    ASSUME op # None, op.fn \in Adds, Store
    PROVE  /\ op.pc = 1 => /\ prev' = [prev EXCEPT ![op.n] = op.x]
                           /\ next' = next
                           /\ owner' = owner
                           /\ op' = Before(2)
           /\ op.pc = 2 => /\ next' = [next EXCEPT ![op.x] = op.n]
                           /\ prev' = prev
                           /\ owner' = owner
                           /\ op' = Before(3)
           /\ op.pc = 3 => /\ prev' = [prev EXCEPT ![op.x] = op.p]
                           /\ next' = next
                           /\ owner' = owner
                           /\ op' = Before(4)
           /\ op.pc = 4 => /\ next' = [next EXCEPT ![op.p] = op.x]
                           /\ prev' = prev
                           /\ owner' = [owner EXCEPT ![op.x] = owner[op.at]]
                           /\ op' = None
<1> DEFINE code == <<Prev_(op.n, op.x),
                     Next_(op.x, op.n),
                     Prev_(op.x, op.p),
                     Next_(op.p, op.x)>>
<1>1. Stores(op) = code
  BY DEF Stores, Adds, __list_add
<1>2. Len(code) = 4 /\ Len(Stores(op)) = 4
  BY <1>1
<1>3. Publishes <=> op.pc = 4
  BY DEF Publishes, Visible, Adds, Dels, Replaces
<1>4. CASE op.pc = 1
  <2>1. Stores(op)[op.pc] = Prev_(op.n, op.x)
    BY <1>1, <1>4
  <2>2. owner' = owner
    BY <1>3, <1>4 DEF Store
  <2>3. op' = Before(2)
    BY CallStep, <1>2, <1>4 DEF Adds, Dels, Replaces
  <2> HIDE DEF code
  <2> QED BY <1>4, <2>1, <2>2, <2>3, PrevStep
<1>5. CASE op.pc = 2
  <2>1. Stores(op)[op.pc] = Next_(op.x, op.n)
    BY <1>1, <1>5
  <2>2. owner' = owner
    BY <1>3, <1>5 DEF Store
  <2>3. op' = Before(3)
    BY CallStep, <1>2, <1>5 DEF Adds, Dels, Replaces
  <2> HIDE DEF code
  <2> QED BY <1>5, <2>1, <2>2, <2>3, NextStep
<1>6. CASE op.pc = 3
  <2>1. Stores(op)[op.pc] = Prev_(op.x, op.p)
    BY <1>1, <1>6
  <2>2. owner' = owner
    BY <1>3, <1>6 DEF Store
  <2>3. op' = Before(4)
    BY CallStep, <1>2, <1>6 DEF Adds, Dels, Replaces
  <2> HIDE DEF code
  <2> QED BY <1>6, <2>1, <2>2, <2>3, PrevStep
<1>7. CASE op.pc = 4
  <2>1. Stores(op)[op.pc] = Next_(op.p, op.x)
    BY <1>1, <1>7
  <2>2. owner' = [owner EXCEPT ![op.x] = owner[op.at]]
    BY <1>3, <1>7 DEF Store, Publish, NewOwner, Adds, Dels, Replaces
  <2>3. op' = None
    BY CallStep, <1>2, <1>7 DEF Adds, Dels, Replaces
  <2> HIDE DEF code
  <2> QED BY <1>7, <2>1, <2>2, <2>3, NextStep
<1> QED BY <1>4, <1>5, <1>6, <1>7

\* list_del mends the list backwards, then forwards.
LEMMA DelStore ==
    ASSUME op # None, op.fn = "list_del", Store
    PROVE  /\ op.pc = 1 => /\ prev' = [prev EXCEPT ![op.n] = op.p]
                           /\ next' = next
                           /\ owner' = owner
                           /\ op' = Before(2)
           /\ op.pc = 2 => /\ next' = [next EXCEPT ![op.p] = op.n]
                           /\ prev' = prev
                           /\ owner' = [owner EXCEPT ![op.x] = None]
                           /\ op' = None
<1> DEFINE code == <<Prev_(op.n, op.p),
                     Next_(op.p, op.n)>>
<1>1. Stores(op) = code
  BY DEF Stores, __list_del
<1>2. Len(code) = 2 /\ Len(Stores(op)) = 2
  BY <1>1
<1>3. Publishes <=> op.pc = 2
  BY DEF Publishes, Visible, Adds, Dels, Replaces
<1>4. CASE op.pc = 1
  <2>1. Stores(op)[op.pc] = Prev_(op.n, op.p)
    BY <1>1, <1>4
  <2>2. owner' = owner
    BY <1>3, <1>4 DEF Store
  <2>3. op' = Before(2)
    BY CallStep, <1>2, <1>4 DEF Adds, Dels, Replaces
  <2> HIDE DEF code
  <2> QED BY <1>4, <2>1, <2>2, <2>3, PrevStep
<1>5. CASE op.pc = 2
  <2>1. Stores(op)[op.pc] = Next_(op.p, op.n)
    BY <1>1, <1>5
  <2>2. owner' = [owner EXCEPT ![op.x] = None]
    BY <1>3, <1>5 DEF Store, Publish, NewOwner, Adds, Dels, Replaces
  <2>3. op' = None
    BY CallStep, <1>2, <1>5 DEF Adds, Dels, Replaces
  <2> HIDE DEF code
  <2> QED BY <1>5, <2>1, <2>2, <2>3, NextStep
<1> QED BY <1>4, <1>5

\* __list_del_clearprev does the same and then clears one pointer.
LEMMA ClearStore ==
    ASSUME op # None, op.fn = "__list_del_clearprev", Store
    PROVE  /\ op.pc = 1 => /\ prev' = [prev EXCEPT ![op.n] = op.p]
                           /\ next' = next
                           /\ owner' = owner
                           /\ op' = Before(2)
           /\ op.pc = 2 => /\ next' = [next EXCEPT ![op.p] = op.n]
                           /\ prev' = prev
                           /\ owner' = [owner EXCEPT ![op.x] = None]
                           /\ op' = Before(3)
           /\ op.pc = 3 => /\ prev' = [prev EXCEPT ![op.x] = NULL]
                           /\ next' = next
                           /\ owner' = owner
                           /\ op' = None
<1> DEFINE code == <<Prev_(op.n, op.p),
                     Next_(op.p, op.n),
                     Prev_(op.x, NULL)>>
<1>1. Stores(op) = code
  <2>1. code = Append(<<Prev_(op.n, op.p), Next_(op.p, op.n)>>, Prev_(op.x, NULL))
    OBVIOUS
  <2> QED BY <2>1 DEF Stores, __list_del
<1>2. Len(code) = 3 /\ Len(Stores(op)) = 3
  BY <1>1
<1>3. Publishes <=> op.pc = 2
  BY DEF Publishes, Visible, Adds, Dels, Replaces
<1>4. CASE op.pc = 1
  <2>1. Stores(op)[op.pc] = Prev_(op.n, op.p)
    BY <1>1, <1>4
  <2>2. owner' = owner
    BY <1>3, <1>4 DEF Store
  <2>3. op' = Before(2)
    BY CallStep, <1>2, <1>4 DEF Adds, Dels, Replaces
  <2> HIDE DEF code
  <2> QED BY <1>4, <2>1, <2>2, <2>3, PrevStep
<1>5. CASE op.pc = 2
  <2>1. Stores(op)[op.pc] = Next_(op.p, op.n)
    BY <1>1, <1>5
  <2>2. owner' = [owner EXCEPT ![op.x] = None]
    BY <1>3, <1>5 DEF Store, Publish, NewOwner, Adds, Dels, Replaces
  <2>3. op' = Before(3)
    BY CallStep, <1>2, <1>5 DEF Adds, Dels, Replaces
  <2> HIDE DEF code
  <2> QED BY <1>5, <2>1, <2>2, <2>3, NextStep
<1>6. CASE op.pc = 3
  <2>1. Stores(op)[op.pc] = Prev_(op.x, NULL)
    BY <1>1, <1>6
  <2>2. owner' = owner
    BY <1>3, <1>6 DEF Store
  <2>3. op' = None
    BY CallStep, <1>2, <1>6 DEF Adds, Dels, Replaces
  <2> HIDE DEF code
  <2> QED BY <1>6, <2>1, <2>2, <2>3, PrevStep
<1> QED BY <1>4, <1>5, <1>6

OwnerReplaced ==
    [y \in Node |-> IF y = op.at THEN None
                    ELSE IF y = op.x /\ y \in Entry THEN owner[op.at]
                    ELSE IF y = op.x \/ owner[y] = op.at THEN op.x
                    ELSE owner[y]]

\* A replacement; list_replace_init goes on with the old node.
LEMMA ReplaceStore ==
    ASSUME op # None, op.fn \in Replaces, Store
    PROVE  /\ op.pc = 1 => /\ next' = [next EXCEPT ![op.x] = next[op.at]]
                           /\ prev' = prev
                           /\ owner' = owner
                           /\ op' = Before(2)
           /\ op.pc = 2 => /\ prev' = [prev EXCEPT ![next[op.x]] = op.x]
                           /\ next' = next
                           /\ owner' = owner
                           /\ op' = Before(3)
           /\ op.pc = 3 => /\ prev' = [prev EXCEPT ![op.x] = prev[op.at]]
                           /\ next' = next
                           /\ owner' = owner
                           /\ op' = Before(4)
           /\ op.pc = 4 => /\ next' = [next EXCEPT ![prev[op.x]] = op.x]
                           /\ prev' = prev
                           /\ owner' = OwnerReplaced
                           /\ op' = IF op.fn = "list_replace_init" THEN InitOld ELSE None
<1> DEFINE code == <<Next_(op.x, next[op.at]),
                     Prev_(next[op.x], op.x),
                     Prev_(op.x, prev[op.at]),
                     Next_(prev[op.x], op.x)>>
<1>1. Stores(op) = code
  BY DEF Stores, Replaces, list_replace
<1>2. Len(code) = 4 /\ Len(Stores(op)) = 4
  BY <1>1
<1>3. Publishes <=> op.pc = 4
  BY DEF Publishes, Visible, Adds, Dels, Replaces
<1>4. CASE op.pc = 1
  <2>1. Stores(op)[op.pc] = Next_(op.x, next[op.at])
    BY <1>1, <1>4
  <2>2. owner' = owner
    BY <1>3, <1>4 DEF Store
  <2>3. op' = Before(2)
    BY CallStep, <1>2, <1>4 DEF Adds, Dels, Replaces
  <2> HIDE DEF code
  <2> QED BY <1>4, <2>1, <2>2, <2>3, NextStep
<1>5. CASE op.pc = 2
  <2>1. Stores(op)[op.pc] = Prev_(next[op.x], op.x)
    BY <1>1, <1>5
  <2>2. owner' = owner
    BY <1>3, <1>5 DEF Store
  <2>3. op' = Before(3)
    BY CallStep, <1>2, <1>5 DEF Adds, Dels, Replaces
  <2> HIDE DEF code
  <2> QED BY <1>5, <2>1, <2>2, <2>3, PrevStep
<1>6. CASE op.pc = 3
  <2>1. Stores(op)[op.pc] = Prev_(op.x, prev[op.at])
    BY <1>1, <1>6
  <2>2. owner' = owner
    BY <1>3, <1>6 DEF Store
  <2>3. op' = Before(4)
    BY CallStep, <1>2, <1>6 DEF Adds, Dels, Replaces
  <2> HIDE DEF code
  <2> QED BY <1>6, <2>1, <2>2, <2>3, PrevStep
<1>7. CASE op.pc = 4
  <2>1. Stores(op)[op.pc] = Next_(prev[op.x], op.x)
    BY <1>1, <1>7
  <2>2. owner' = OwnerReplaced
    BY <1>3, <1>7 DEF Store, Publish, NewOwner, Replaces, OwnerReplaced
  <2>3. op' = IF op.fn = "list_replace_init" THEN InitOld ELSE None
    BY CallStep, <1>2, <1>7 DEF Adds, Dels, Replaces
  <2> HIDE DEF code
  <2> QED BY <1>7, <2>1, <2>2, <2>3, NextStep
<1> QED BY <1>4, <1>5, <1>6, <1>7

\* An initialisation, of a head or of an entry.
LEMMA InitStore ==
    ASSUME op # None, op.fn = "INIT_LIST_HEAD", Store
    PROVE  /\ op.pc = 1 => /\ next' = [next EXCEPT ![op.x] = op.x]
                           /\ prev' = prev
                           /\ owner' = [owner EXCEPT ![op.x] =
                                           IF op.x \in ListHead THEN op.x ELSE None]
                           /\ op' = Before(2)
           /\ op.pc = 2 => /\ prev' = [prev EXCEPT ![op.x] = op.x]
                           /\ next' = next
                           /\ owner' = owner
                           /\ op' = None
<1> DEFINE code == <<Next_(op.x, op.x),
                     Prev_(op.x, op.x)>>
<1>1. Stores(op) = code
  BY DEF Stores, INIT_LIST_HEAD
<1>2. Len(code) = 2 /\ Len(Stores(op)) = 2
  BY <1>1
<1>3. Publishes <=> op.pc = 1
  BY DEF Publishes, Visible, Adds, Dels, Replaces
<1>4. CASE op.pc = 1
  <2>1. Stores(op)[op.pc] = Next_(op.x, op.x)
    BY <1>1, <1>4
  <2>2. owner' = [owner EXCEPT ![op.x] =
                                           IF op.x \in ListHead THEN op.x ELSE None]
    BY <1>3, <1>4 DEF Store, Publish, NewOwner, Adds, Dels, Replaces
  <2>3. op' = Before(2)
    BY CallStep, <1>2, <1>4 DEF Adds, Dels, Replaces
  <2> HIDE DEF code
  <2> QED BY <1>4, <2>1, <2>2, <2>3, NextStep
<1>5. CASE op.pc = 2
  <2>1. Stores(op)[op.pc] = Prev_(op.x, op.x)
    BY <1>1, <1>5
  <2>2. owner' = owner
    BY <1>3, <1>5 DEF Store
  <2>3. op' = None
    BY CallStep, <1>2, <1>5 DEF Adds, Dels, Replaces
  <2> HIDE DEF code
  <2> QED BY <1>5, <2>1, <2>2, <2>3, PrevStep
<1> QED BY <1>4, <1>5

-----------------------------------------------------------------------------
(* Preservation                                                            *)

\* The nodes a loop depends on are on its list.
LEMMA LoopLinked ==
    ASSUME IInv, loop # None
    PROVE  /\ loop.head \in ListHead /\ LoopBase \in Node
           /\ Linked(loop.head) /\ Linked(LoopBase)
<1>1. loop \in LoopType
  BY DEF IInv, TypeOK
<1>2. loop.head \in ListHead /\ LoopBase \in Node
  BY <1>1 DEF LoopType, LoopBase
<1>3. None \notin ListHead
  BY ListAssumption DEF Node
<1> QED BY <1>2, <1>3 DEF IInv, LoopInv, Linked

\* A store that touches no pointer of a node on a list, but for what Settled
\* takes back, leaves the lists alone.
LEMMA QuietStore ==
    ASSUME IInv, owner' = owner, UNCHANGED loop,
           \A y \in Node : Linked(y) =>
               next'[y] = next[y] /\ Settled'[y] = Settled[y]
    PROVE  RingInv' /\ OwnerInv' /\ LoopInv'
<1>1. RingInv'
  <2> SUFFICES ASSUME NEW x \in Node, Linked(x)
               PROVE  RingAt(x, Settled)'
    BY DEF RingInv, Linked
  <2>1. RingAt(x, Settled)
    BY DEF IInv, RingInv
  <2>2. Linked(next[x]) /\ Linked(Settled[x])
    BY <2>1 DEF RingAt, Linked
  <2> QED BY <2>1, <2>2 DEF RingAt
<1>2. OwnerInv'
  BY DEF IInv, OwnerInv
<1>3. LoopInv'
  BY DEF IInv, LoopInv, LoopBase
<1> QED BY <1>1, <1>2, <1>3

\* list_add and list_add_tail.
LEMMA AddKeeps ==
    ASSUME IInv, op # None, op.fn \in Adds, Store
    PROVE  IInv'
<1> USE DEF IInv, Adds
<1>1. /\ op \in OpType /\ UNCHANGED loop /\ AddInv
      /\ op.x \in Node /\ op.at \in Node /\ op.p \in Node /\ op.n \in Node
      /\ op.pc \in 1 .. 4 /\ op.x \in Entry
  BY DEF Store, TypeOK, OpType, CallInv, AddInv
<1>2. Linked(op.p) /\ Linked(op.n) /\ RingAt(op.p, Settled)
  BY <1>1 DEF AddInv, Linked, RingInv
<1>3. Settled[op.n] = op.p
  BY <1>1, <1>2 DEF AddInv, RingAt
<1>4. op.x # op.p /\ op.x # op.n /\ ~Linked(op.x)
  BY <1>1, <1>2 DEF AddInv
<1>5. CASE op.pc = 1
  <2>1. /\ prev' = [prev EXCEPT ![op.n] = op.x] /\ next' = next
        /\ owner' = owner /\ op' = Before(2)
    BY <1>5, AddStore
  <2>2. /\ op' \in OpType /\ op' # None /\ op'.fn = op.fn /\ op'.x = op.x
        /\ op'.at = op.at /\ op'.p = op.p /\ op'.n = op.n /\ op'.pc = 2
    BY <1>1, <2>1, NextStore
  <2>3. \A y \in Node : Settled'[y] = Settled[y]
    <3>1. Settled = prev
      BY <1>5 DEF Settled, Dels, Replaces
    <3>2. Settled' = [prev' EXCEPT ![op.n] = op.p]
      BY <2>2 DEF Settled
    <3> QED BY <1>3, <2>1, <3>1, <3>2 DEF TypeOK
  <2>4. TypeOK'
    BY <1>1, <2>1, <2>2 DEF TypeOK
  <2>5. AddInv'
    BY <1>1, <1>5, <2>1, <2>2 DEF AddInv, Linked, TypeOK
  <2>6. CallInv'
    BY <2>2, <2>5 DEF CallInv, Dels, Replaces
  <2> QED BY <1>1, <2>1, <2>3, <2>4, <2>6, QuietStore
<1>6. CASE op.pc = 2
  <2>1. /\ next' = [next EXCEPT ![op.x] = op.n] /\ prev' = prev
        /\ owner' = owner /\ op' = Before(3)
    BY <1>6, AddStore
  <2>2. /\ op' \in OpType /\ op' # None /\ op'.fn = op.fn /\ op'.x = op.x
        /\ op'.at = op.at /\ op'.p = op.p /\ op'.n = op.n /\ op'.pc = 3
    BY <1>1, <2>1, NextStore
  <2>3. Settled' = Settled
    <3>1. Settled = [prev EXCEPT ![op.n] = op.p]
      BY <1>6 DEF Settled
    <3>2. Settled' = [prev' EXCEPT ![op.n] = op.p]
      BY <2>2 DEF Settled
    <3> QED BY <2>1, <3>1, <3>2
  <2>4. TypeOK'
    BY <1>1, <2>1, <2>2 DEF TypeOK
  <2>5. AddInv'
    BY <1>1, <1>4, <1>6, <2>1, <2>2 DEF AddInv, Linked, TypeOK
  <2>6. CallInv'
    BY <2>2, <2>5 DEF CallInv, Dels, Replaces
  <2> QED BY <1>1, <1>4, <2>1, <2>3, <2>4, <2>6, QuietStore DEF TypeOK
<1>7. CASE op.pc = 3
  <2>1. /\ prev' = [prev EXCEPT ![op.x] = op.p] /\ next' = next
        /\ owner' = owner /\ op' = Before(4)
    BY <1>7, AddStore
  <2>2. /\ op' \in OpType /\ op' # None /\ op'.fn = op.fn /\ op'.x = op.x
        /\ op'.at = op.at /\ op'.p = op.p /\ op'.n = op.n /\ op'.pc = 4
    BY <1>1, <2>1, NextStore
  <2>3. \A y \in Node : Linked(y) => Settled'[y] = Settled[y]
    BY <1>1, <1>4, <1>7, <2>1, <2>2 DEF Settled, TypeOK
  <2>4. TypeOK'
    BY <1>1, <2>1, <2>2 DEF TypeOK
  <2>5. AddInv'
    BY <1>1, <1>4, <1>7, <2>1, <2>2 DEF AddInv, Linked, TypeOK
  <2>6. CallInv'
    BY <2>2, <2>5 DEF CallInv, Dels, Replaces
  <2> QED BY <1>1, <2>1, <2>3, <2>4, <2>6, QuietStore
<1>8. CASE op.pc = 4
  <2>1. /\ next' = [next EXCEPT ![op.p] = op.x] /\ prev' = prev /\ op' = None
        /\ owner' = [owner EXCEPT ![op.x] = owner[op.at]]
    BY <1>8, AddStore
  <2>2. TypeOK'
    BY <1>1, <2>1 DEF TypeOK
  <2>3. /\ next[op.x] = op.n /\ prev[op.x] = op.p
        /\ next[op.p] = op.n /\ prev[op.n] = op.x
    BY <1>1, <1>8 DEF AddInv
  <2>4. RingInv'
    <3> SUFFICES ASSUME NEW y \in Node, Linked(y)'
                 PROVE  RingAt(y, Settled)'
      BY DEF RingInv
    <3>1. Settled' = prev
      BY <2>1 DEF Settled
    <3>2. Settled = [prev EXCEPT ![op.n] = op.p]
      BY <1>8 DEF Settled
    <3>3. y = op.x \/ RingAt(y, Settled)
      BY <2>1 DEF RingInv, Linked, TypeOK
    <3>4. CASE y = op.x
      BY <1>1, <1>2, <1>4, <2>1, <2>3, <3>1, <3>4 DEF RingAt, TypeOK, AddInv
    <3>5. CASE y # op.x
      <4>1. next[y] = op.n <=> y = op.p
        BY <1>1, <1>2, <1>3, <2>3, <3>3, <3>5 DEF RingAt
      <4>2. Settled[y] = op.p <=> y = op.n
        BY <1>1, <1>2, <1>3, <2>3, <3>3, <3>5 DEF RingAt
      <4>3. next[y] # op.x /\ Settled[y] # op.x
        BY <1>4, <2>1, <3>3, <3>5 DEF RingAt, Linked, TypeOK
      <4>4. /\ next[y] \in Node /\ Settled[y] \in Node
            /\ Settled[next[y]] = y /\ next[Settled[y]] = y
            /\ owner[next[y]] = owner[y] /\ owner[Settled[y]] = owner[y]
        BY <3>3, <3>5 DEF RingAt
      <4> HIDE DEF IInv
      <4>5. /\ next'[y] \in Node /\ prev[next'[y]] = y
            /\ owner'[next'[y]] = owner'[y]
        <5>1. CASE y = op.p
          BY <1>1, <1>4, <2>1, <2>3, <3>5, <5>1 DEF TypeOK, AddInv, IInv
        <5>2. CASE y # op.p
          <6>1. next'[y] = next[y] /\ next[y] # op.n
            BY <1>1, <2>1, <4>1, <5>2 DEF TypeOK, IInv
          <6>2. prev[next[y]] = Settled[next[y]]
            BY <1>1, <3>2, <4>4, <6>1 DEF TypeOK, IInv
          <6>3. owner'[next[y]] = owner[next[y]] /\ owner'[y] = owner[y]
            BY <1>1, <2>1, <3>5, <4>3, <4>4 DEF TypeOK, IInv
          <6> QED BY <4>4, <6>1, <6>2, <6>3
        <5> QED BY <5>1, <5>2
      <4>6. /\ prev[y] \in Node /\ next'[prev[y]] = y
            /\ owner'[prev[y]] = owner'[y]
        <5>1. CASE y = op.n
          BY <1>1, <1>4, <2>1, <2>3, <3>5, <5>1 DEF TypeOK, AddInv, IInv
        <5>2. CASE y # op.n
          <6>1. prev[y] = Settled[y] /\ prev[y] # op.p
            BY <1>1, <3>2, <4>2, <5>2 DEF TypeOK, IInv
          <6>2. next'[prev[y]] = next[prev[y]]
            BY <1>1, <2>1, <4>4, <6>1 DEF TypeOK, IInv
          <6>3. owner'[prev[y]] = owner[prev[y]] /\ owner'[y] = owner[y]
            BY <1>1, <2>1, <3>5, <4>3, <4>4, <6>1 DEF TypeOK, IInv
          <6> QED BY <4>4, <6>1, <6>2, <6>3
        <5> QED BY <5>1, <5>2
      <4> QED BY <2>1, <3>1, <4>5, <4>6 DEF RingAt
    <3> QED BY <3>4, <3>5
  <2>5. OwnerInv'
    BY <1>1, <2>1, ListAssumption DEF OwnerInv, TypeOK
  <2>6. LoopInv'
    <3>1. \A y \in Node : Linked(y) => owner'[y] = owner[y]
      BY <1>1, <1>4, <2>1 DEF TypeOK
    <3>2. loop # None => loop.head \in Node
      BY LoopLinked DEF Node
    <3> QED BY <1>1, <3>1, <3>2, LoopLinked DEF LoopInv, LoopBase
  <2> QED BY <2>1, <2>2, <2>4, <2>5, <2>6 DEF CallInv
<1> QED BY <1>1, <1>5, <1>6, <1>7, <1>8

\* The deletions.
LEMMA DelKeeps ==
    ASSUME IInv, op # None, op.fn \in Dels, Store
    PROVE  IInv'
<1> USE DEF Dels
<1>1. /\ op \in OpType /\ UNCHANGED loop /\ DelInv /\ op.pc \in 1 .. 3
      /\ op.x \in Node /\ op.at \in Node /\ op.p \in Node /\ op.n \in Node
  BY DEF IInv, Store, TypeOK, OpType, CallInv, DelInv
<1>2. TypeOK /\ RingInv
  BY DEF IInv
<1>3. op.pc = 1 \/ op.pc = 2 =>
        /\ Linked(op.x) /\ next[op.x] = op.n /\ Settled[op.x] = op.p
        /\ Settled[op.n] = op.x /\ next[op.p] = op.x
        /\ owner[op.p] = owner[op.x] /\ owner[op.n] = owner[op.x]
  BY <1>1, <1>2 DEF DelInv, RingInv, RingAt
<1>4. CASE op.pc = 1
  <2>1. /\ prev' = [prev EXCEPT ![op.n] = op.p] /\ next' = next
        /\ owner' = owner /\ op' = Before(2)
    BY <1>4, DelStore, ClearStore
  <2>2. /\ op' \in OpType /\ op' # None /\ op'.fn = op.fn /\ op'.x = op.x
        /\ op'.at = op.at /\ op'.p = op.p /\ op'.n = op.n /\ op'.pc = 2
    BY <1>1, <2>1, NextStore
  <2>3. \A y \in Node : Settled'[y] = Settled[y]
    <3>1. Settled = prev
      BY <1>4 DEF Settled, Adds, Replaces
    <3>2. Settled' = [prev' EXCEPT ![op.n] = op.x]
      BY <2>2 DEF Settled, Adds
    <3> QED BY <1>2, <1>3, <1>4, <2>1, <3>1, <3>2 DEF TypeOK
  <2>4. TypeOK'
    BY <1>1, <1>2, <2>1, <2>2 DEF TypeOK
  <2>5. DelInv'
    BY <1>1, <1>2, <1>3, <1>4, <2>1, <2>2, <2>3
       DEF DelInv, Linked, TypeOK, LoopNeeds, LoopBase
  <2>6. CallInv'
    BY <2>2, <2>5 DEF CallInv, Adds, Replaces
  <2> QED BY <1>1, <2>1, <2>3, <2>4, <2>6, QuietStore DEF IInv
<1>5. CASE op.pc = 2
  <2>1. /\ next' = [next EXCEPT ![op.p] = op.n] /\ prev' = prev
        /\ owner' = [owner EXCEPT ![op.x] = None]
        /\ op' = IF op.fn = "list_del" THEN None ELSE Before(3)
    BY <1>5, DelStore, ClearStore
  <2>2. op.fn # "list_del" =>
          /\ op' \in OpType /\ op' # None /\ op'.fn = op.fn /\ op'.x = op.x
          /\ op'.pc = 3
    BY <1>1, <2>1, NextStore
  <2>3. TypeOK'
    BY <1>1, <1>2, <2>1, <2>2 DEF TypeOK
  <2>4. RingInv'
    <3> SUFFICES ASSUME NEW y \in Node, Linked(y)'
                 PROVE  RingAt(y, Settled)'
      BY DEF RingInv
    <3>1. Settled' = prev
      BY <2>1, <2>2 DEF Settled, Adds, Replaces
    <3>2. Settled = [prev EXCEPT ![op.n] = op.x]
      BY <1>5 DEF Settled, Adds
    <3>3. y # op.x /\ owner'[y] = owner[y] /\ Linked(y)
      BY <1>1, <1>2, <2>1 DEF Linked, TypeOK
    <3>4. /\ next[y] \in Node /\ Settled[y] \in Node
          /\ Settled[next[y]] = y /\ next[Settled[y]] = y
          /\ owner[next[y]] = owner[y] /\ owner[Settled[y]] = owner[y]
      BY <1>2, <3>3 DEF RingInv, RingAt
    <3>5. prev[op.n] = op.p
      BY <1>1, <1>5 DEF DelInv
    <3>6. /\ next'[y] \in Node /\ prev[next'[y]] = y
          /\ owner'[next'[y]] = owner'[y]
      <4>1. CASE y = op.p
        <5>1. op.n # op.x
          BY <1>3, <1>5, <3>3, <4>1
        <5> QED BY <1>1, <1>2, <1>3, <1>5, <2>1, <3>3, <3>5, <4>1, <5>1 DEF TypeOK
      <4>2. CASE y # op.p
        <5>1. next'[y] = next[y] /\ next[y] # op.n /\ next[y] # op.x
          BY <1>1, <1>2, <1>3, <1>5, <2>1, <3>3, <3>4, <4>2 DEF TypeOK
        <5>2. prev[next[y]] = Settled[next[y]]
          BY <1>1, <1>2, <3>2, <3>4, <5>1 DEF TypeOK
        <5>3. owner'[next[y]] = owner[next[y]]
          BY <1>1, <1>2, <2>1, <3>4, <5>1 DEF TypeOK
        <5> QED BY <3>3, <3>4, <5>1, <5>2, <5>3
      <4> QED BY <4>1, <4>2
    <3>7. /\ prev[y] \in Node /\ next'[prev[y]] = y
          /\ owner'[prev[y]] = owner'[y]
      <4>1. CASE y = op.n
        <5>1. op.p # op.x
          BY <1>3, <1>5, <3>3, <4>1
        <5> QED BY <1>1, <1>2, <1>3, <1>5, <2>1, <3>3, <3>5, <4>1, <5>1 DEF TypeOK
      <4>2. CASE y # op.n
        <5>1. prev[y] = Settled[y] /\ prev[y] # op.p /\ prev[y] # op.x
          BY <1>1, <1>2, <1>3, <1>5, <3>2, <3>3, <3>4, <4>2 DEF TypeOK
        <5>2. next'[prev[y]] = next[prev[y]]
          BY <1>1, <1>2, <2>1, <3>4, <5>1 DEF TypeOK
        <5>3. owner'[prev[y]] = owner[prev[y]]
          BY <1>1, <1>2, <2>1, <3>4, <5>1 DEF TypeOK
        <5> QED BY <3>3, <3>4, <5>1, <5>2, <5>3
      <4> QED BY <4>1, <4>2
    <3> QED BY <2>1, <3>1, <3>6, <3>7 DEF RingAt
  <2>5. OwnerInv'
    BY <1>1, <1>2, <2>1 DEF IInv, OwnerInv, TypeOK, Node
  <2>6. LoopInv'
    <3>1. \A y \in Node : y # op.x => owner'[y] = owner[y]
      BY <1>1, <1>2, <2>1 DEF TypeOK
    <3>2. loop # None => /\ loop.head \in Node /\ LoopBase \in Node
                         /\ loop.head # op.x /\ LoopBase # op.x
      BY <1>1, LoopLinked DEF Node, DelInv, LoopNeeds
    <3> QED BY <1>1, <3>1, <3>2 DEF IInv, LoopInv, LoopBase
  <2>7. CallInv'
    <3>1. CASE op.fn = "list_del"
      BY <2>1, <3>1 DEF CallInv
    <3>2. CASE op.fn # "list_del"
      <4>1. ~Linked(op.x)' /\ ~LoopNeeds(op.x)' /\ op.x \in Entry
        BY <1>1, <1>2, <2>1, <2>2, <3>2
           DEF Linked, LoopNeeds, LoopBase, DelInv, TypeOK
      <4> QED BY <2>2, <3>2, <4>1
              DEF CallInv, DelInv, Adds, Replaces, Linked, LoopNeeds
    <3> QED BY <3>1, <3>2
  <2> QED BY <2>3, <2>4, <2>5, <2>6, <2>7 DEF IInv
<1>6. CASE op.pc = 3
  <2>1. /\ prev' = [prev EXCEPT ![op.x] = NULL] /\ next' = next
        /\ owner' = owner /\ op' = None
    BY <1>1, <1>6, ClearStore DEF DelInv
  <2>2. \A y \in Node : Linked(y) => Settled'[y] = Settled[y]
    <3>1. Settled = prev /\ Settled' = prev'
      BY <1>6, <2>1 DEF Settled, Adds, Replaces
    <3> QED BY <1>1, <1>2, <1>6, <2>1, <3>1 DEF TypeOK, DelInv
  <2>3. TypeOK'
    BY <1>1, <1>2, <2>1 DEF TypeOK
  <2>4. CallInv'
    BY <2>1 DEF CallInv
  <2> QED BY <1>1, <2>1, <2>2, <2>3, <2>4, QuietStore DEF IInv
<1> QED BY <1>1, <1>4, <1>5, <1>6

\* INIT_LIST_HEAD.
LEMMA InitKeeps ==
    ASSUME IInv, op # None, op.fn = "INIT_LIST_HEAD", Store
    PROVE  IInv'
<1>1. /\ op \in OpType /\ UNCHANGED loop /\ InitInv /\ op.pc \in 1 .. 2
      /\ op.x \in Node
  BY DEF IInv, Store, TypeOK, OpType, CallInv, InitInv
<1>2. TypeOK /\ RingInv /\ None \notin Node
  BY ListAssumption DEF IInv
<1>3. CASE op.pc = 1
  <2>1. /\ next' = [next EXCEPT ![op.x] = op.x] /\ prev' = prev
        /\ owner' = [owner EXCEPT ![op.x] =
                        IF op.x \in ListHead THEN op.x ELSE None]
        /\ op' = Before(2)
    BY <1>3, InitStore
  <2>2. /\ op' \in OpType /\ op' # None /\ op'.fn = op.fn /\ op'.x = op.x
        /\ op'.pc = 2
    BY <1>1, <2>1, NextStore
  <2>3. TypeOK'
    BY <1>1, <1>2, <2>1, <2>2 DEF TypeOK
  <2>4. ~Linked(op.x)
    BY <1>1, <1>3 DEF InitInv
  <2>5. RingInv'
    <3> SUFFICES ASSUME NEW y \in Node, Linked(y)'
                 PROVE  RingAt(y, Settled)'
      BY DEF RingInv
    <3>1. Settled' = [prev EXCEPT ![op.x] = op.x]
      BY <2>1, <2>2 DEF Settled, Adds, Dels, Replaces
    <3>2. Settled = prev
      BY <1>3 DEF Settled, Adds, Dels, Replaces
    <3>3. CASE y = op.x
      BY <1>1, <1>2, <2>1, <3>1, <3>3 DEF RingAt, TypeOK
    <3>4. CASE y # op.x
      <4>1. Linked(y)
        BY <1>1, <1>2, <2>1, <3>4 DEF Linked, TypeOK
      <4>2. RingAt(y, prev)
        BY <1>2, <3>2, <4>1 DEF RingInv
      <4>3. next[y] # op.x /\ prev[y] # op.x
        BY <2>4, <4>1, <4>2 DEF RingAt, Linked
      <4> QED BY <1>1, <1>2, <2>1, <3>1, <3>4, <4>2, <4>3 DEF RingAt, TypeOK
    <3> QED BY <3>3, <3>4
  <2>6. OwnerInv'
    BY <1>1, <1>2, <2>1 DEF IInv, OwnerInv, TypeOK, Node
  <2>7. LoopInv'
    <3>1. \A y \in Node : Linked(y) => owner'[y] = owner[y]
      BY <1>1, <1>2, <2>1, <2>4 DEF TypeOK
    <3>2. loop # None => loop.head \in Node
      BY LoopLinked DEF Node
    <3> QED BY <1>1, <3>1, <3>2, LoopLinked DEF IInv, LoopInv, LoopBase
  <2>8. InitInv'
    BY <1>1, <1>2, <2>1, <2>2, ListAssumption DEF InitInv, Linked, TypeOK
  <2>9. CallInv'
    BY <2>2, <2>8 DEF CallInv, Adds, Dels, Replaces
  <2> QED BY <2>3, <2>5, <2>6, <2>7, <2>9 DEF IInv
<1>4. CASE op.pc = 2
  <2>1. /\ prev' = [prev EXCEPT ![op.x] = op.x] /\ next' = next
        /\ owner' = owner /\ op' = None
    BY <1>4, InitStore
  <2>2. Settled' = Settled
    BY <1>4, <2>1 DEF Settled, Adds, Dels, Replaces
  <2>3. TypeOK'
    BY <1>1, <1>2, <2>1 DEF TypeOK
  <2>4. CallInv'
    BY <2>1 DEF CallInv
  <2> QED BY <1>1, <2>1, <2>2, <2>3, <2>4, QuietStore DEF IInv
<1> QED BY <1>1, <1>3, <1>4

\* The replacements.
LEMMA ReplaceKeeps ==
    ASSUME IInv, op # None, op.fn \in Replaces, Store
    PROVE  IInv'
<1> USE DEF Replaces
<1>1. /\ op \in OpType /\ UNCHANGED loop /\ ReplaceInv /\ op.pc \in 1 .. 4
      /\ op.x \in Node /\ op.at \in Node
  BY DEF IInv, Store, TypeOK, OpType, CallInv
<1>2. TypeOK /\ RingInv /\ OwnerInv /\ None \notin Node
  BY ListAssumption DEF IInv
<1>3. /\ Linked(op.at) /\ ~Linked(op.x) /\ op.x # op.at /\ ~LoopNeeds(op.at)
      /\ op.x \in ListHead <=> op.at \in ListHead
  BY <1>1 DEF ReplaceInv
<1>4. RingAt(op.at, Settled)
  BY <1>1, <1>2, <1>3 DEF RingInv
<1>5. /\ next[op.at] \in Node /\ next[op.at] # op.x
      /\ Settled[next[op.at]] = op.at
  BY <1>3, <1>4 DEF RingAt, Linked
<1>6. CASE op.pc = 1
  <2>1. /\ next' = [next EXCEPT ![op.x] = next[op.at]] /\ prev' = prev
        /\ owner' = owner /\ op' = Before(2)
    BY <1>6, ReplaceStore
  <2>2. /\ op' \in OpType /\ op' # None /\ op'.fn = op.fn /\ op'.x = op.x
        /\ op'.at = op.at /\ op'.pc = 2
    BY <1>1, <2>1, NextStore
  <2>3. Settled' = Settled
    BY <1>6, <2>1, <2>2 DEF Settled, Adds, Dels
  <2>4. TypeOK'
    BY <1>1, <1>2, <1>5, <2>1, <2>2 DEF TypeOK
  <2>5. ReplaceInv'
    BY <1>1, <1>2, <1>3, <2>1, <2>2
       DEF ReplaceInv, Linked, TypeOK, LoopNeeds, LoopBase
  <2>6. CallInv'
    BY <2>2, <2>5 DEF CallInv, Adds, Dels
  <2>7. \A y \in Node : Linked(y) => next'[y] = next[y]
    BY <1>1, <1>2, <1>3, <2>1 DEF TypeOK
  <2> QED BY <1>1, <2>1, <2>3, <2>4, <2>6, <2>7, QuietStore DEF IInv
<1>7. CASE op.pc = 2
  <2>1. /\ prev' = [prev EXCEPT ![next[op.x]] = op.x] /\ next' = next
        /\ owner' = owner /\ op' = Before(3)
    BY <1>7, ReplaceStore
  <2>2. /\ op' \in OpType /\ op' # None /\ op'.fn = op.fn /\ op'.x = op.x
        /\ op'.at = op.at /\ op'.pc = 3
    BY <1>1, <2>1, NextStore
  <2>3. next[op.x] = next[op.at]
    BY <1>1, <1>7 DEF ReplaceInv
  <2>4. \A y \in Node : Settled'[y] = Settled[y]
    <3>1. Settled = prev
      BY <1>7 DEF Settled, Adds, Dels
    <3>2. Settled' = [prev' EXCEPT ![next[op.at]] = op.at]
      <4>1. Settled' = [prev' EXCEPT ![next'[op'.at]] = op'.at]
        BY <2>2 DEF Settled, Adds, Dels
      <4> QED BY <2>1, <2>2, <4>1
    <3> QED BY <1>2, <1>5, <2>1, <2>3, <3>1, <3>2 DEF TypeOK
  <2>5. TypeOK'
    BY <1>1, <1>2, <1>5, <2>1, <2>2 DEF TypeOK
  <2>6. ReplaceInv'
    BY <1>1, <1>2, <1>3, <1>5, <1>7, <2>1, <2>2, <2>3
       DEF ReplaceInv, Linked, TypeOK, LoopNeeds, LoopBase
  <2>7. CallInv'
    BY <2>2, <2>6 DEF CallInv, Adds, Dels
  <2> QED BY <1>1, <2>1, <2>4, <2>5, <2>7, QuietStore DEF IInv
<1>8. CASE op.pc = 3
  <2>1. /\ prev' = [prev EXCEPT ![op.x] = prev[op.at]] /\ next' = next
        /\ owner' = owner /\ op' = Before(4)
    BY <1>8, ReplaceStore
  <2>2. /\ op' \in OpType /\ op' # None /\ op'.fn = op.fn /\ op'.x = op.x
        /\ op'.at = op.at /\ op'.pc = 4
    BY <1>1, <2>1, NextStore
  <2>3. next[op.x] = next[op.at]
    BY <1>1, <1>8 DEF ReplaceInv
  <2>4. \A y \in Node : Linked(y) => Settled'[y] = Settled[y]
    <3>1. Settled = [prev EXCEPT ![next[op.at]] = op.at]
      BY <1>8 DEF Settled, Adds, Dels
    <3>2. Settled' = [prev' EXCEPT ![next[op.at]] = op.at]
      <4>1. Settled' = [prev' EXCEPT ![next'[op'.at]] = op'.at]
        BY <2>2 DEF Settled, Adds, Dels
      <4> QED BY <2>1, <2>2, <4>1
    <3> QED BY <1>1, <1>2, <1>3, <1>5, <2>1, <3>1, <3>2 DEF TypeOK
  <2>5. TypeOK'
    BY <1>1, <1>2, <2>1, <2>2 DEF TypeOK
  <2>6. ReplaceInv'
    BY <1>1, <1>2, <1>3, <1>5, <1>8, <2>1, <2>2, <2>3
       DEF ReplaceInv, Linked, TypeOK, LoopNeeds, LoopBase
  <2>7. CallInv'
    BY <2>2, <2>6 DEF CallInv, Adds, Dels
  <2> QED BY <1>1, <2>1, <2>4, <2>5, <2>7, QuietStore DEF IInv
<1>9. CASE op.pc = 4
  <2>1. /\ next' = [next EXCEPT ![prev[op.x]] = op.x] /\ prev' = prev
        /\ owner' = OwnerReplaced
        /\ op' = IF op.fn = "list_replace_init" THEN InitOld ELSE None
    BY <1>9, ReplaceStore
  <2>2. op.fn = "list_replace_init" =>
          /\ op' \in OpType /\ op' # None /\ op'.fn = "INIT_LIST_HEAD"
          /\ op'.x = op.at /\ op'.pc = 1
    BY <1>1, <2>1, InitOldStore
  <2>3. /\ next[op.x] = next[op.at] /\ prev[next[op.at]] = op.x
        /\ prev[op.x] = prev[op.at]
    BY <1>1, <1>9 DEF ReplaceInv
  <2>4. /\ Settled' = prev
        /\ Settled = [prev EXCEPT ![next[op.at]] = op.at]
    BY <1>9, <2>1, <2>2 DEF Settled, Adds, Dels
  <2>5. TypeOK'
    <3>1. owner' \in [Node -> ListHead \cup {None}]
      BY <1>1, <1>2, <1>3, <2>1 DEF OwnerReplaced, TypeOK, Node
    <3> QED BY <1>1, <1>2, <2>1, <2>2, <3>1 DEF TypeOK
  <2>6. \* One owner goes with the other.
        \A y, z \in Node : /\ y # op.at /\ z # op.at /\ y # op.x /\ z # op.x
                           /\ owner[y] = owner[z]
              => owner'[y] = owner'[z]
    BY <2>1 DEF OwnerReplaced
  <2>7. \A y \in Node : y # op.at /\ y # op.x /\ owner[y] = owner[op.at]
              => owner'[y] = owner'[op.x]
    <3>1. CASE op.x \in Entry
      <4>1. op.at \notin ListHead
        BY <1>3, <3>1, ListAssumption
      <4>2. owner[op.at] # op.at
        BY <1>1, <1>2, <4>1 DEF TypeOK, Node
      <4> QED BY <1>1, <1>3, <2>1, <3>1, <4>2 DEF OwnerReplaced
    <3>2. CASE op.x \notin Entry
      <4>1. op.at \in ListHead
        BY <1>1, <1>3, <3>2 DEF Node
      <4>2. owner[op.at] = op.at
        BY <1>2, <1>3, <4>1 DEF OwnerInv, Linked
      <4> QED BY <1>1, <1>3, <2>1, <3>2, <4>2 DEF OwnerReplaced
    <3> QED BY <3>1, <3>2
  <2>8. prev[op.at] = op.x \/ next[prev[op.at]] = op.at
    <3>1. CASE next[op.at] = op.at
      BY <2>3, <3>1
    <3>2. CASE next[op.at] # op.at
      BY <1>1, <1>2, <1>4, <2>4, <3>2 DEF RingAt, TypeOK
    <3> QED BY <3>1, <3>2
  <2>9. \A y \in Node : y # op.at /\ y # op.x => (Linked(y) <=> Linked(y)')
    BY <1>1, <1>2, <1>3, <2>1 DEF OwnerReplaced, Linked
  <2>10. RingInv'
    <3> SUFFICES ASSUME NEW y \in Node, Linked(y)'
                 PROVE  RingAt(y, Settled)'
      BY DEF RingInv
    <3>1. y # op.at
      BY <1>1, <2>1 DEF Linked, OwnerReplaced
    <3>2. CASE y = op.x
      <4>1. /\ next'[y] \in Node /\ prev[next'[y]] = y
            /\ owner'[next'[y]] = owner'[y]
        <5>1. CASE next[op.at] = op.at
          BY <1>1, <1>2, <2>1, <2>3, <3>2, <5>1 DEF TypeOK
        <5>2. CASE next[op.at] # op.at
          <6>1. prev[op.x] # op.x
            BY <1>1, <1>2, <1>3, <1>4, <2>3, <2>4, <5>2
               DEF RingAt, TypeOK, Linked
          <6>2. next'[y] = next[op.at]
            BY <1>1, <1>2, <2>1, <2>3, <3>2, <6>1 DEF TypeOK
          <6>3. owner[next[op.at]] = owner[op.at]
            BY <1>4 DEF RingAt
          <6> QED BY <1>5, <2>3, <2>7, <3>2, <5>2, <6>2, <6>3
        <5> QED BY <5>1, <5>2
      <4>2. /\ prev[y] \in Node /\ next'[prev[y]] = y
            /\ owner'[prev[y]] = owner'[y]
        <5>1. CASE next[op.at] = op.at
          BY <1>1, <1>2, <2>1, <2>3, <3>2, <5>1 DEF TypeOK
        <5>2. CASE next[op.at] # op.at
          <6>1. prev[op.at] = Settled[op.at]
            BY <1>1, <1>2, <2>4, <5>2 DEF TypeOK
          <6>2. /\ prev[op.at] \in Node /\ owner[prev[op.at]] = owner[op.at]
                /\ next[prev[op.at]] = op.at
            BY <1>4, <6>1 DEF RingAt
          <6>3. prev[op.at] # op.at /\ prev[op.at] # op.x
            BY <1>3, <5>2, <6>2 DEF Linked
          <6> QED BY <1>2, <2>1, <2>3, <2>7, <3>2, <6>2, <6>3 DEF TypeOK
        <5> QED BY <5>1, <5>2
      <4> QED BY <2>1, <2>4, <4>1, <4>2 DEF RingAt
    <3>3. CASE y # op.x
      <4>1. RingAt(y, Settled) /\ Linked(y)
        BY <1>2, <2>9, <3>1, <3>3 DEF RingInv
      <4>2. /\ next[y] \in Node /\ Settled[y] \in Node
            /\ Settled[next[y]] = y /\ next[Settled[y]] = y
            /\ owner[next[y]] = owner[y] /\ owner[Settled[y]] = owner[y]
            /\ next[y] # op.x /\ Settled[y] # op.x
        BY <1>3, <4>1 DEF RingAt, Linked
      <4>3. /\ next'[y] \in Node /\ prev[next'[y]] = y
            /\ owner'[next'[y]] = owner'[y]
        <5>1. CASE next[y] = op.at
          <6>1. y = prev[op.at]
            BY <1>1, <1>2, <1>5, <2>4, <3>1, <4>2, <5>1 DEF TypeOK
          <6>2. next'[y] = op.x
            BY <1>2, <2>1, <2>3, <6>1 DEF TypeOK
          <6> QED BY <1>1, <2>3, <2>7, <3>1, <3>3, <4>2, <5>1, <6>1, <6>2
        <5>2. CASE next[y] # op.at
          <6>1. y # prev[op.x] /\ next[y] # next[op.at]
            BY <1>5, <2>3, <2>8, <3>1, <3>3, <4>2, <5>2
          <6>2. next'[y] = next[y] /\ prev[next[y]] = Settled[next[y]]
            BY <1>2, <2>1, <2>4, <4>2, <6>1 DEF TypeOK
          <6> QED BY <2>6, <3>1, <3>3, <4>2, <5>2, <6>2
        <5> QED BY <5>1, <5>2
      <4>4. /\ prev[y] \in Node /\ next'[prev[y]] = y
            /\ owner'[prev[y]] = owner'[y]
        <5>1. CASE y = next[op.at]
          <6>1. prev[y] = op.x /\ op.at # next[op.at]
            BY <2>3, <3>1, <5>1
          <6>2. prev[op.x] # op.x
            BY <1>1, <1>2, <1>3, <1>4, <2>3, <2>4, <6>1
               DEF RingAt, TypeOK, Linked
          <6>3. next'[op.x] = y
            BY <1>1, <1>2, <2>1, <2>3, <5>1, <6>2 DEF TypeOK
          <6>4. owner[y] = owner[op.at]
            BY <1>4, <5>1 DEF RingAt
          <6> QED BY <1>1, <2>7, <3>1, <3>3, <6>1, <6>3, <6>4
        <5>2. CASE y # next[op.at]
          <6>1. prev[y] = Settled[y] /\ prev[y] # op.at
            BY <1>2, <2>4, <4>2, <5>2 DEF TypeOK
          <6>2. prev[y] # prev[op.x]
            BY <2>3, <2>8, <3>1, <4>2, <6>1
          <6>3. next'[prev[y]] = next[prev[y]]
            BY <1>2, <2>1, <4>2, <6>1, <6>2 DEF TypeOK
          <6> QED BY <2>6, <3>1, <3>3, <4>2, <6>1, <6>3
        <5> QED BY <5>1, <5>2
      <4> QED BY <2>1, <2>4, <4>3, <4>4 DEF RingAt
    <3> QED BY <3>2, <3>3
  <2>11. OwnerInv'
    BY <1>1, <1>2, <1>3, <2>1, ListAssumption
       DEF OwnerInv, OwnerReplaced, Node
  <2>12. LoopInv'
    <3>1. loop # None =>
            /\ loop.head \in Node /\ LoopBase \in Node
            /\ loop.head # op.at /\ LoopBase # op.at
            /\ loop.head # op.x /\ LoopBase # op.x
      BY <1>3, LoopLinked DEF Node, LoopNeeds
    <3>2. loop # None => owner'[loop.head] = loop.head
                         /\ owner'[LoopBase] = loop.head
      BY <2>1, <3>1 DEF IInv, LoopInv, OwnerReplaced
    <3> QED BY <1>1, <3>2 DEF LoopInv, LoopBase
  <2>13. CallInv'
    <3>1. CASE op.fn = "list_replace_init"
      <4>1. ~Linked(op.x)'
        BY <1>1, <2>1, <2>2, <3>1 DEF Linked, OwnerReplaced
      <4> QED BY <2>2, <3>1, <4>1 DEF CallInv, InitInv, Adds, Dels
    <3>2. CASE op.fn # "list_replace_init"
      BY <2>1, <3>2 DEF CallInv
    <3> QED BY <3>1, <3>2
  <2> QED BY <2>5, <2>10, <2>11, <2>12, <2>13 DEF IInv
<1> QED BY <1>1, <1>6, <1>7, <1>8, <1>9

\* A step that leaves pointers, owners and loop alone keeps the lists, if the
\* call it begins knows what it has to.
LEMMA CallKeeps ==
    ASSUME IInv, NEW fn \in Function, NEW x \in Node, NEW at \in Node,
           NEW p \in Node, NEW n \in Node, Call(fn, x, at, p, n), CallInv'
    PROVE  IInv'
<1>1. /\ op = None
      /\ op' = [fn |-> fn, x |-> x, at |-> at, p |-> p, n |-> n, pc |-> 1]
      /\ UNCHANGED <<next, prev, loop, owner>>
  BY DEF Call, links
<1>2. op' \in OpType
  BY <1>1 DEF OpType
<1>3. op' # None /\ op'.pc = 1
  BY <1>1, <1>2, ListAssumption
<1>4. TypeOK'
  BY <1>1, <1>2 DEF IInv, TypeOK
<1>5. Settled' = Settled
  BY <1>1, <1>3 DEF Settled
<1> QED BY <1>1, <1>4, <1>5, QuietStore DEF IInv

\* Every call begins with what CallInv says of its first store.
LEMMA CallsKeep ==
    ASSUME IInv,
           \/ \E x \in Node : init_list_head(x)
           \/ \E new \in Entry, head \in Node :
                 list_add(new, head) \/ list_add_tail(new, head)
           \/ \E entry \in Entry, fn \in {"list_del", "__list_del_clearprev"} :
                 list_del(fn, entry)
           \/ \E old, new \in Node, fn \in {"list_replace", "list_replace_init"} :
                 Replace(fn, old, new)
    PROVE  IInv'
<1> USE DEF Function
<1>1. /\ TypeOK /\ None \notin OpType /\ Entry \subseteq Node
      /\ ListHead \cap Entry = {}
  BY ListAssumption DEF IInv, Node
<1>2. op = None => \A y \in Node : Linked(y) =>
          /\ next[y] \in Node /\ prev[y] \in Node /\ next[prev[y]] = y
          /\ owner[next[y]] = owner[y] /\ owner[prev[y]] = owner[y]
  BY DEF IInv, RingInv, RingAt, Settled
<1>3. ASSUME NEW x \in Node, init_list_head(x) PROVE IInv'
  <2>1. Call("INIT_LIST_HEAD", x, x, x, x) /\ ~Linked(x)
    BY <1>3 DEF init_list_head
  <2>2. op'.fn = "INIT_LIST_HEAD" /\ op'.x = x /\ op'.pc = 1 /\ owner' = owner
    BY <2>1 DEF Call
  <2>3. CallInv'
    BY <2>1, <2>2 DEF CallInv, InitInv, Adds, Dels, Replaces, Linked
  <2> QED BY <2>1, <2>3, CallKeeps
<1>4. ASSUME NEW new \in Entry, NEW head \in Node, list_add(new, head)
      PROVE  IInv'
  <2>1. /\ Call("list_add", new, head, head, next[head])
        /\ ~Linked(new) /\ Linked(head) /\ op = None
    BY <1>4 DEF list_add, Call
  <2>2. /\ op'.fn = "list_add" /\ op'.x = new /\ op'.at = head
        /\ op'.p = head /\ op'.n = next[head] /\ op'.pc = 1
        /\ UNCHANGED <<next, prev, owner>>
    BY <2>1 DEF Call, links
  <2>3. CallInv'
    BY <1>2, <2>1, <2>2 DEF CallInv, AddInv, Adds, Dels, Replaces, Linked
  <2> QED BY <1>1, <1>2, <2>1, <2>3, CallKeeps
<1>5. ASSUME NEW new \in Entry, NEW head \in Node, list_add_tail(new, head)
      PROVE  IInv'
  <2>1. /\ Call("list_add_tail", new, head, prev[head], head)
        /\ ~Linked(new) /\ Linked(head) /\ op = None
    BY <1>5 DEF list_add_tail, Call
  <2>2. /\ op'.fn = "list_add_tail" /\ op'.x = new /\ op'.at = head
        /\ op'.p = prev[head] /\ op'.n = head /\ op'.pc = 1
        /\ UNCHANGED <<next, prev, owner>>
    BY <2>1 DEF Call, links
  <2>3. CallInv'
    BY <1>2, <2>1, <2>2 DEF CallInv, AddInv, Adds, Dels, Replaces, Linked
  <2> QED BY <1>1, <1>2, <2>1, <2>3, CallKeeps
<1>6. ASSUME NEW entry \in Entry, NEW fn \in {"list_del", "__list_del_clearprev"},
             list_del(fn, entry)
      PROVE  IInv'
  <2>1. /\ Call(fn, entry, entry, prev[entry], next[entry])
        /\ Linked(entry) /\ ~LoopNeeds(entry) /\ op = None
    BY <1>6 DEF list_del, Call
  <2>2. /\ op'.fn = fn /\ op'.x = entry /\ op'.p = prev[entry]
        /\ op'.n = next[entry] /\ op'.pc = 1
        /\ UNCHANGED <<next, prev, owner, loop>>
    BY <2>1 DEF Call, links
  <2>3. Settled' = prev
    BY <2>2 DEF Settled, Adds
  <2>4. DelInv'
    BY <2>1, <2>2, <2>3 DEF DelInv, Linked, LoopNeeds, LoopBase
  <2>5. CallInv'
    BY <2>2, <2>4 DEF CallInv, Adds, Dels, Replaces
  <2> QED BY <1>1, <1>2, <2>1, <2>5, CallKeeps
<1>7. ASSUME NEW old \in Node, NEW new \in Node,
             NEW fn \in {"list_replace", "list_replace_init"},
             Replace(fn, old, new)
      PROVE  IInv'
  <2>1. /\ Call(fn, new, old, old, old) /\ Linked(old) /\ ~Linked(new)
        /\ ~LoopNeeds(old)
        /\ new \in ListHead <=> old \in ListHead
    BY <1>7 DEF Replace
  <2>2. /\ op'.fn = fn /\ op'.x = new /\ op'.at = old /\ op'.pc = 1
        /\ UNCHANGED <<next, prev, owner, loop>>
    BY <2>1 DEF Call, links
  <2>3. ReplaceInv'
    BY <2>1, <2>2 DEF ReplaceInv, Linked, LoopNeeds, LoopBase
  <2>4. CallInv'
    BY <2>2, <2>3 DEF CallInv, Adds, Dels, Replaces
  <2> QED BY <2>1, <2>4, CallKeeps
<1> QED BY <1>3, <1>4, <1>5, <1>6, <1>7

\* A loop that begins or goes on stays on its list, since what is linked to a
\* node of a list is on the same one.
LEMMA LoopsKeep ==
    ASSUME IInv,
           \/ Advance
           \/ \E h \in ListHead, from \in Node, dir \in {"next", "prev"},
                 safe \in BOOLEAN : list_for_each(h, from, dir, safe)
    PROVE  IInv'
<1>1. TypeOK /\ op = None /\ UNCHANGED <<next, prev, op, owner>>
  BY DEF IInv, Advance, list_for_each, links
<1>2. \A y \in Node, dir \in {"next", "prev"} : Linked(y) =>
          Follow(y, dir) \in Node /\ owner[Follow(y, dir)] = owner[y]
  BY <1>1, ListAssumption DEF IInv, RingInv, RingAt, Settled, Follow
<1>3. Settled' = Settled /\ RingInv' /\ OwnerInv' /\ CallInv'
  <2>1. Settled' = Settled
    BY <1>1 DEF Settled
  <2> QED BY <1>1, <2>1 DEF IInv, RingInv, RingAt, OwnerInv, CallInv, Linked
<1>4. CASE Advance
  <2>1. loop # None /\ loop \in LoopType
    BY <1>1, <1>4 DEF Advance, TypeOK
  <2>2. /\ loop.dir \in {"next", "prev"} /\ loop.safe \in BOOLEAN
        /\ loop.head \in ListHead /\ loop.head \in Node
        /\ loop.pos \in Node /\ loop.n \in Node
    BY <2>1 DEF LoopType, Node
  <2>3. Linked(LoopBase) /\ owner[LoopBase] = loop.head
        /\ owner[loop.head] = loop.head
    BY <2>1, LoopLinked DEF IInv, LoopInv
  <2>4. Successor \in Node /\ owner[Successor] = loop.head
    BY <1>2, <2>2, <2>3 DEF Successor, LoopBase
  <2> DEFINE q == Successor
             m == IF loop.safe THEN Follow(q, loop.dir) ELSE loop.head
  <2>5. Linked(q)
    BY <2>3, <2>4 DEF Linked
  <2>6. m \in Node /\ owner[m] = loop.head
    BY <1>2, <2>2, <2>3, <2>4, <2>5
  <2>7. CASE q = loop.head
    <3>1. loop' = None
      BY <1>4, <2>7 DEF Advance
    <3> QED BY <1>1, <1>3, <3>1 DEF IInv, TypeOK, LoopInv
  <2>8. CASE q # loop.head
    <3>1. loop' = [loop EXCEPT !.pos = q, !.body = TRUE, !.n = m]
      BY <1>4, <2>8 DEF Advance
    <3> HIDE DEF q, m
    <3>2. /\ loop' \in LoopType /\ loop'.head = loop.head
          /\ loop'.safe = loop.safe /\ loop'.pos = q /\ loop'.n = m
      BY <2>1, <2>4, <2>6, <3>1 DEF LoopType, q
    <3>3. LoopInv'
      BY <1>1, <2>3, <2>4, <2>6, <3>2 DEF LoopInv, LoopBase, q
    <3> QED BY <1>1, <1>3, <3>2, <3>3 DEF IInv, TypeOK
  <2> QED BY <2>7, <2>8
<1>5. ASSUME NEW h \in ListHead, NEW from \in Node, NEW dir \in {"next", "prev"},
             NEW safe \in BOOLEAN, list_for_each(h, from, dir, safe)
      PROVE  IInv'
  <2> DEFINE m == IF safe THEN Follow(from, dir) ELSE h
  <2>1. /\ owner[from] = h /\ Linked(h)
        /\ loop' = [head |-> h, dir |-> dir, safe |-> safe, pos |-> from,
                    n |-> m, body |-> FALSE]
    BY <1>5 DEF list_for_each
  <2>2. h # None /\ h \in Node /\ Linked(from)
    BY <2>1, ListAssumption DEF Node, Linked
  <2>3. owner[h] = h
    BY <2>1 DEF IInv, OwnerInv, Linked
  <2>4. m \in Node /\ owner[m] = h
    BY <1>2, <2>1, <2>2, <2>3
  <2> HIDE DEF m
  <2>5. /\ loop' \in LoopType /\ loop'.head = h /\ loop'.safe = safe
        /\ loop'.pos = from /\ loop'.n = m
    BY <2>1, <2>4 DEF LoopType
  <2>6. LoopInv'
    BY <1>1, <2>1, <2>3, <2>4, <2>5 DEF LoopInv, LoopBase
  <2> QED BY <1>1, <1>3, <2>5, <2>6 DEF IInv, TypeOK
<1> QED BY <1>4, <1>5

-----------------------------------------------------------------------------
(* The theorems                                                            *)

\* LIST_HEAD()s are empty lists, and nothing else is on one.
LEMMA InitIInv == ASSUME Init PROVE IInv
<1>1. PICK S \in SUBSET ListHead :
        /\ next  = [x \in Node |-> IF x \in S THEN x ELSE NULL]
        /\ prev  = next
        /\ owner = [x \in Node |-> IF x \in S THEN x ELSE None]
  BY DEF Init
<1>2. op = None /\ loop = None
  BY DEF Init
<1>3. TypeOK
  BY <1>1, <1>2 DEF TypeOK, Node
<1>4. RingInv
  <2>1. Settled = prev
    BY <1>2 DEF Settled
  <2> QED BY <1>1, <2>1 DEF RingInv, RingAt, Linked
<1>5. OwnerInv
  BY <1>1 DEF OwnerInv, Node
<1> QED BY <1>2, <1>3, <1>4, <1>5 DEF IInv, LoopInv, CallInv

\* Every step preserves the invariant.
LEMMA NextIInv == ASSUME IInv, [Next]_vars PROVE IInv'
<1>1. CASE Store
  <2>1. op # None /\ op.fn \in Function
    BY <1>1 DEF Store, IInv, TypeOK, OpType
  <2> QED BY <1>1, <2>1, AddKeeps, DelKeeps, ReplaceKeeps, InitKeeps
          DEF Function, Adds, Dels, Replaces
<1>2. CASE UNCHANGED vars
  <2>1. UNCHANGED <<next, prev, op, loop, owner>>
    BY <1>2 DEF vars, links
  <2>2. Settled' = Settled
    BY <2>1 DEF Settled
  <2>3. TypeOK'
    BY <2>1 DEF IInv, TypeOK
  <2>4. CallInv'
    BY <2>1, <2>2 DEF IInv, CallInv, AddInv, DelInv, ReplaceInv, InitInv,
                      Linked, LoopNeeds, LoopBase
  <2> QED BY <2>1, <2>2, <2>3, <2>4, QuietStore DEF IInv
<1> QED BY <1>1, <1>2, CallsKeep, LoopsKeep DEF Next

\* The pointers of every list are known at every store of every call.
THEOREM PointersKnown == Spec => []IInv
<1> QED BY InitIInv, NextIInv, PTL DEF Spec

\* Types; a loop's cursor is never NULL.
THEOREM ListTypes == Spec => []TypeOK
<1>1. IInv => TypeOK
  BY DEF IInv
<1> QED BY <1>1, PointersKnown, PTL

\* Between calls both directions of every list agree and stay on the list,
\* for any number of heads and entries and any calls and loops of them.
THEOREM ListsMirrored == Spec => []Mirrored
<1>1. IInv => Mirrored
  BY DEF IInv, RingInv, LoopInv, Settled, Mirrored
<1> QED BY <1>1, PointersKnown, PTL

-----------------------------------------------------------------------------
(* Sequences of entries                                                    *)

\* What a sequence has; one without repetitions.
Has(s, e) == \E k \in 1 .. Len(s) : s[k] = e
Distinct(s) ==
    s \in Seq(Entry) /\ \A i, j \in 1 .. Len(s) : s[i] = s[j] => i = j

\* One sequence behind another.
LEMMA CatIs ==
    ASSUME NEW a \in Seq(Entry), NEW b \in Seq(Entry)
    PROVE  /\ a \o b \in Seq(Entry) /\ Len(a \o b) = Len(a) + Len(b)
           /\ \A k \in 1 .. Len(a) + Len(b) :
                 (a \o b)[k] = IF k <= Len(a) THEN a[k] ELSE b[k - Len(a)]
OBVIOUS

\* An entry x is put in behind place i.
WithInsert(t, s, i, x) ==
    /\ t \in Seq(Entry) /\ Len(t) = Len(s) + 1
    /\ \A k \in 1 .. Len(s) + 1 :
          t[k] = IF k <= i THEN s[k] ELSE IF k = i + 1 THEN x ELSE s[k - 1]

LEMMA InsertAtIs ==
    ASSUME NEW s \in Seq(Entry), NEW i \in 0 .. Len(s), NEW x \in Entry
    PROVE  WithInsert(InsertAt(s, i + 1, x), s, i, x)
<1> DEFINE a == SubSeq(s, 1, i)
           b == SubSeq(s, i + 1, Len(s))
<1>1. Len(s) \in Nat
  OBVIOUS
<1>2. /\ a \in Seq(Entry) /\ Len(a) = i
      /\ \A k \in 1 .. i : a[k] = s[k]
  BY <1>1
<1>3. /\ b \in Seq(Entry) /\ Len(b) = Len(s) - i
      /\ \A k \in 1 .. Len(s) - i : b[k] = s[k + i]
  BY <1>1
<1> HIDE DEF a, b
<1>4. /\ a \o <<x>> \in Seq(Entry) /\ Len(a \o <<x>>) = i + 1
      /\ \A k \in 1 .. i + 1 : (a \o <<x>>)[k] = IF k <= i THEN s[k] ELSE x
  BY <1>1, <1>2
<1> DEFINE c == a \o <<x>>
<1> HIDE DEF c
<1>5. /\ c \in Seq(Entry) /\ Len(c) = i + 1
      /\ \A k \in 1 .. i + 1 : c[k] = IF k <= i THEN s[k] ELSE x
  BY <1>4 DEF c
<1>6. /\ c \o b \in Seq(Entry) /\ Len(c \o b) = Len(s) + 1
      /\ \A k \in 1 .. Len(s) + 1 : (c \o b)[k] =
            IF k <= i THEN s[k] ELSE IF k = i + 1 THEN x ELSE s[k - 1]
  <2>1. /\ c \o b \in Seq(Entry) /\ Len(c \o b) = Len(s) + 1
        /\ \A k \in 1 .. Len(s) + 1 : (c \o b)[k] =
              IF k <= i + 1 THEN c[k] ELSE b[k - (i + 1)]
    BY <1>1, <1>3, <1>5
  <2>2. \A k \in 1 .. Len(s) + 1 : k > i + 1 => b[k - (i + 1)] = s[k - 1]
    <3> SUFFICES ASSUME NEW k \in 1 .. Len(s) + 1, k > i + 1
                 PROVE  b[k - (i + 1)] = s[k - 1]
      OBVIOUS
    <3>1. k - (i + 1) \in 1 .. Len(s) - i /\ (k - (i + 1)) + i = k - 1
      BY <1>1
    <3> QED BY <1>3, <3>1
  <2> QED BY <1>1, <1>5, <2>1, <2>2
<1>8. (i + 1) - 1 = i
  OBVIOUS
<1>9. InsertAt(s, i + 1, x) = c \o b
  BY <1>8 DEF InsertAt, a, b, c
<1> DEFINE u == c \o b
<1> HIDE DEF u
<1>10. /\ u \in Seq(Entry) /\ Len(u) = Len(s) + 1
       /\ \A k \in 1 .. Len(s) + 1 :
             u[k] = IF k <= i THEN s[k] ELSE IF k = i + 1 THEN x ELSE s[k - 1]
  BY <1>6 DEF u
<1>11. InsertAt(s, i + 1, x) = u
  BY <1>9 DEF u
<1> QED BY <1>10, <1>11 DEF WithInsert

\* What a sequence has, with an entry put in, or one for another.
LEMMA HasInsert ==
    ASSUME NEW s \in Seq(Entry), NEW i \in 0 .. Len(s), NEW x \in Entry
    PROVE  \A e : Has(InsertAt(s, i + 1, x), e) <=> e = x \/ Has(s, e)
<1> SUFFICES ASSUME NEW e, NEW t, t = InsertAt(s, i + 1, x)
             PROVE  Has(t, e) <=> e = x \/ Has(s, e)
  OBVIOUS
<1>1. Len(s) \in Nat
  OBVIOUS
<1>2. /\ Len(t) = Len(s) + 1
      /\ \A k \in 1 .. Len(s) + 1 :
            t[k] = IF k <= i THEN s[k] ELSE IF k = i + 1 THEN x ELSE s[k - 1]
  <2>1. WithInsert(t, s, i, x)
    BY InsertAtIs
  <2> QED BY <2>1 DEF WithInsert
<1>3. ASSUME Has(t, e) PROVE e = x \/ Has(s, e)
  <2>1. PICK k \in 1 .. Len(t) : t[k] = e
    BY <1>3 DEF Has
  <2>2. k <= i => k \in 1 .. Len(s) /\ s[k] = e
    BY <1>1, <1>2, <2>1
  <2>3. k > i + 1 => k - 1 \in 1 .. Len(s) /\ s[k - 1] = e
    BY <1>1, <1>2, <2>1
  <2> QED BY <1>1, <1>2, <2>1, <2>2, <2>3 DEF Has
<1>4. t[i + 1] = x /\ i + 1 \in 1 .. Len(t)
  BY <1>1, <1>2
<1>5. ASSUME Has(s, e) PROVE Has(t, e)
  <2>1. PICK k \in 1 .. Len(s) : s[k] = e
    BY <1>5 DEF Has
  <2>2. k <= i => k \in 1 .. Len(t) /\ t[k] = e
    BY <1>1, <1>2, <2>1
  <2>3. k > i => k + 1 \in 1 .. Len(t) /\ t[k + 1] = e
    <3> SUFFICES ASSUME k > i PROVE k + 1 \in 1 .. Len(t) /\ t[k + 1] = e
      OBVIOUS
    <3>1. k + 1 \in 1 .. Len(s) + 1 /\ ~(k + 1 <= i) /\ k + 1 # i + 1
          /\ (k + 1) - 1 = k
      BY <1>1
    <3> QED BY <1>2, <2>1, <3>1
  <2> QED BY <1>1, <2>1, <2>2, <2>3 DEF Has
<1> QED BY <1>3, <1>4, <1>5 DEF Has

\* The entry at place i goes.
LEMMA RemoveFirstIs ==
    ASSUME NEW s \in Seq(Entry), NEW i \in 1 .. Len(s),
           \A k \in 1 .. Len(s) : s[k] = s[i] => k = i
    PROVE  LET t == RemoveFirst(s, s[i]) IN
           /\ t \in Seq(Entry) /\ Len(t) = Len(s) - 1
           /\ \A k \in 1 .. Len(s) - 1 : t[k] = IF k < i THEN s[k] ELSE s[k + 1]
<1> DEFINE a == SubSeq(s, 1, i - 1)
           b == SubSeq(s, i + 1, Len(s))
           I == {k \in 1 .. Len(s) : s[k] = s[i]}
<1>1. Len(s) \in Nat
  OBVIOUS
<1>2. I = {i}
  OBVIOUS
<1>3. SelectInSeq(s, LAMBDA v : v = s[i]) = i
  <2>1. SelectInSeq(s, LAMBDA v : v = s[i]) = IF I # {} THEN Min(I) ELSE 0
    BY DEF SelectInSeq
  <2>2. Min({i}) = i
    BY DEF Min
  <2> QED BY <1>2, <2>1, <2>2
<1>4. RemoveFirst(s, s[i]) = RemoveAt(s, i)
  BY <1>3 DEF RemoveFirst
<1>5. RemoveAt(s, i) = a \o b
  BY DEF RemoveAt
<1>6. /\ a \in Seq(Entry) /\ Len(a) = i - 1
      /\ \A k \in 1 .. i - 1 : a[k] = s[k]
  BY <1>1
<1>7. /\ b \in Seq(Entry) /\ Len(b) = Len(s) - i
      /\ \A k \in 1 .. Len(s) - i : b[k] = s[k + i]
  BY <1>1
<1> HIDE DEF a, b
<1>8. /\ a \o b \in Seq(Entry) /\ Len(a \o b) = Len(s) - 1
      /\ \A k \in 1 .. Len(s) - 1 : (a \o b)[k] =
            IF k < i THEN a[k] ELSE b[k - (i - 1)]
  <2>1. Len(s) - 1 = Len(a) + Len(b)
    BY <1>1, <1>6, <1>7
  <2>2. /\ a \o b \in Seq(Entry) /\ Len(a \o b) = Len(a) + Len(b)
        /\ \A k \in 1 .. Len(a) + Len(b) : (a \o b)[k] =
              IF k <= Len(a) THEN a[k] ELSE b[k - Len(a)]
    BY <1>6, <1>7, CatIs
  <2>3. \A k \in 1 .. Len(s) - 1 : k <= i - 1 <=> k < i
    BY <1>1
  <2>4. \A k \in 1 .. Len(s) - 1 : (a \o b)[k] = IF k < i THEN a[k] ELSE b[k - (i - 1)]
    <3> DEFINE u == a \o b
    <3> HIDE DEF u
    <3>1. \A k \in 1 .. Len(s) - 1 : u[k] = IF k <= Len(a) THEN a[k] ELSE b[k - Len(a)]
      BY <2>1, <2>2 DEF u
    <3> QED BY <1>6, <2>3, <3>1 DEF u
  <2> QED BY <2>1, <2>2, <2>4
<1>9. \A k \in 1 .. Len(s) - 1 : k >= i => b[k - (i - 1)] = s[k + 1]
  <2> SUFFICES ASSUME NEW k \in 1 .. Len(s) - 1, k >= i
               PROVE  b[k - (i - 1)] = s[k + 1]
    OBVIOUS
  <2>1. k - (i - 1) \in 1 .. Len(s) - i /\ (k - (i - 1)) + i = k + 1
    BY <1>1
  <2> QED BY <1>7, <2>1
<1>10. \A k \in 1 .. Len(s) - 1 : (a \o b)[k] = IF k < i THEN s[k] ELSE s[k + 1]
  BY <1>1, <1>6, <1>8, <1>9
<1> QED BY <1>4, <1>5, <1>8, <1>10

\* Nothing goes from a sequence that does not have it.
LEMMA RemoveNone ==
    ASSUME NEW d \in Seq(Entry), NEW x, ~Has(d, x)
    PROVE  RemoveFirst(d, x) = d
<1> DEFINE I == {k \in 1 .. Len(d) : d[k] = x}
<1>1. I = {}
  BY DEF Has
<1>2. SelectInSeq(d, LAMBDA v : v = x) = IF I # {} THEN Min(I) ELSE 0
  BY DEF SelectInSeq
<1> QED BY <1>1, <1>2 DEF RemoveFirst

\* r has its entries in the order in which d has them.
InOrderOf(r, d) ==
    \A j, k \in 1 .. Len(r) : j < k =>
        \E a, b \in 1 .. Len(d) : a < b /\ r[j] = d[a] /\ r[k] = d[b]

\* What goes leaves the others in their order.
LEMMA RemoveOrder ==
    ASSUME NEW d, Distinct(d), NEW x, NEW r, r = RemoveFirst(d, x)
    PROVE  /\ r \in Seq(Entry)
           /\ \A e : Has(r, e) <=> e # x /\ Has(d, e)
           /\ InOrderOf(r, d)
<1>0. d \in Seq(Entry) /\ \A i, j \in 1 .. Len(d) : d[i] = d[j] => i = j
  BY DEF Distinct
<1>1. CASE ~Has(d, x)
  <2>1. RemoveFirst(d, x) = d
    BY <1>0, <1>1, RemoveNone
  <2> QED BY <1>0, <1>1, <2>1 DEF InOrderOf
<1>2. CASE Has(d, x)
  <2>1. PICK i \in 1 .. Len(d) : d[i] = x
    BY <1>2 DEF Has
  <2>3. Len(d) \in Nat
    BY <1>0
  <2>4. /\ r \in Seq(Entry) /\ Len(r) = Len(d) - 1
        /\ \A k \in 1 .. Len(d) - 1 : r[k] = IF k < i THEN d[k] ELSE d[k + 1]
    BY <1>0, <2>1, RemoveFirstIs
  <2>5. ASSUME NEW e PROVE Has(r, e) <=> e # x /\ Has(d, e)
    <3>1. \A k \in 1 .. Len(r) : r[k] # x /\ Has(d, r[k])
      <4> SUFFICES ASSUME NEW k \in 1 .. Len(r) PROVE r[k] # x /\ Has(d, r[k])
        OBVIOUS
      <4> DEFINE a == IF k < i THEN k ELSE k + 1
      <4>1. a \in 1 .. Len(d) /\ a # i /\ r[k] = d[a]
        BY <2>1, <2>3, <2>4
      <4> HIDE DEF a
      <4> QED BY <1>0, <2>1, <4>1 DEF Has
    <3>2. \A k \in 1 .. Len(d) : k # i => \E j \in 1 .. Len(r) : r[j] = d[k]
      <4> SUFFICES ASSUME NEW k \in 1 .. Len(d), k # i
                   PROVE  \E j \in 1 .. Len(r) : r[j] = d[k]
        OBVIOUS
      <4>1. k < i => k \in 1 .. Len(r) /\ r[k] = d[k]
        BY <2>3, <2>4
      <4>2. k > i => k - 1 \in 1 .. Len(r) /\ r[k - 1] = d[k]
        <5> SUFFICES ASSUME k > i PROVE k - 1 \in 1 .. Len(r) /\ r[k - 1] = d[k]
          OBVIOUS
        <5>1. k - 1 \in 1 .. Len(d) - 1 /\ ~(k - 1 < i) /\ (k - 1) + 1 = k
          BY <2>3
        <5> QED BY <2>4, <5>1
      <4> QED BY <2>3, <4>1, <4>2
    <3>3. ASSUME e # x, Has(d, e) PROVE Has(r, e)
      <4>1. PICK k \in 1 .. Len(d) : d[k] = e
        BY <3>3 DEF Has
      <4> QED BY <2>1, <3>2, <3>3, <4>1 DEF Has
    <3>4. ASSUME Has(r, e) PROVE e # x /\ Has(d, e)
      BY <3>1, <3>4 DEF Has
    <3> QED BY <3>3, <3>4
  <2>6. ASSUME NEW j \in 1 .. Len(r), NEW k \in 1 .. Len(r), j < k
        PROVE  \E a, b \in 1 .. Len(d) : a < b /\ r[j] = d[a] /\ r[k] = d[b]
    <3> DEFINE a == IF j < i THEN j ELSE j + 1
               b == IF k < i THEN k ELSE k + 1
    <3>1. a \in 1 .. Len(d) /\ b \in 1 .. Len(d) /\ a < b
      BY <2>1, <2>3, <2>4, <2>6
    <3>2. r[j] = d[a] /\ r[k] = d[b]
      BY <2>1, <2>3, <2>4
    <3> HIDE DEF a, b
    <3> QED BY <3>1, <3>2
  <2> QED BY <2>4, <2>5, <2>6 DEF InOrderOf
<1> QED BY <1>1, <1>2

\* The first of a sequence without repetitions goes.
LEMMA TailIs ==
    ASSUME NEW d, Distinct(d), d # <<>>, NEW r, r = Tail(d)
    PROVE  /\ r \in Seq(Entry)
           /\ \A e : Has(r, e) <=> e # Head(d) /\ Has(d, e)
           /\ InOrderOf(r, d)
<1>1. /\ d \in Seq(Entry) /\ Len(d) \in Nat
      /\ \A i, j \in 1 .. Len(d) : d[i] = d[j] => i = j
  BY DEF Distinct
<1>2. /\ r \in Seq(Entry) /\ Len(r) = Len(d) - 1 /\ Len(d) > 0
      /\ Head(d) = d[1]
      /\ \A k \in 1 .. Len(d) - 1 : r[k] = d[k + 1]
  BY <1>1
<1>3. \A k \in 1 .. Len(d) - 1 : k + 1 \in 1 .. Len(d) /\ k + 1 # 1
  BY <1>1
<1>4. ASSUME NEW e PROVE Has(r, e) <=> e # Head(d) /\ Has(d, e)
  <2>1. ASSUME Has(r, e) PROVE e # Head(d) /\ Has(d, e)
    <3>1. PICK k \in 1 .. Len(d) - 1 : r[k] = e
      BY <1>2, <2>1 DEF Has
    <3>2. d[k + 1] = e /\ 1 \in 1 .. Len(d)
      BY <1>1, <1>2, <3>1
    <3> QED BY <1>1, <1>2, <1>3, <3>2 DEF Has
  <2>2. ASSUME e # Head(d), Has(d, e) PROVE Has(r, e)
    <3>1. PICK k \in 1 .. Len(d) : d[k] = e
      BY <2>2 DEF Has
    <3>2. k - 1 \in 1 .. Len(d) - 1 /\ (k - 1) + 1 = k
      BY <1>1, <1>2, <2>2, <3>1
    <3>3. r[k - 1] = e
      BY <1>2, <3>1, <3>2
    <3> QED BY <1>2, <3>2, <3>3 DEF Has
  <2> QED BY <2>1, <2>2
<1>5. InOrderOf(r, d)
  <2> SUFFICES ASSUME NEW j \in 1 .. Len(r), NEW k \in 1 .. Len(r), j < k
               PROVE  \E a, b \in 1 .. Len(d) : a < b /\ r[j] = d[a] /\ r[k] = d[b]
    BY DEF InOrderOf
  <2>1. r[j] = d[j + 1] /\ r[k] = d[k + 1]
    BY <1>2
  <2>2. j + 1 \in 1 .. Len(d) /\ k + 1 \in 1 .. Len(d) /\ j + 1 < k + 1
    BY <1>1, <1>2
  <2> QED BY <2>1, <2>2
<1> QED BY <1>2, <1>4, <1>5

\* What is on no list that is looped over is not due.
LEMMA ReplaceNone ==
    ASSUME NEW d \in Seq(Entry), NEW a, NEW x, ~Has(d, a) \/ a = x
    PROVE  ReplaceAll(d, a, x) = d
BY DEF ReplaceAll, Has

\* What a sequence has, with x for a.
LEMMA HasReplace ==
    ASSUME NEW s \in Seq(Entry), NEW a \in Entry, NEW x \in Entry,
           Has(s, a), ~Has(s, x)
    PROVE  \A e : Has(ReplaceAll(s, a, x), e) <=> e = x \/ (e # a /\ Has(s, e))
<1> SUFFICES ASSUME NEW e, NEW t, t = ReplaceAll(s, a, x)
             PROVE  Has(t, e) <=> e = x \/ (e # a /\ Has(s, e))
  OBVIOUS
<1>1. /\ Len(t) = Len(s)
      /\ \A k \in 1 .. Len(s) : t[k] = IF s[k] = a THEN x ELSE s[k]
  BY DEF ReplaceAll
<1> QED BY <1>1 DEF Has

-----------------------------------------------------------------------------
(* Rings, and what a walk finds of them                                    *)

\* A set of numbers that is not empty has a least one.
LEMMA LeastNumber ==
    ASSUME NEW T, T \subseteq Nat, T # {}
    PROVE  \E x \in T : \A y \in T : x <= y
<1> DEFINE R == OpToRel(<, Nat)
<1>1. IsWellFoundedOn(R, Nat)
  BY NatLessThanWellFounded
<1>2. \A x, y \in Nat : x < y => <<x, y>> \in R
  BY DEF OpToRel
<1> HIDE DEF R
<1>3. PICK x \in T : \A y \in T : ~ (<<y, x>> \in R)
  BY <1>1, WFMin
<1>4. ASSUME NEW y \in T PROVE x <= y
  <2>1. x \in Nat /\ y \in Nat
    OBVIOUS
  <2>2. ~(y < x)
    BY <1>2, <1>3, <2>1
  <2> QED BY <2>1, <2>2
<1> QED BY <1>4

\* The node at place i of the ring that s is from h, h itself before and
\* behind all of s.
Place(h, s, i) == IF i \in 1 .. Len(s) THEN s[i] ELSE h

\* Following link from h passes the entries of s and comes back to h.
Ring(h, s, link) ==
    /\ Distinct(s)
    /\ \A i \in 0 .. Len(s) : link[Place(h, s, i)] = Place(h, s, i + 1)

\* A ring has no more entries than there are.
LEMMA RingLength ==
    ASSUME NEW h, NEW s, NEW link, Ring(h, s, link)
    PROVE  /\ Len(s) \in Nat /\ s = [i \in 1 .. Len(s) |-> s[i]]
           /\ \A i \in 1 .. Len(s) : s[i] \in Entry
           /\ Cardinality(Entry) \in Nat /\ Len(s) <= Cardinality(Entry)
<1>1. /\ Len(s) \in Nat /\ s \in [1 .. Len(s) -> Entry]
      /\ \A i, j \in 1 .. Len(s) : s[i] = s[j] => i = j
  BY DEF Ring, Distinct
<1>2. s \in Injection(1 .. Len(s), Entry)
  BY <1>1 DEF Injection, IsInjective
<1>3. IsFiniteSet(Entry)
  BY ListAssumption
<1>4. Cardinality(1 .. Len(s)) <= Cardinality(Entry)
  BY <1>2, <1>3, FS_Injection
<1>5. Cardinality(1 .. Len(s)) = Len(s)
  BY <1>1, FS_Interval
<1> QED BY <1>1, <1>3, <1>4, <1>5, FS_CardinalityType

\* What Walk takes a node from, and the number of nodes it takes.
Meets(from, link) ==
    LET most == Cardinality(Entry) + 1
        met[k \in 0 .. most] ==
            IF k = 0 THEN from
            ELSE IF met[k - 1] = NULL THEN NULL ELSE link[met[k - 1]]
    IN  met

\* One step of the recursion that Meets is.
Step(f, from, link) ==
    [k \in 0 .. Cardinality(Entry) + 1 |->
        IF k = 0 THEN from ELSE IF f[k - 1] = NULL THEN NULL ELSE link[f[k - 1]]]

\* The recursion that Walk is built on has a solution.
LEMMA MeetsIs ==
    ASSUME NEW from, NEW link
    PROVE  Meets(from, link) = Step(Meets(from, link), from, link)
<1> DEFINE most == Cardinality(Entry) + 1
           After(x) == IF x = NULL THEN NULL ELSE link[x]
           Upto(f, n) == f = [k \in 0 .. n |-> IF k = 0 THEN from ELSE After(f[k - 1])]
           Bad == {n \in 0 .. most : \A f : ~Upto(f, n)}
<1>1. most \in Nat
  BY ListAssumption, FS_CardinalityType
<1>2. Bad = {}
  <2>1. SUFFICES ASSUME Bad # {} PROVE FALSE
    OBVIOUS
  <2>2. Bad \subseteq Nat
    OBVIOUS
  <2>3. PICK n \in Bad : \A m \in Bad : n <= m
    BY <2>1, <2>2, LeastNumber
  <2>4. n # 0
    <3> DEFINE f == [k \in 0 .. 0 |-> from]
    <3>1. Upto(f, 0)
      OBVIOUS
    <3> QED BY <2>3, <3>1
  <2>5. n - 1 \in 0 .. most /\ n - 1 \notin Bad /\ n \in Nat
    BY <1>1, <2>3, <2>4
  <2>6. PICK f : Upto(f, n - 1)
    BY <2>5
  <2> DEFINE g == [k \in 0 .. n |-> IF k < n THEN f[k] ELSE After(f[n - 1])]
  <2>7. \A k \in 0 .. n - 1 : f[k] = IF k = 0 THEN from ELSE After(f[k - 1])
    BY <2>6
  <2> HIDE DEF After
  <2>8. \A k \in 0 .. n : g[k] = IF k = 0 THEN from ELSE After(g[k - 1])
    BY <2>4, <2>5, <2>7
  <2>9. g = [k \in 0 .. n |-> g[k]]
    OBVIOUS
  <2> HIDE DEF g
  <2>10. Upto(g, n)
    BY <2>8, <2>9
  <2> QED BY <2>3, <2>10
<1>3. PICK f : Upto(f, most)
  BY <1>1, <1>2
<1>4. f = Step(f, from, link)
  BY <1>3 DEF Step
<1>5. Meets(from, link) = CHOOSE m : m = Step(m, from, link)
  BY DEF Meets, Step
<1> QED BY <1>4, <1>5

\* In a ring the nodes met are those of the ring, and its head again.
LEMMA RingMeets ==
    ASSUME NEW h \in ListHead, NEW s, NEW link, Ring(h, s, link),
           NEW j \in 0 .. Len(s)
    PROVE  \A k \in 0 .. Len(s) - j + 1 :
              Meets(Place(h, s, j), link)[k] = Place(h, s, j + k)
<1> DEFINE from == Place(h, s, j)
           c    == Len(s) + 1
           most == Cardinality(Entry) + 1
           m    == Meets(from, link)
<1>1. /\ Len(s) \in Nat /\ most \in Nat /\ c <= most /\ c \in Nat /\ c > 0
      /\ \A i \in 1 .. Len(s) : s[i] \in Entry
  BY RingLength
<1>2. \A i \in 0 .. c : Place(h, s, i) # NULL
  BY <1>1, ListAssumption DEF Place, Node
<1>6. m = Step(m, from, link)
  BY MeetsIs
<1> HIDE DEF m
<1>7. \A k \in 0 .. c - j : m[k] = Place(h, s, j + k)
  <2> DEFINE Bad == {k \in 0 .. c - j : m[k] # Place(h, s, j + k)}
  <2>1. SUFFICES ASSUME Bad # {} PROVE FALSE
    OBVIOUS
  <2>2. Bad \subseteq Nat
    BY <1>1
  <2>3. PICK k \in Bad : \A f \in Bad : k <= f
    BY <2>1, <2>2, LeastNumber
  <2>4. m[k] = IF k = 0 THEN from
               ELSE IF m[k - 1] = NULL THEN NULL ELSE link[m[k - 1]]
    <3>1. k \in 0 .. most
      BY <1>1, <2>3
    <3> QED BY <1>6, <3>1 DEF Step
  <2>5. k # 0
    BY <2>3, <2>4
  <2>6. k - 1 \in 0 .. c - j /\ ~(k <= k - 1) /\ j + (k - 1) \in 0 .. Len(s)
    BY <1>1, <2>3, <2>5
  <2>7. m[k - 1] = Place(h, s, j + (k - 1))
    BY <2>3, <2>6
  <2>8. (j + (k - 1)) + 1 = j + k /\ j + (k - 1) \in 0 .. c
    BY <1>1, <2>3, <2>5, <2>6
  <2>9. m[k] = Place(h, s, j + k)
    BY <1>2, <2>4, <2>5, <2>6, <2>7, <2>8 DEF Ring, Distinct
  <2> QED BY <2>3, <2>9
<1> QED BY <1>1, <1>7 DEF m

\* A walk from a place of the ring takes what comes behind it, and ends.
LEMMA RingWalk ==
    ASSUME NEW h \in ListHead, NEW s, NEW link, Ring(h, s, link),
           NEW j \in 0 .. Len(s)
    PROVE  Walk(Place(h, s, j), h, link) = [k \in 1 .. Len(s) - j |-> s[j + k]]
<1> DEFINE most == Cardinality(Entry) + 1
           m == Meets(Place(h, s, j), link)
           Ends(n) == /\ n = most \/ m[n + 1] = h
                      /\ \A i \in 1 .. n : m[i] # h
           n == CHOOSE n \in 0 .. most : Ends(n)
<1>1. Walk(Place(h, s, j), h, link) = [k \in 1 .. n |-> m[k]]
  BY DEF Walk, Meets
<1>2. /\ Len(s) \in Nat /\ most \in Nat /\ Len(s) < most
      /\ \A i \in 1 .. Len(s) : s[i] \in Entry
  BY RingLength
<1>3. \A k \in 0 .. Len(s) - j + 1 : m[k] = Place(h, s, j + k)
  BY RingMeets
<1> HIDE DEF m
<1>4. ASSUME NEW k \in 1 .. Len(s) - j
      PROVE  m[k] = s[j + k] /\ m[k] # h
  <2>1. k \in 0 .. Len(s) - j + 1 /\ j + k \in 1 .. Len(s)
    BY <1>2
  <2>2. m[k] = Place(h, s, j + k)
    BY <1>3, <2>1
  <2>3. Place(h, s, j + k) = s[j + k]
    BY <2>1 DEF Place
  <2>4. s[j + k] \in Entry /\ h \notin Entry
    BY <1>2, <2>1, ListAssumption
  <2> QED BY <2>2, <2>3, <2>4
<1>5. m[Len(s) - j + 1] = h
  BY <1>2, <1>3 DEF Place
<1>6. Len(s) - j \in 0 .. most /\ Ends(Len(s) - j)
  BY <1>2, <1>4, <1>5
<1>7. \A k \in 0 .. most : Ends(k) => k = Len(s) - j
  <2> SUFFICES ASSUME NEW k \in 0 .. most, Ends(k) PROVE k = Len(s) - j
    OBVIOUS
  <2>1. k <= Len(s) - j
    BY <1>2, <1>5
  <2>2. k >= Len(s) - j
    <3>1. k # most
      BY <1>2, <2>1
    <3>2. m[k + 1] = h
      BY <3>1
    <3> QED BY <1>2, <1>4, <3>2
  <2> QED BY <1>2, <2>1, <2>2
<1>8. n = Len(s) - j
  <2> HIDE DEF Ends
  <2> QED BY <1>6, <1>7
<1> HIDE DEF n
<1> QED BY <1>1, <1>4, <1>8

\* Walked from its head, a ring gives all it is made of.
LEMMA RingContents ==
    ASSUME NEW h \in ListHead, NEW s, NEW link, Ring(h, s, link)
    PROVE  Walk(h, h, link) = s
<1>1. /\ Len(s) \in Nat /\ s = [i \in 1 .. Len(s) |-> s[i]]
  BY RingLength
<1>2. 0 \in 0 .. Len(s) /\ Place(h, s, 0) = h
  BY <1>1 DEF Place
<1>3. Walk(h, h, link) = [k \in 1 .. Len(s) - 0 |-> s[0 + k]]
  BY <1>2, RingWalk
<1>4. [k \in 1 .. Len(s) - 0 |-> s[0 + k]] = [i \in 1 .. Len(s) |-> s[i]]
  BY <1>1
<1> QED BY <1>1, <1>3, <1>4

\* An entry comes in behind place i.
LEMMA RingAdd ==
    ASSUME NEW h \in ListHead, NEW s, NEW link, Ring(h, s, link),
           NEW i \in 0 .. Len(s), NEW x \in Entry, ~Has(s, x),
           link[x] = Place(h, s, i + 1), NEW to, to[Place(h, s, i)] = x,
           \A y \in Node : y # Place(h, s, i) => to[y] = link[y]
    PROVE  /\ Ring(h, InsertAt(s, i + 1, x), to)
           /\ \A e : Has(InsertAt(s, i + 1, x), e) <=> e = x \/ Has(s, e)
<1> DEFINE t == InsertAt(s, i + 1, x)
<1>1. /\ Len(s) \in Nat /\ s \in Seq(Entry)
      /\ \A k \in 1 .. Len(s) : s[k] \in Entry /\ s[k] # x /\ s[k] # h
      /\ \A j, k \in 1 .. Len(s) : s[j] = s[k] => j = k
      /\ x # h
  BY RingLength, ListAssumption DEF Ring, Distinct, Has
<1>2. /\ t \in Seq(Entry) /\ Len(t) = Len(s) + 1
      /\ \A k \in 1 .. Len(s) + 1 :
            t[k] = IF k <= i THEN s[k] ELSE IF k = i + 1 THEN x ELSE s[k - 1]
  <2>1. WithInsert(t, s, i, x)
    BY <1>1, InsertAtIs
  <2> QED BY <2>1 DEF WithInsert
<1> HIDE DEF t
<1>3. ASSUME NEW j \in 1 .. Len(t), NEW k \in 1 .. Len(t), t[j] = t[k]
      PROVE  j = k
  <2> DEFINE a == IF j <= i THEN j ELSE j - 1
             b == IF k <= i THEN k ELSE k - 1
  <2>1. j # i + 1 => a \in 1 .. Len(s) /\ t[j] = s[a]
    BY <1>1, <1>2
  <2>2. k # i + 1 => b \in 1 .. Len(s) /\ t[k] = s[b]
    BY <1>1, <1>2
  <2>3. t[i + 1] = x
    BY <1>1, <1>2
  <2>4. j # i + 1 /\ k # i + 1 => a = b
    BY <1>1, <1>3, <2>1, <2>2
  <2>5. j = i + 1 <=> k = i + 1
    BY <1>1, <1>3, <2>1, <2>2, <2>3
  <2> QED BY <1>1, <1>2, <2>4, <2>5
<1>4. \A k \in 0 .. Len(s) + 2 :
         Place(h, t, k) = IF k <= i THEN Place(h, s, k)
                          ELSE IF k = i + 1 THEN x ELSE Place(h, s, k - 1)
  BY <1>1, <1>2 DEF Place
<1>5. \A k \in 0 .. Len(s) : Place(h, s, k) \in Node /\ Place(h, s, k) # x
  BY <1>1 DEF Place, Node
<1>6. \A k \in 0 .. Len(s) : Place(h, s, k) = Place(h, s, i) => k = i
  BY <1>1 DEF Place
<1>7. \A k \in 0 .. Len(s) : link[Place(h, s, k)] = Place(h, s, k + 1)
  BY DEF Ring
<1>8. ASSUME NEW k \in 0 .. Len(t) PROVE to[Place(h, t, k)] = Place(h, t, k + 1)
  <2>1. CASE k < i
    <3>1. k \in 0 .. Len(s) /\ k + 1 <= i /\ k # i /\ k + 1 \in 0 .. Len(s) + 2
      BY <1>1, <2>1
    <3>2. Place(h, t, k) = Place(h, s, k) /\ Place(h, t, k + 1) = Place(h, s, k + 1)
      BY <1>1, <1>4, <3>1
    <3> QED BY <1>5, <1>6, <1>7, <3>1, <3>2
  <2>2. CASE k = i
    <3>1. Place(h, t, k) = Place(h, s, i) /\ Place(h, t, k + 1) = x
      BY <1>1, <1>4, <2>2
    <3> QED BY <3>1
  <2>3. CASE k = i + 1
    <3>1. Place(h, t, k) = x /\ Place(h, t, k + 1) = Place(h, s, i + 1)
      BY <1>1, <1>4, <2>3
    <3>2. x \in Node /\ x # Place(h, s, i)
      BY <1>5 DEF Node
    <3> QED BY <3>1, <3>2
  <2>4. CASE k > i + 1
    <3>1. k - 1 \in 0 .. Len(s) /\ k - 1 # i /\ (k + 1) - 1 = (k - 1) + 1
      BY <1>1, <1>2, <2>4
    <3>2. Place(h, t, k) = Place(h, s, k - 1)
      BY <1>1, <1>2, <1>4, <2>4
    <3>3. Place(h, t, k + 1) = Place(h, s, (k - 1) + 1)
      BY <1>1, <1>2, <1>4, <2>4
    <3> QED BY <1>5, <1>6, <1>7, <3>1, <3>2, <3>3
  <2> QED BY <1>1, <1>2, <2>1, <2>2, <2>3, <2>4
<1>9. Ring(h, t, to)
  BY <1>2, <1>3, <1>8 DEF Ring, Distinct
<1>10. \A e : Has(t, e) <=> e = x \/ Has(s, e)
  BY <1>1, HasInsert DEF t
<1> QED BY <1>9, <1>10 DEF t

\* An entry goes.
LEMMA RingDel ==
    ASSUME NEW h \in ListHead, NEW s, NEW link, Ring(h, s, link),
           NEW i \in 1 .. Len(s), NEW to,
           to[Place(h, s, i - 1)] = Place(h, s, i + 1),
           \A y \in Node : y # Place(h, s, i - 1) => to[y] = link[y]
    PROVE  /\ Ring(h, RemoveFirst(s, s[i]), to)
           /\ \A e : Has(RemoveFirst(s, s[i]), e) <=> e # s[i] /\ Has(s, e)
<1> DEFINE t == RemoveFirst(s, s[i])
<1>1. /\ Len(s) \in Nat /\ s \in Seq(Entry)
      /\ \A k \in 1 .. Len(s) : s[k] \in Entry /\ s[k] # h
      /\ \A j, k \in 1 .. Len(s) : s[j] = s[k] => j = k
  BY RingLength, ListAssumption DEF Ring, Distinct
<1>2. /\ t \in Seq(Entry) /\ Len(t) = Len(s) - 1
      /\ \A k \in 1 .. Len(s) - 1 : t[k] = IF k < i THEN s[k] ELSE s[k + 1]
  BY <1>1, RemoveFirstIs
<1> HIDE DEF t
<1>3. \A j, k \in 1 .. Len(t) : t[j] = t[k] => j = k
  <2> SUFFICES ASSUME NEW j \in 1 .. Len(t), NEW k \in 1 .. Len(t), t[j] = t[k]
               PROVE  j = k
    OBVIOUS
  <2> DEFINE a == IF j < i THEN j ELSE j + 1
             b == IF k < i THEN k ELSE k + 1
  <2>1. a \in 1 .. Len(s) /\ b \in 1 .. Len(s) /\ t[j] = s[a] /\ t[k] = s[b]
    BY <1>1, <1>2
  <2>2. a = b
    BY <1>1, <2>1
  <2> QED BY <1>1, <1>2, <2>2
<1>4. \A k \in 0 .. Len(s) :
         Place(h, t, k) = IF k < i THEN Place(h, s, k) ELSE Place(h, s, k + 1)
  BY <1>1, <1>2 DEF Place
<1>5. \A k \in 0 .. Len(s) : Place(h, s, k) \in Node
  BY <1>1 DEF Place, Node
<1>6. \A k \in 0 .. Len(s) : Place(h, s, k) = Place(h, s, i - 1) => k = i - 1
  BY <1>1 DEF Place
<1>7. \A k \in 0 .. Len(s) : link[Place(h, s, k)] = Place(h, s, k + 1)
  BY DEF Ring
<1>8. ASSUME NEW k \in 0 .. Len(t) PROVE to[Place(h, t, k)] = Place(h, t, k + 1)
  <2>1. CASE k < i - 1
    <3>1. k \in 0 .. Len(s) /\ k + 1 < i /\ k < i /\ k # i - 1 /\ k + 1 \in 0 .. Len(s)
      BY <1>1, <2>1
    <3>2. Place(h, t, k) = Place(h, s, k) /\ Place(h, t, k + 1) = Place(h, s, k + 1)
      BY <1>4, <3>1
    <3> QED BY <1>5, <1>6, <1>7, <3>1, <3>2
  <2>2. CASE k = i - 1
    <3>1. Place(h, t, k) = Place(h, s, i - 1) /\ Place(h, t, k + 1) = Place(h, s, i + 1)
      BY <1>1, <1>4, <2>2
    <3> QED BY <3>1
  <2>3. CASE k > i - 1
    <3>1. k + 1 \in 0 .. Len(s) /\ k + 1 # i - 1 /\ ~(k < i) /\ ~(k + 1 < i)
      BY <1>1, <1>2, <2>3
    <3>2. Place(h, t, k) = Place(h, s, k + 1)
      BY <1>1, <1>2, <1>4, <2>3
    <3>3. Place(h, t, k + 1) = Place(h, s, (k + 1) + 1)
      BY <1>1, <1>2, <1>4, <2>3
    <3> QED BY <1>5, <1>6, <1>7, <3>1, <3>2, <3>3
  <2> QED BY <1>1, <1>2, <2>1, <2>2, <2>3
<1>9. Ring(h, t, to)
  BY <1>2, <1>3, <1>8 DEF Ring, Distinct
<1>10. \A e : Has(t, e) <=> e # s[i] /\ Has(s, e)
  BY RemoveOrder DEF Ring, Distinct, t
<1> QED BY <1>9, <1>10 DEF t

\* An entry takes another's place.
LEMMA RingReplace ==
    ASSUME NEW h \in ListHead, NEW s, NEW link, Ring(h, s, link),
           NEW i \in 1 .. Len(s), NEW x \in Entry, ~Has(s, x),
           link[x] = Place(h, s, i + 1), NEW to, to[Place(h, s, i - 1)] = x,
           \A y \in Node : y # Place(h, s, i - 1) => to[y] = link[y]
    PROVE  /\ Ring(h, ReplaceAll(s, s[i], x), to)
           /\ \A e : Has(ReplaceAll(s, s[i], x), e) <=>
                        e = x \/ (e # s[i] /\ Has(s, e))
<1> DEFINE t == ReplaceAll(s, s[i], x)
<1>1. /\ Len(s) \in Nat /\ s \in Seq(Entry)
      /\ \A k \in 1 .. Len(s) : s[k] \in Entry /\ s[k] # x /\ s[k] # h
      /\ \A j, k \in 1 .. Len(s) : s[j] = s[k] => j = k
      /\ x # h
  BY RingLength, ListAssumption DEF Ring, Distinct, Has
<1>2. /\ t \in Seq(Entry) /\ Len(t) = Len(s)
      /\ \A k \in 1 .. Len(s) : t[k] = IF k = i THEN x ELSE s[k]
  BY <1>1 DEF ReplaceAll
<1> HIDE DEF t
<1>3. \A j, k \in 1 .. Len(t) : t[j] = t[k] => j = k
  BY <1>1, <1>2
<1>4. \A k \in 0 .. Len(s) + 1 :
         Place(h, t, k) = IF k = i THEN x ELSE Place(h, s, k)
  BY <1>1, <1>2 DEF Place
<1>5. \A k \in 0 .. Len(s) : Place(h, s, k) \in Node /\ Place(h, s, k) # x
  BY <1>1 DEF Place, Node
<1>6. \A k \in 0 .. Len(s) : Place(h, s, k) = Place(h, s, i - 1) => k = i - 1
  BY <1>1 DEF Place
<1>7. \A k \in 0 .. Len(s) : link[Place(h, s, k)] = Place(h, s, k + 1)
  BY DEF Ring
<1>8. ASSUME NEW k \in 0 .. Len(t) PROVE to[Place(h, t, k)] = Place(h, t, k + 1)
  <2>1. CASE k = i - 1
    <3>1. Place(h, t, k) = Place(h, s, i - 1) /\ Place(h, t, k + 1) = x
      BY <1>1, <1>4, <2>1
    <3> QED BY <3>1
  <2>2. CASE k = i
    <3>1. Place(h, t, k) = x /\ Place(h, t, k + 1) = Place(h, s, i + 1)
      BY <1>1, <1>4, <2>2
    <3>2. x \in Node /\ x # Place(h, s, i - 1)
      BY <1>1, <1>5 DEF Node
    <3> QED BY <3>1, <3>2
  <2>3. CASE k # i - 1 /\ k # i
    <3>1. k \in 0 .. Len(s) /\ k + 1 # i /\ k + 1 \in 0 .. Len(s) + 1
      BY <1>1, <1>2, <2>3
    <3>2. Place(h, t, k) = Place(h, s, k) /\ Place(h, t, k + 1) = Place(h, s, k + 1)
      BY <1>1, <1>4, <2>3, <3>1
    <3> QED BY <1>5, <1>6, <1>7, <2>3, <3>1, <3>2
  <2> QED BY <2>1, <2>2, <2>3
<1>9. Ring(h, t, to)
  BY <1>2, <1>3, <1>8 DEF Ring, Distinct
<1>10. \A e : Has(t, e) <=> e = x \/ (e # s[i] /\ Has(s, e))
  <2>1. s[i] \in Entry /\ Has(s, s[i]) /\ ~Has(s, x)
    BY <1>1 DEF Has
  <2> QED BY <1>1, <2>1, HasReplace DEF t
<1> QED BY <1>9, <1>10 DEF t

\* A head takes another's place.
LEMMA RingReplaceHead ==
    ASSUME NEW h \in ListHead, NEW s, NEW link, Ring(h, s, link),
           NEW x \in ListHead, x # h,
           Len(s) > 0 => link[x] = s[1], NEW to,
           to[Place(x, s, Len(s))] = x,
           \A y \in Node : y # Place(x, s, Len(s)) => to[y] = link[y]
    PROVE  Ring(x, s, to)
<1>1. /\ Len(s) \in Nat /\ s \in Seq(Entry)
      /\ \A k \in 1 .. Len(s) : s[k] \in Entry /\ s[k] # x /\ s[k] # h
      /\ \A j, k \in 1 .. Len(s) : s[j] = s[k] => j = k
  BY RingLength, ListAssumption DEF Ring, Distinct
<1>2. \A k \in 0 .. Len(s) : link[Place(h, s, k)] = Place(h, s, k + 1)
  BY DEF Ring
<1>3. ASSUME NEW k \in 0 .. Len(s) PROVE to[Place(x, s, k)] = Place(x, s, k + 1)
  <2>1. CASE k = Len(s)
    <3>1. Place(x, s, k + 1) = x
      BY <1>1, <2>1 DEF Place
    <3> QED BY <2>1, <3>1
  <2>2. CASE k # Len(s)
    <3>1. Place(x, s, k) # Place(x, s, Len(s)) /\ Place(x, s, k) \in Node
      BY <1>1, <2>2 DEF Place, Node
    <3>2. Place(x, s, k + 1) = s[k + 1]
      BY <1>1, <2>2 DEF Place
    <3>3. CASE k = 0
      <4>1. Place(x, s, k) = x /\ Len(s) > 0
        BY <1>1, <2>2, <3>3 DEF Place
      <4> QED BY <3>1, <3>2, <3>3, <4>1
    <3>4. CASE k # 0
      <4>1. Place(x, s, k) = s[k] /\ Place(h, s, k) = s[k] /\ Place(h, s, k + 1) = s[k + 1]
        BY <1>1, <2>2, <3>4 DEF Place
      <4> QED BY <1>2, <3>1, <3>2, <4>1
    <3> QED BY <3>3, <3>4
  <2> QED BY <2>1, <2>2
<1> QED BY <1>1, <1>3 DEF Ring, Distinct

\* Backwards the ring is the same, the other way round.
LEMMA RingBack ==
    ASSUME NEW h \in ListHead, NEW s, NEW link, Ring(h, s, link), NEW back,
           \A i \in 0 .. Len(s) : back[link[Place(h, s, i)]] = Place(h, s, i)
    PROVE  Ring(h, Reverse(s), back)
<1> DEFINE t == Reverse(s)
<1>1. /\ Len(s) \in Nat /\ s \in Seq(Entry)
      /\ \A k \in 1 .. Len(s) : s[k] \in Entry
      /\ \A j, k \in 1 .. Len(s) : s[j] = s[k] => j = k
  BY RingLength DEF Ring, Distinct
<1>2. /\ t \in Seq(Entry) /\ Len(t) = Len(s)
      /\ \A k \in 1 .. Len(s) : t[k] = s[(Len(s) - k) + 1]
  BY <1>1 DEF Reverse
<1> HIDE DEF t
<1>3. ASSUME NEW j \in 1 .. Len(t), NEW k \in 1 .. Len(t), t[j] = t[k]
      PROVE  j = k
  <2>1. (Len(s) - j) + 1 \in 1 .. Len(s) /\ (Len(s) - k) + 1 \in 1 .. Len(s)
    BY <1>1, <1>2
  <2>2. (Len(s) - j) + 1 = (Len(s) - k) + 1
    BY <1>1, <1>2, <1>3, <2>1
  <2> QED BY <1>1, <1>2, <2>2
<1>4. \A k \in 0 .. Len(s) + 1 : Place(h, t, k) = Place(h, s, (Len(s) - k) + 1)
  BY <1>1, <1>2 DEF Place
<1>5. ASSUME NEW k \in 0 .. Len(t) PROVE back[Place(h, t, k)] = Place(h, t, k + 1)
  <2>1. /\ Len(s) - k \in 0 .. Len(s) /\ (Len(s) - (k + 1)) + 1 = Len(s) - k
        /\ k \in 0 .. Len(s) + 1 /\ k + 1 \in 0 .. Len(s) + 1
    BY <1>1, <1>2
  <2>2. link[Place(h, s, Len(s) - k)] = Place(h, s, (Len(s) - k) + 1)
    BY <2>1 DEF Ring, Distinct
  <2>3. back[Place(h, s, (Len(s) - k) + 1)] = Place(h, s, Len(s) - k)
    BY <2>1, <2>2
  <2> QED BY <1>4, <2>1, <2>3
<1> QED BY <1>2, <1>3, <1>5 DEF Ring, Distinct, t

-----------------------------------------------------------------------------
(* What a reader finds from each head                                      *)

\* What a reader finds from a head in use are the nodes that are on its list,
\* each once, and a node that is on a list is on one in use.
RingsInv ==
    /\ \A h \in ListHead : Linked(h) => Ring(h, Contents(h), next)
    /\ \A h \in ListHead, e \in Entry :
          Linked(h) => (owner[e] = h <=> Has(Contents(h), e))
    /\ \A e \in Entry : owner[e] # None => owner[owner[e]] # None

\* Where list_add and list_add_tail put an entry, and what is initialised.
ArgsInv ==
    op # None => /\ op.fn = "list_add" => op.p = op.at
                 /\ op.fn = "list_add_tail" => op.n = op.at
                 /\ op.fn = "INIT_LIST_HEAD" => op.at = op.x

\* The inductive invariant of what a reader finds.
ListsInv == IInv /\ RingsInv /\ ArgsInv

\* A node on a list is at a place of the list of its owner.
LEMMA PlaceOf ==
    ASSUME ListsInv, NEW x \in Node, Linked(x)
    PROVE  /\ owner[x] \in ListHead /\ Linked(owner[x])
           /\ owner[owner[x]] = owner[x]
           /\ \E i \in 0 .. Len(Contents(owner[x])) :
                 x = Place(owner[x], Contents(owner[x]), i)
<1>1. owner[x] \in ListHead /\ TypeOK
  BY DEF ListsInv, IInv, TypeOK, Linked
<1>2. CASE x \in ListHead
  <2>1. owner[x] = x
    BY <1>2 DEF ListsInv, IInv, OwnerInv, Linked
  <2>2. PICK s : s = Contents(x)
    OBVIOUS
  <2>3. Ring(x, s, next)
    BY <1>2, <2>2 DEF ListsInv, RingsInv
  <2>4. 0 \in 0 .. Len(s) /\ x = Place(x, s, 0)
    BY <2>3, RingLength DEF Place
  <2> QED BY <1>1, <2>1, <2>2, <2>4
<1>3. CASE x \in Entry
  <2>1. Linked(owner[x])
    BY <1>3 DEF ListsInv, RingsInv, Linked
  <2>2. PICK s : s = Contents(owner[x])
    OBVIOUS
  <2>3. Ring(owner[x], s, next) /\ Has(s, x)
    BY <1>1, <1>3, <2>1, <2>2 DEF ListsInv, RingsInv
  <2>4. \E i \in 0 .. Len(s) : x = Place(owner[x], s, i)
    BY <2>3, RingLength DEF Place, Has
  <2>5. owner[owner[x]] = owner[x]
    BY <1>1, <2>1 DEF ListsInv, IInv, OwnerInv, Linked
  <2> QED BY <1>1, <2>1, <2>2, <2>4, <2>5
<1> QED BY <1>2, <1>3 DEF Node

\* All places of a list belong to its head.
LEMMA PlaceOwner ==
    ASSUME ListsInv, NEW h \in ListHead, Linked(h), NEW s, s = Contents(h)
    PROVE  /\ Ring(h, s, next) /\ Len(s) \in Nat
           /\ \A i \in 0 .. Len(s) + 1 :
                 Place(h, s, i) \in Node /\ owner[Place(h, s, i)] = h
           /\ \A e \in Entry : owner[e] = h <=> Has(s, e)
           /\ owner[h] = h
<1>1. Ring(h, s, next) /\ \A e \in Entry : owner[e] = h <=> Has(s, e)
  BY DEF ListsInv, RingsInv
<1>2. owner[h] = h
  BY DEF ListsInv, IInv, OwnerInv, Linked
<1> QED BY <1>1, <1>2, RingLength DEF Place, Node, Has

\* A list none of whose nodes is stored to stays what it is.
LEMMA SameList ==
    ASSUME ListsInv, NEW h \in ListHead, Linked(h),
           \A y \in Node : owner[y] = h => next'[y] = next[y]
    PROVE  Contents(h)' = Contents(h) /\ Ring(h, Contents(h), next')
<1>1. PICK s : s = Contents(h)
  OBVIOUS
<1>2. Ring(h, s, next')
  BY <1>1, PlaceOwner DEF Ring, Distinct
<1>3. Walk(h, h, next') = s
  BY <1>2, RingContents
<1> QED BY <1>1, <1>2, <1>3 DEF Contents

\* The nodes that a ring is made of say what is found after a step.
LEMMA OneList ==
    ASSUME NEW h \in ListHead, NEW s, Ring(h, s, next'),
           \A e \in Entry : owner'[e] = h <=> Has(s, e)
    PROVE  /\ Contents(h)' = s /\ Ring(h, Contents(h), next)'
           /\ \A e \in Entry : owner'[e] = h <=> Has(Contents(h)', e)
<1>1. Contents(h)' = s
  BY RingContents DEF Contents
<1> QED BY <1>1

\* Another list than the one a store changes.
LEMMA OtherList ==
    ASSUME ListsInv, NEW h \in ListHead, Linked(h),
           \A y \in Node : owner[y] = h => next'[y] = next[y],
           \A e \in Entry : owner'[e] = h <=> owner[e] = h
    PROVE  /\ Contents(h)' = Contents(h) /\ Ring(h, Contents(h), next)'
           /\ \A e \in Entry : owner'[e] = h <=> Has(Contents(h)', e)
<1>1. PICK s : s = Contents(h)
  OBVIOUS
<1>2. Ring(h, s, next')
  BY <1>1, SameList
<1>3. \A e \in Entry : owner'[e] = h <=> Has(s, e)
  BY <1>1, PlaceOwner
<1> QED BY <1>1, <1>2, <1>3, OneList

\* A step that stores to no node of a list.
LEMMA QuietLists ==
    ASSUME ListsInv, owner' = owner,
           \A y \in Node : Linked(y) => next'[y] = next[y]
    PROVE  /\ RingsInv'
           /\ \A h \in ListHead : Linked(h) => Contents(h)' = Contents(h)
<1>1. ASSUME NEW h \in ListHead, Linked(h)
      PROVE  /\ Contents(h)' = Contents(h) /\ Ring(h, Contents(h), next)'
             /\ \A e \in Entry : owner'[e] = h <=> Has(Contents(h)', e)
  <2>1. h # None
    BY <1>1, ListAssumption DEF Node
  <2>2. \A y \in Node : owner[y] = h => next'[y] = next[y]
    BY <2>1 DEF Linked
  <2> QED BY <1>1, <2>2, OtherList
<1>2. \A x : Linked(x)' <=> Linked(x)
  BY DEF Linked
<1>3. \A e \in Entry : owner'[e] # None => owner'[owner'[e]] # None
  BY DEF ListsInv, RingsInv
<1> QED BY <1>1, <1>2, <1>3 DEF RingsInv

\* What comes is found behind p from the store that links it forwards.
LEMMA AddLists ==
    ASSUME ListsInv, op # None, op.fn \in Adds, op.pc = 4, Store,
           NEW h, h = owner[op.at], NEW s, s = Contents(h)
    PROVE  /\ RingsInv'
           /\ \E i \in 0 .. Len(s) :
                 /\ op.p = Place(h, s, i) /\ op.n = Place(h, s, i + 1)
                 /\ Contents(h)' = InsertAt(s, i + 1, op.x)
           /\ h \in ListHead /\ Linked(h) /\ ~Has(s, op.x)
           /\ \A g \in ListHead : Linked(g) /\ g # h => Contents(g)' = Contents(g)
           /\ owner' = [owner EXCEPT ![op.x] = h]
<1>1. /\ TypeOK /\ OwnerInv /\ op \in OpType
      /\ op.x \in Entry /\ op.x \in Node /\ op.at \in Node /\ op.p \in Node
      /\ op.n \in Node /\ Entry \subseteq Node
  BY DEF ListsInv, IInv, TypeOK, OpType, CallInv, AddInv, Node
<1>2. /\ ~Linked(op.x) /\ Linked(op.at) /\ owner[op.p] = h /\ next[op.p] = op.n
      /\ next[op.x] = op.n
  BY DEF ListsInv, IInv, CallInv, AddInv
<1>3. /\ next' = [next EXCEPT ![op.p] = op.x]
      /\ owner' = [owner EXCEPT ![op.x] = h]
  BY AddStore
<1>4. h \in ListHead /\ Linked(h) /\ h # None /\ op.x # h
  BY <1>1, <1>2, PlaceOf, ListAssumption DEF Linked
<1>6. /\ Ring(h, s, next) /\ Len(s) \in Nat
      /\ \A i \in 0 .. Len(s) + 1 :
            Place(h, s, i) \in Node /\ owner[Place(h, s, i)] = h
      /\ \A e \in Entry : owner[e] = h <=> Has(s, e)
  BY <1>4, PlaceOwner
<1>7. PICK i \in 0 .. Len(s) : op.p = Place(h, s, i)
  <2>1. Linked(op.p)
    BY <1>2, <1>4 DEF Linked
  <2> QED BY <1>1, <1>2, <2>1, PlaceOf
<1>8. op.n = Place(h, s, i + 1)
  BY <1>2, <1>6, <1>7 DEF Ring, Distinct
<1>9. ~Has(s, op.x)
  BY <1>1, <1>2, <1>4, <1>6 DEF Linked
<1>10. /\ next'[Place(h, s, i)] = op.x
       /\ \A y \in Node : y # Place(h, s, i) => next'[y] = next[y]
  BY <1>1, <1>3, <1>7 DEF TypeOK
<1>11. /\ Ring(h, InsertAt(s, i + 1, op.x), next')
       /\ \A e : Has(InsertAt(s, i + 1, op.x), e) <=> e = op.x \/ Has(s, e)
  BY <1>1, <1>2, <1>4, <1>6, <1>8, <1>9, <1>10, RingAdd
<1>12. PICK t : t = InsertAt(s, i + 1, op.x)
  OBVIOUS
<1>13. \A e \in Entry : owner'[e] = h <=> Has(t, e)
  BY <1>1, <1>3, <1>6, <1>11, <1>12 DEF TypeOK
<1>14. /\ Contents(h)' = t /\ Ring(h, Contents(h), next)'
       /\ \A e \in Entry : owner'[e] = h <=> Has(Contents(h)', e)
  <2>1. Ring(h, t, next')
    BY <1>11, <1>12
  <2> QED BY <1>4, <1>13, <2>1, OneList
<1>15. ASSUME NEW g \in ListHead, Linked(g), g # h
       PROVE  /\ Contents(g)' = Contents(g) /\ Ring(g, Contents(g), next)'
              /\ \A e \in Entry : owner'[e] = g <=> Has(Contents(g)', e)
  <2>1. \A y \in Node : owner[y] = g => next'[y] = next[y]
    BY <1>6, <1>7, <1>10, <1>15
  <2>2. \A e \in Entry : owner'[e] = g <=> owner[e] = g
    <3>1. g # None
      BY <1>1, <1>15, ListAssumption DEF Node
    <3>2. \A e \in Node : owner'[e] = IF e = op.x THEN h ELSE owner[e]
      BY <1>1, <1>3 DEF TypeOK
    <3> QED BY <1>1, <1>2, <1>15, <3>1, <3>2 DEF Linked
  <2> QED BY <1>15, <2>1, <2>2, OtherList
<1>16. \A x \in Node : Linked(x)' <=> Linked(x) \/ x = op.x
  BY <1>1, <1>3, <1>4 DEF TypeOK, Linked
<1>17. \A g \in ListHead : Linked(g)' => Linked(g)
  BY <1>1, <1>16, ListAssumption DEF Node
<1>18. ASSUME NEW e \in Entry, owner'[e] # None PROVE owner'[owner'[e]] # None
  <2>1. \A x \in Node : owner[x] # None => owner'[x] # None
    BY <1>16 DEF Linked
  <2>2. CASE e = op.x
    <3>1. owner'[e] = h
      BY <1>1, <1>3, <2>2 DEF TypeOK
    <3> QED BY <1>4, <2>1, <3>1 DEF Node, Linked
  <2>3. CASE e # op.x
    <3>1. owner'[e] = owner[e] /\ Linked(e)
      BY <1>1, <1>3, <1>18, <2>3 DEF TypeOK, Linked
    <3>2. owner[owner[e]] # None /\ owner[e] \in Node
      BY <1>1, <3>1, PlaceOf DEF Node, Linked
    <3> QED BY <2>1, <3>1, <3>2
  <2> QED BY <2>2, <2>3
<1>19. RingsInv'
  BY <1>14, <1>15, <1>17, <1>18 DEF RingsInv
<1> QED BY <1>3, <1>4, <1>7, <1>8, <1>9, <1>12, <1>14, <1>15, <1>19

\* What goes is passed over from the store that mends the list forwards.
LEMMA DelLists ==
    ASSUME ListsInv, op # None, op.fn \in Dels, op.pc = 2, Store,
           NEW h, h = owner[op.x], NEW s, s = Contents(h)
    PROVE  /\ RingsInv'
           /\ h \in ListHead /\ Linked(h) /\ Has(s, op.x)
           /\ Contents(h)' = RemoveFirst(s, op.x)
           /\ \A g \in ListHead : Linked(g) /\ g # h => Contents(g)' = Contents(g)
           /\ owner' = [owner EXCEPT ![op.x] = None]
<1>1. /\ TypeOK /\ OwnerInv /\ op \in OpType
      /\ op.x \in Entry /\ op.x \in Node /\ op.p \in Node
      /\ op.n \in Node /\ Entry \subseteq Node
  BY DEF ListsInv, IInv, TypeOK, OpType, CallInv, DelInv, Node
<1>2. /\ Linked(op.x) /\ next[op.x] = op.n /\ Settled[op.x] = op.p
      /\ RingAt(op.x, Settled)
  BY <1>1 DEF ListsInv, IInv, CallInv, DelInv, RingInv
<1>3. /\ next' = [next EXCEPT ![op.p] = op.n]
      /\ owner' = [owner EXCEPT ![op.x] = None]
  BY DelStore, ClearStore DEF Dels
<1>4. h \in ListHead /\ Linked(h) /\ h # None /\ op.x # h
  BY <1>1, <1>2, PlaceOf, ListAssumption DEF Linked
<1>5. owner[op.p] = h /\ next[op.p] = op.x
  BY <1>2 DEF RingAt
<1>6. /\ Ring(h, s, next) /\ Len(s) \in Nat
      /\ \A i \in 0 .. Len(s) + 1 :
            Place(h, s, i) \in Node /\ owner[Place(h, s, i)] = h
      /\ \A e \in Entry : owner[e] = h <=> Has(s, e)
      /\ \A i \in 1 .. Len(s) : s[i] \in Entry
  BY <1>4, PlaceOwner, RingLength
<1>7. PICK j : j \in 0 .. Len(s) /\ op.p = Place(h, s, j)
  <2>1. Linked(op.p)
    BY <1>4, <1>5 DEF Linked
  <2> QED BY <1>1, <1>5, <2>1, PlaceOf
<1>8. PICK i : i \in 1 .. Len(s) /\ i = j + 1 /\ op.x = s[i]
  <2>1. op.x = Place(h, s, j + 1)
    BY <1>5, <1>6, <1>7 DEF Ring, Distinct
  <2>2. j + 1 \in 1 .. Len(s)
    BY <1>4, <1>6, <2>1 DEF Place
  <2> QED BY <2>1, <2>2 DEF Place
<1>9. /\ op.n = Place(h, s, i + 1) /\ op.p = Place(h, s, i - 1)
      /\ s[i] = Place(h, s, i)
  <2>1. s[i] = Place(h, s, i)
    BY <1>8 DEF Place
  <2>2. j \in Nat
    BY <1>6, <1>7
  <2>3. i - 1 = j /\ i \in 0 .. Len(s)
    <3>1. i \in 1 .. Len(s) /\ i = j + 1 /\ Len(s) \in Nat
      BY <1>6, <1>8
    <3> QED BY <2>2, <3>1
  <2>4. next[s[i]] = Place(h, s, i + 1)
    <3>1. \A k \in 0 .. Len(s) : next[Place(h, s, k)] = Place(h, s, k + 1)
      BY <1>6 DEF Ring
    <3> QED BY <2>1, <2>3, <3>1
  <2>5. op.n = Place(h, s, i + 1)
    BY <1>2, <1>8, <2>4
  <2>6. op.p = Place(h, s, i - 1)
    BY <1>7, <2>3
  <2> QED BY <2>1, <2>5, <2>6
<1>10. /\ next'[Place(h, s, i - 1)] = Place(h, s, i + 1)
       /\ \A y \in Node : y # Place(h, s, i - 1) => next'[y] = next[y]
  BY <1>1, <1>3, <1>9 DEF TypeOK
<1>11. /\ Ring(h, RemoveFirst(s, s[i]), next')
       /\ \A e : Has(RemoveFirst(s, s[i]), e) <=> e # s[i] /\ Has(s, e)
  <2>1. h \in ListHead /\ Ring(h, s, next) /\ i \in 1 .. Len(s)
    BY <1>4, <1>6, <1>8
  <2> QED BY <1>10, <2>1, RingDel
<1>12. PICK t : t = RemoveFirst(s, s[i])
  OBVIOUS
<1>13. \A e \in Entry : owner'[e] = h <=> Has(t, e)
  BY <1>1, <1>3, <1>4, <1>6, <1>8, <1>11, <1>12 DEF TypeOK
<1>14. /\ Contents(h)' = t /\ Ring(h, Contents(h), next)'
       /\ \A e \in Entry : owner'[e] = h <=> Has(Contents(h)', e)
  <2>1. Ring(h, t, next')
    BY <1>11, <1>12
  <2> QED BY <1>4, <1>13, <2>1, OneList
<1>15. ASSUME NEW g \in ListHead, Linked(g), g # h
       PROVE  /\ Contents(g)' = Contents(g) /\ Ring(g, Contents(g), next)'
              /\ \A e \in Entry : owner'[e] = g <=> Has(Contents(g)', e)
  <2>1. \A y \in Node : owner[y] = g => next'[y] = next[y]
    BY <1>5, <1>9, <1>10, <1>15
  <2>2. \A e \in Entry : owner'[e] = g <=> owner[e] = g
    <3>1. g # None
      BY <1>1, <1>15, ListAssumption DEF Node
    <3>2. \A e \in Node : owner'[e] = IF e = op.x THEN None ELSE owner[e]
      BY <1>1, <1>3 DEF TypeOK
    <3> QED BY <1>1, <1>2, <1>15, <3>1, <3>2 DEF Linked
  <2> QED BY <1>15, <2>1, <2>2, OtherList
<1>16. \A x \in Node : Linked(x)' <=> Linked(x) /\ x # op.x
  BY <1>1, <1>3, <1>4 DEF TypeOK, Linked
<1>17. \A g \in ListHead : Linked(g)' => Linked(g)
  BY <1>1, <1>16, ListAssumption DEF Node
<1>18. ASSUME NEW e \in Entry, owner'[e] # None PROVE owner'[owner'[e]] # None
  <2>1. owner'[e] = owner[e] /\ owner[e] # None
    BY <1>1, <1>3, <1>18 DEF TypeOK
  <2>2. owner[owner[e]] # None /\ owner[e] \in ListHead
    BY <1>1, <2>1, PlaceOf DEF Linked
  <2>3. owner[e] \in Node /\ owner[e] # op.x
    BY <1>1, <2>2, ListAssumption DEF Node
  <2>4. owner'[owner[e]] = owner[owner[e]]
    BY <1>1, <1>3, <2>3 DEF TypeOK
  <2> QED BY <2>1, <2>2, <2>4
<1>19. RingsInv'
  BY <1>14, <1>15, <1>17, <1>18 DEF RingsInv
<1> QED BY <1>3, <1>4, <1>6, <1>8, <1>12, <1>14, <1>15, <1>19 DEF Has

\* A head that is initialised has an empty list; an entry's initialisation
\* shows in no list.
LEMMA InitLists ==
    ASSUME ListsInv, op # None, op.fn = "INIT_LIST_HEAD", op.pc = 1, Store,
           NEW h, h = op.x
    PROVE  /\ RingsInv'
           /\ h \in ListHead => Contents(h)' = <<>>
           /\ \A g \in ListHead : Linked(g) => Contents(g)' = Contents(g)
           /\ owner' = [owner EXCEPT ![op.x] =
                           IF op.x \in ListHead THEN op.x ELSE None]
           /\ ~Linked(op.x)
<1>1. /\ TypeOK /\ OwnerInv /\ op \in OpType /\ op.x \in Node
      /\ Entry \subseteq Node /\ ListHead \subseteq Node
  BY DEF ListsInv, IInv, TypeOK, OpType, Node
<1>2. ~Linked(op.x)
  BY DEF ListsInv, IInv, CallInv, InitInv
<1>3. /\ next' = [next EXCEPT ![op.x] = op.x]
      /\ owner' = [owner EXCEPT ![op.x] =
                      IF op.x \in ListHead THEN op.x ELSE None]
  BY InitStore
<1>5. \A y \in Node : /\ next'[y] = IF y = h THEN h ELSE next[y]
                      /\ owner'[y] = IF y # h THEN owner[y]
                                     ELSE IF h \in ListHead THEN h ELSE None
  BY <1>1, <1>3 DEF TypeOK
<1>6. owner[h] = None /\ h \in Node
  BY <1>1, <1>2 DEF Linked
<1>7. ASSUME h \in ListHead
      PROVE  /\ Contents(h)' = <<>> /\ Ring(h, Contents(h), next)'
             /\ \A e \in Entry : owner'[e] = h <=> Has(Contents(h)', e)
  <2>1. \A e \in Entry : owner'[e] # h
    <3> SUFFICES ASSUME NEW e \in Entry, owner'[e] = h PROVE FALSE
      OBVIOUS
    <3>1. e # h /\ h # None
      BY <1>7, ListAssumption DEF Node
    <3>2. owner[e] = h
      BY <1>1, <1>5, <3>1
    <3> QED BY <1>1, <1>6, <3>1, <3>2, PlaceOf DEF Linked
  <2>2. Ring(h, <<>>, next')
    <3>1. <<>> \in Seq(Entry) /\ Len(<<>>) = 0
      OBVIOUS
    <3>2. \A i \in 0 .. 1 : Place(h, <<>>, i) = h
      BY <3>1 DEF Place
    <3>3. next'[h] = h
      BY <1>5, <1>6
    <3>4. \A i \in 0 .. 0 : next'[Place(h, <<>>, i)] = Place(h, <<>>, i + 1)
      BY <3>2, <3>3
    <3> QED BY <3>1, <3>4 DEF Ring, Distinct
  <2>3. \A e : ~Has(<<>>, e)
    BY DEF Has
  <2>4. \A e \in Entry : owner'[e] = h <=> Has(<<>>, e)
    BY <2>1, <2>3
  <2> QED BY <1>7, <2>2, <2>4, OneList
<1>8. ASSUME NEW g \in ListHead, Linked(g)
      PROVE  /\ Contents(g)' = Contents(g) /\ Ring(g, Contents(g), next)'
             /\ \A e \in Entry : owner'[e] = g <=> Has(Contents(g)', e)
  <2>1. g # None /\ g # h
    BY <1>6, <1>8, ListAssumption DEF Node, Linked
  <2>2. \A y \in Node : owner[y] = g => next'[y] = next[y]
    BY <1>5, <1>6, <2>1
  <2>3. \A e \in Entry : owner'[e] = g <=> owner[e] = g
    BY <1>1, <1>5, <1>6, <2>1
  <2> QED BY <1>8, <2>2, <2>3, OtherList
<1>9. \A g \in ListHead : Linked(g)' => Linked(g) \/ g = h
  BY <1>1, <1>5 DEF Linked
<1>10. ASSUME NEW e \in Entry, owner'[e] # None PROVE owner'[owner'[e]] # None
  <2>1. e # h
    BY <1>1, <1>5, <1>10, ListAssumption
  <2>2. owner'[e] = owner[e]
    BY <1>1, <1>5, <2>1
  <2>3. owner[owner[e]] # None /\ owner[e] \in Node
    BY <1>1, <1>10, <2>2, PlaceOf DEF Linked
  <2> QED BY <1>5, <1>6, <2>2, <2>3
<1>11. RingsInv'
  BY <1>7, <1>8, <1>9, <1>10 DEF RingsInv
<1> QED BY <1>2, <1>3, <1>7, <1>8, <1>11

\* The last store of a replacement, with the node that it goes to.
LEMMA ReplaceAt4 ==
    ASSUME ListsInv, op # None, op.fn \in Replaces, op.pc = 4, Store
    PROVE  /\ op.x \in Node /\ op.at \in Node
           /\ Linked(op.at) /\ ~Linked(op.x) /\ op.x # op.at
           /\ op.x \in ListHead <=> op.at \in ListHead
           /\ next[op.x] = next[op.at]
           /\ \A y \in Node :
                 /\ next'[y] = IF y = prev[op.x] THEN op.x ELSE next[y]
                 /\ owner'[y] = IF y = op.at THEN None
                                ELSE IF y = op.x /\ y \in Entry THEN owner[op.at]
                                ELSE IF y = op.x \/ owner[y] = op.at THEN op.x
                                ELSE owner[y]
           /\ next[op.at] = op.at => prev[op.x] = op.x
           /\ next[op.at] # op.at =>
                 /\ prev[op.x] \in Node /\ owner[prev[op.x]] = owner[op.at]
                 /\ next[prev[op.x]] = op.at
           /\ ~LoopNeeds(op.at)
<1>1. TypeOK /\ op \in OpType /\ op.x \in Node /\ op.at \in Node
  BY DEF ListsInv, IInv, TypeOK, OpType
<1>2. ReplaceInv /\ RingInv
  BY DEF ListsInv, IInv, CallInv
<1>3. /\ Linked(op.at) /\ ~Linked(op.x) /\ op.x # op.at
      /\ op.x \in ListHead <=> op.at \in ListHead
      /\ next[op.x] = next[op.at] /\ prev[next[op.x]] = op.x
      /\ prev[op.x] = prev[op.at] /\ ~LoopNeeds(op.at)
  BY <1>2 DEF ReplaceInv
<1>4. next' = [next EXCEPT ![prev[op.x]] = op.x] /\ owner' = OwnerReplaced
  BY ReplaceStore
<1>5. RingAt(op.at, Settled)
  BY <1>1, <1>2, <1>3 DEF RingInv
<1>6. Settled = [prev EXCEPT ![next[op.at]] = op.at]
  BY DEF Settled, Adds, Dels, Replaces
<1>7. ASSUME next[op.at] # op.at
      PROVE  /\ prev[op.x] \in Node /\ owner[prev[op.x]] = owner[op.at]
             /\ next[prev[op.x]] = op.at
  <2>1. prev[op.at] = Settled[op.at]
    BY <1>1, <1>6, <1>7 DEF TypeOK
  <2> QED BY <1>3, <1>5, <2>1 DEF RingAt
<1>8. next[op.at] = op.at => prev[op.x] = op.x
  BY <1>3
<1> QED BY <1>1, <1>3, <1>4, <1>7, <1>8 DEF OwnerReplaced, TypeOK

\* An entry takes another's place in the list of that one.
LEMMA ReplaceLists ==
    ASSUME ListsInv, op # None, op.fn \in Replaces, op.pc = 4, Store,
           op.at \in Entry, NEW h, h = owner[op.at], NEW s, s = Contents(h)
    PROVE  /\ RingsInv'
           /\ h \in ListHead /\ Linked(h) /\ Has(s, op.at) /\ ~Has(s, op.x)
           /\ Contents(h)' = ReplaceAll(s, op.at, op.x)
           /\ \A g \in ListHead : Linked(g) /\ g # h => Contents(g)' = Contents(g)
           /\ \A y \in Node : owner'[y] = IF y = op.at THEN None
                                          ELSE IF y = op.x THEN h ELSE owner[y]
<1>1. TypeOK /\ OwnerInv /\ Entry \subseteq Node /\ ListHead \cap Entry = {}
  BY ListAssumption DEF ListsInv, IInv, Node
<1>2. /\ op.x \in Node /\ op.at \in Node
      /\ Linked(op.at) /\ ~Linked(op.x) /\ op.x # op.at /\ op.x \in Entry
      /\ next[op.x] = next[op.at]
  BY <1>1, ReplaceAt4 DEF Node
<1>3. \A y \in Node :
         /\ next'[y] = IF y = prev[op.x] THEN op.x ELSE next[y]
         /\ owner'[y] = IF y = op.at THEN None
                        ELSE IF y = op.x THEN h ELSE owner[y]
  <2>1. \A y \in Node : owner[y] # op.at
    BY <1>1, <1>2, ListAssumption DEF TypeOK
  <2> QED BY <1>2, <2>1, ReplaceAt4
<1>4. h \in ListHead /\ Linked(h) /\ h # None /\ op.x # h /\ op.at # h
  BY <1>1, <1>2, PlaceOf DEF Linked
<1>6. /\ Ring(h, s, next) /\ Len(s) \in Nat
      /\ \A i \in 0 .. Len(s) + 1 :
            Place(h, s, i) \in Node /\ owner[Place(h, s, i)] = h
      /\ \A e \in Entry : owner[e] = h <=> Has(s, e)
      /\ \A i \in 1 .. Len(s) : s[i] \in Entry
      /\ \A i, j \in 1 .. Len(s) : s[i] = s[j] => i = j
  BY <1>4, PlaceOwner, RingLength DEF Ring, Distinct
<1>7. PICK i : i \in 1 .. Len(s) /\ op.at = s[i]
  BY <1>6 DEF Has
<1>8. i \in 0 .. Len(s) /\ i - 1 \in 0 .. Len(s) /\ s[i] = Place(h, s, i)
      /\ (i - 1) + 1 = i
  <2>1. Len(s) \in Nat
    BY <1>6
  <2>2. s[i] = Place(h, s, i)
    BY <1>7 DEF Place
  <2> QED BY <1>7, <2>1, <2>2
<1>9. next[op.at] = Place(h, s, i + 1) /\ next[op.at] # op.at
  <2>1. next[op.at] = Place(h, s, i + 1)
    <3>1. next[Place(h, s, i)] = Place(h, s, i + 1)
      BY <1>6, <1>8 DEF Ring, Distinct
    <3> QED BY <1>7, <1>8, <3>1
  <2>2. Place(h, s, i + 1) # s[i]
    <3>1. i + 1 # i /\ h # s[i]
      BY <1>4, <1>7
    <3> QED BY <1>6, <1>7, <3>1 DEF Place
  <2> QED BY <1>7, <2>1, <2>2
<1>10. prev[op.x] = Place(h, s, i - 1)
  <2>1. /\ prev[op.x] \in Node /\ owner[prev[op.x]] = h
        /\ next[prev[op.x]] = op.at
    BY <1>9, ReplaceAt4
  <2>2. PICK j : j \in 0 .. Len(s) /\ prev[op.x] = Place(h, s, j)
    BY <1>4, <2>1, PlaceOf DEF Linked
  <2>3. Place(h, s, j + 1) = s[i]
    BY <1>6, <1>7, <2>1, <2>2 DEF Ring, Distinct
  <2>4. j + 1 = i
    <3>1. j + 1 \in 1 .. Len(s)
      BY <1>4, <1>6, <1>7, <2>2, <2>3 DEF Place
    <3> QED BY <1>6, <1>7, <2>3, <3>1 DEF Place
  <2>5. j = i - 1
    BY <1>6, <2>2, <2>4
  <2> QED BY <2>2, <2>5
<1>11. ~Has(s, op.x)
  BY <1>2, <1>4, <1>6 DEF Linked
<1>12. /\ next'[Place(h, s, i - 1)] = op.x
       /\ \A y \in Node : y # Place(h, s, i - 1) => next'[y] = next[y]
       /\ next[op.x] = Place(h, s, i + 1)
  <2>1. Place(h, s, i - 1) \in Node
    BY <1>6, <1>8
  <2> QED BY <1>2, <1>3, <1>9, <1>10, <2>1
<1>13. /\ Ring(h, ReplaceAll(s, s[i], op.x), next')
       /\ \A e : Has(ReplaceAll(s, s[i], op.x), e) <=>
                    e = op.x \/ (e # s[i] /\ Has(s, e))
  <2>1. h \in ListHead /\ Ring(h, s, next) /\ i \in 1 .. Len(s)
    BY <1>4, <1>6, <1>7
  <2>2. op.x \in Entry /\ ~Has(s, op.x)
    BY <1>2, <1>11
  <2> QED BY <1>12, <2>1, <2>2, RingReplace
<1>14. PICK t : t = ReplaceAll(s, s[i], op.x)
  OBVIOUS
<1>15. ASSUME NEW e \in Entry PROVE owner'[e] = h <=> Has(t, e)
  <2>1. owner'[e] = IF e = op.at THEN None ELSE IF e = op.x THEN h ELSE owner[e]
    BY <1>1, <1>3
  <2>2. Has(t, e) <=> e = op.x \/ (e # op.at /\ Has(s, e))
    BY <1>7, <1>13, <1>14
  <2>3. owner[e] = h <=> Has(s, e)
    BY <1>6
  <2> QED BY <1>2, <1>4, <2>1, <2>2, <2>3
<1>16. /\ Contents(h)' = t /\ Ring(h, Contents(h), next)'
       /\ \A e \in Entry : owner'[e] = h <=> Has(Contents(h)', e)
  <2>1. Ring(h, t, next')
    BY <1>13, <1>14
  <2> QED BY <1>4, <1>15, <2>1, OneList
<1>17. ASSUME NEW g \in ListHead, Linked(g), g # h
       PROVE  /\ Contents(g)' = Contents(g) /\ Ring(g, Contents(g), next)'
              /\ \A e \in Entry : owner'[e] = g <=> Has(Contents(g)', e)
  <2>1. \A y \in Node : owner[y] = g => next'[y] = next[y]
    BY <1>6, <1>8, <1>12, <1>17
  <2>2. \A e \in Entry : owner'[e] = g <=> owner[e] = g
    <3>1. g # None
      BY <1>17, ListAssumption DEF Node
    <3> QED BY <1>1, <1>2, <1>3, <1>17, <3>1 DEF Linked
  <2> QED BY <1>17, <2>1, <2>2, OtherList
<1>18. \A g \in ListHead : Linked(g)' => Linked(g)
  BY <1>1, <1>2, <1>3 DEF Linked, Node
<1>19. ASSUME NEW e \in Entry, owner'[e] # None PROVE owner'[owner'[e]] # None
  <2>1. \A g \in ListHead : owner[g] # None => owner'[g] # None
    BY <1>1, <1>2, <1>3 DEF Node
  <2>2. owner'[e] = h \/ (owner'[e] = owner[e] /\ owner[e] # None)
    BY <1>1, <1>3, <1>19
  <2>3. owner[e] # None => owner[e] \in ListHead /\ owner[owner[e]] # None
    BY <1>1, PlaceOf DEF Linked
  <2> QED BY <1>4, <2>1, <2>2, <2>3 DEF Linked
<1>20. RingsInv'
  BY <1>16, <1>17, <1>18, <1>19 DEF RingsInv
<1> QED BY <1>3, <1>4, <1>7, <1>11, <1>14, <1>16, <1>17, <1>20 DEF Has

\* A head takes over another's list.
LEMMA ReplaceHeadLists ==
    ASSUME ListsInv, op # None, op.fn \in Replaces, op.pc = 4, Store,
           op.at \in ListHead, NEW h, h = op.at, NEW x, x = op.x,
           NEW s, s = Contents(h)
    PROVE  /\ RingsInv'
           /\ x \in ListHead /\ Linked(h) /\ ~Linked(x)
           /\ Contents(x)' = s
           /\ \A g \in ListHead : Linked(g) /\ g # h => Contents(g)' = Contents(g)
           /\ \A y \in Node : owner'[y] = IF y = h THEN None
                                          ELSE IF y = x \/ owner[y] = h THEN x
                                          ELSE owner[y]
<1>1. /\ TypeOK /\ OwnerInv /\ Entry \subseteq Node /\ ListHead \subseteq Node
      /\ ListHead \cap Entry = {} /\ None \notin Node
  BY ListAssumption DEF ListsInv, IInv, Node
<1>2. /\ x \in ListHead /\ Linked(h) /\ ~Linked(x) /\ x # h /\ next[x] = next[h]
      /\ owner[x] = None
  BY ReplaceAt4 DEF Linked
<1>3. \A y \in Node :
         /\ next'[y] = IF y = prev[x] THEN x ELSE next[y]
         /\ owner'[y] = IF y = h THEN None
                        ELSE IF y = x \/ owner[y] = h THEN x ELSE owner[y]
  <2>1. x \notin Entry
    BY <1>1, <1>2
  <2> QED BY <2>1, ReplaceAt4
<1>4. /\ Ring(h, s, next) /\ Len(s) \in Nat
      /\ \A i \in 0 .. Len(s) + 1 :
            Place(h, s, i) \in Node /\ owner[Place(h, s, i)] = h
      /\ \A e \in Entry : owner[e] = h <=> Has(s, e)
      /\ \A i \in 1 .. Len(s) : s[i] \in Entry
      /\ \A i, j \in 1 .. Len(s) : s[i] = s[j] => i = j
      /\ owner[h] = h
  BY <1>2, PlaceOwner, RingLength DEF Ring, Distinct
<1>5. next[h] = Place(h, s, 1)
  <2>1. Place(h, s, 0) = h /\ 0 \in 0 .. Len(s) /\ 0 + 1 = 1
    BY <1>4 DEF Place
  <2> QED BY <1>4, <2>1 DEF Ring, Distinct
<1>6. prev[x] = Place(x, s, Len(s))
  <2>1. CASE Len(s) = 0
    <3>1. next[h] = h /\ Place(x, s, Len(s)) = x
      BY <1>5, <2>1 DEF Place
    <3> QED BY <3>1, ReplaceAt4
  <2>2. CASE Len(s) # 0
    <3>1. next[h] # h
      BY <1>1, <1>4, <1>5, <2>2 DEF Place
    <3>2. prev[x] \in Node /\ owner[prev[x]] = h /\ next[prev[x]] = h
      BY <1>4, <3>1, ReplaceAt4
    <3>3. PICK j : j \in 0 .. Len(s) /\ prev[x] = Place(h, s, j)
      BY <1>1, <3>2, PlaceOf DEF Linked
    <3>4. Place(h, s, j + 1) = h
      BY <1>4, <3>2, <3>3 DEF Ring, Distinct
    <3>5. j = Len(s)
      BY <1>1, <1>4, <3>3, <3>4 DEF Place
    <3> QED BY <1>4, <2>2, <3>3, <3>5 DEF Place
  <2> QED BY <2>1, <2>2
<1>7. Len(s) > 0 => next[x] = s[1]
  BY <1>2, <1>4, <1>5 DEF Place
<1>8. Place(x, s, Len(s)) \in Node
  BY <1>1, <1>2, <1>4 DEF Place
<1>9. Ring(x, s, next')
  <2>1. /\ next'[Place(x, s, Len(s))] = x
        /\ \A y \in Node : y # Place(x, s, Len(s)) => next'[y] = next[y]
    BY <1>3, <1>6, <1>8
  <2> QED BY <1>2, <1>4, <1>7, <2>1, RingReplaceHead
<1>10. ASSUME NEW e \in Entry PROVE owner'[e] = x <=> Has(s, e)
  <2>1. owner[e] # x
    <3> SUFFICES ASSUME owner[e] = x PROVE FALSE
      OBVIOUS
    <3>1. Linked(e) /\ owner[owner[e]] = owner[e]
      BY <1>1, <1>2, PlaceOf DEF Linked
    <3> QED BY <1>1, <1>2, <3>1
  <2>2. e # h /\ e # x
    BY <1>1, <1>2
  <2> QED BY <1>1, <1>3, <1>4, <2>1, <2>2
<1>11. /\ Contents(x)' = s /\ Ring(x, Contents(x), next)'
       /\ \A e \in Entry : owner'[e] = x <=> Has(Contents(x)', e)
  BY <1>2, <1>9, <1>10, OneList
<1>12. ASSUME NEW g \in ListHead, Linked(g), g # h
       PROVE  /\ Contents(g)' = Contents(g) /\ Ring(g, Contents(g), next)'
              /\ \A e \in Entry : owner'[e] = g <=> Has(Contents(g)', e)
  <2>1. g # x /\ g # None
    BY <1>1, <1>2, <1>12
  <2>2. \A y \in Node : owner[y] = g => next'[y] = next[y]
    <3>1. owner[prev[x]] # g
      <4>1. prev[x] = x \/ owner[prev[x]] = h
        BY <1>4, <1>6 DEF Place
      <4> QED BY <1>2, <1>12, <2>1, <4>1
    <3> QED BY <1>3, <3>1
  <2>3. \A e \in Entry : owner'[e] = g <=> owner[e] = g
    BY <1>1, <1>2, <1>3, <1>12, <2>1
  <2> QED BY <1>12, <2>2, <2>3, OtherList
<1>13. \A g \in ListHead : Linked(g)' => g # h /\ (Linked(g) \/ g = x)
  <2> SUFFICES ASSUME NEW g \in ListHead, Linked(g)'
               PROVE  g # h /\ (Linked(g) \/ g = x)
    OBVIOUS
  <2>1. owner[g] = h => g = h
    BY <1>1, <1>2 DEF OwnerInv
  <2> QED BY <1>1, <1>3, <2>1 DEF Linked
<1>14. ASSUME NEW e \in Entry, owner'[e] # None PROVE owner'[owner'[e]] # None
  <2>1. owner'[x] = x /\ x # None
    BY <1>1, <1>2, <1>3
  <2>2. owner'[e] = x \/ (owner'[e] = owner[e] /\ owner[e] # None /\ owner[e] # h)
    BY <1>1, <1>2, <1>3, <1>14
  <2>3. owner[e] # None => owner[e] \in ListHead /\ owner[owner[e]] = owner[e]
    BY <1>1, PlaceOf DEF Linked
  <2> QED BY <1>1, <1>3, <2>1, <2>2, <2>3
<1>15. RingsInv'
  BY <1>11, <1>12, <1>13, <1>14 DEF RingsInv
<1> QED BY <1>2, <1>3, <1>11, <1>12, <1>15

\* Any other store leaves what a reader finds alone: it goes to a backward
\* pointer or to a node on no list.
LEMMA QuietStores ==
    ASSUME ListsInv, Store, ~Publishes
    PROVE  /\ owner' = owner /\ RingsInv'
           /\ \A h \in ListHead : Linked(h) => Contents(h)' = Contents(h)
<1>1. /\ TypeOK /\ op # None /\ op \in OpType /\ op.fn \in Function
      /\ op.pc \in 1 .. 4 /\ op.x \in Node /\ owner' = owner
  BY DEF ListsInv, IInv, TypeOK, OpType, Store
<1>2. \A y \in Node : Linked(y) => next'[y] = next[y]
  <2>1. CASE op.fn \in Adds
    <3>1. op.pc # 4 /\ ~Linked(op.x)
      BY <1>1, <2>1 DEF Publishes, Visible, Adds, Dels, ListsInv, IInv, CallInv, AddInv
    <3>2. next' = next \/ next' = [next EXCEPT ![op.x] = op.n]
      BY <1>1, <2>1, <3>1, AddStore
    <3> QED BY <1>1, <3>1, <3>2 DEF TypeOK
  <2>2. CASE op.fn \in Dels
    <3>1. op.pc = 1 \/ op.pc = 3
      BY <1>1, <2>2 DEF Publishes, Visible, Adds, Dels, ListsInv, IInv, CallInv, DelInv
    <3>2. op.pc = 3 => op.fn = "__list_del_clearprev"
      BY <1>1, <2>2 DEF ListsInv, IInv, CallInv, DelInv
    <3>3. next' = next
      BY <1>1, <2>2, <3>1, <3>2, DelStore, ClearStore DEF Dels
    <3> QED BY <3>3
  <2>3. CASE op.fn \in Replaces
    <3>1. op.pc # 4 /\ ~Linked(op.x)
      BY <1>1, <2>3 DEF Publishes, Visible, Adds, Dels, Replaces,
                        ListsInv, IInv, CallInv, ReplaceInv
    <3>2. next' = next \/ next' = [next EXCEPT ![op.x] = next[op.at]]
      BY <1>1, <2>3, <3>1, ReplaceStore
    <3> QED BY <1>1, <3>1, <3>2 DEF TypeOK
  <2>4. CASE op.fn = "INIT_LIST_HEAD"
    <3>1. op.pc = 2
      BY <1>1, <2>4 DEF Publishes, Visible, ListsInv, IInv, CallInv, InitInv
    <3> QED BY <1>1, <2>4, <3>1, InitStore
  <2> QED BY <1>1, <2>1, <2>2, <2>3, <2>4 DEF Function, Adds, Dels, Replaces
<1> QED BY <1>1, <1>2, QuietLists

\* A call is one of five kinds, and its publishing store is known.
LEMMA PublishAt ==
    ASSUME ListsInv, op # None
    PROVE  /\ op \in OpType /\ op.fn \in Function
           /\ op.fn \in Adds => (Publishes <=> op.pc = 4)
           /\ op.fn \in Dels => (Publishes <=> op.pc = 2)
           /\ op.fn \in Replaces => (Publishes <=> op.pc = 4)
           /\ op.fn = "INIT_LIST_HEAD" => (Publishes <=> op.pc = 1)
<1>1. op \in OpType /\ op.fn \in Function
  BY DEF ListsInv, IInv, TypeOK, OpType
<1> QED BY <1>1 DEF Publishes, Visible, Adds, Dels, Replaces

\* Every store keeps the lists what their nodes say they are.
LEMMA StoreRings ==
    ASSUME ListsInv, Store
    PROVE  RingsInv'
<1>1. op # None
  BY DEF Store
<1>2. CASE ~Publishes
  BY <1>2, QuietStores
<1>3. CASE Publishes
  <2>1. CASE op.fn \in Adds
    <3>1. PICK h : h = owner[op.at]
      OBVIOUS
    <3>2. PICK s : s = Contents(h)
      OBVIOUS
    <3> QED BY <1>1, <1>3, <2>1, <3>1, <3>2, PublishAt, AddLists
  <2>2. CASE op.fn \in Dels
    <3>1. PICK h : h = owner[op.x]
      OBVIOUS
    <3>2. PICK s : s = Contents(h)
      OBVIOUS
    <3> QED BY <1>1, <1>3, <2>2, <3>1, <3>2, PublishAt, DelLists
  <2>3. CASE op.fn \in Replaces /\ op.at \in Entry
    <3>1. PICK h : h = owner[op.at]
      OBVIOUS
    <3>2. PICK s : s = Contents(h)
      OBVIOUS
    <3> QED BY <1>1, <1>3, <2>3, <3>1, <3>2, PublishAt, ReplaceLists
  <2>4. CASE op.fn \in Replaces /\ op.at \in ListHead
    <3>1. PICK h : h = op.at
      OBVIOUS
    <3>2. PICK x : x = op.x
      OBVIOUS
    <3>3. PICK s : s = Contents(h)
      OBVIOUS
    <3> QED BY <1>1, <1>3, <2>4, <3>1, <3>2, <3>3, PublishAt, ReplaceHeadLists
  <2>5. CASE op.fn = "INIT_LIST_HEAD"
    <3>1. PICK h : h = op.x
      OBVIOUS
    <3> QED BY <1>1, <1>3, <2>5, <3>1, PublishAt, InitLists
  <2>6. op.at \in Entry \/ op.at \in ListHead
    BY <1>1, PublishAt DEF OpType, Node
  <2> QED BY <1>1, <2>1, <2>2, <2>3, <2>4, <2>5, <2>6, PublishAt
          DEF Function, Adds, Dels, Replaces
<1> QED BY <1>2, <1>3

\* A call goes on with the arguments it began with.
LEMMA StoreArgs ==
    ASSUME ListsInv, Store
    PROVE  ArgsInv'
<1>1. op # None /\ op \in OpType
  BY DEF Store, ListsInv, IInv, TypeOK
<1>2. op' = None \/ op' = InitOld \/ op' = [op EXCEPT !.pc = op.pc + 1]
  BY DEF Store, InitOld
<1>3. CASE op' = [op EXCEPT !.pc = op.pc + 1]
  BY <1>1, <1>3 DEF OpType, ListsInv, ArgsInv
<1>4. CASE op' = InitOld
  BY <1>4 DEF InitOld, ArgsInv
<1> QED BY <1>2, <1>3, <1>4 DEF ArgsInv

\* A step that makes no store.
LEMMA OtherSteps ==
    ASSUME ListsInv, [Next]_vars, ~Store
    PROVE  /\ owner' = owner /\ next' = next /\ RingsInv' /\ ArgsInv'
           /\ \A h \in ListHead : Linked(h) => Contents(h)' = Contents(h)
<1>1. /\ owner' = owner /\ next' = next /\ ArgsInv'
  <2>1. CASE UNCHANGED vars
    BY <2>1 DEF vars, links, ListsInv, ArgsInv
  <2>2. CASE Advance \/ \E h \in ListHead, from \in Node, dir \in {"next", "prev"},
                 safe \in BOOLEAN : list_for_each(h, from, dir, safe)
    BY <2>2 DEF Advance, list_for_each, links, ListsInv, ArgsInv
  <2>3. CASE \E x \in Node : init_list_head(x)
    BY <2>3 DEF init_list_head, Call, links, ArgsInv
  <2>4. CASE \E new \in Entry, head \in Node :
                list_add(new, head) \/ list_add_tail(new, head)
    BY <2>4 DEF list_add, list_add_tail, Call, links, ArgsInv
  <2>5. CASE \E entry \in Entry, fn \in {"list_del", "__list_del_clearprev"} :
                list_del(fn, entry)
    BY <2>5 DEF list_del, Call, links, ArgsInv
  <2>6. CASE \E old, new \in Node, fn \in {"list_replace", "list_replace_init"} :
                Replace(fn, old, new)
    BY <2>6 DEF Replace, Call, links, ArgsInv
  <2> QED BY <2>1, <2>2, <2>3, <2>4, <2>5, <2>6 DEF Next
<1>2. /\ RingsInv'
      /\ \A h \in ListHead : Linked(h) => Contents(h)' = Contents(h)
  BY <1>1, QuietLists
<1> QED BY <1>1, <1>2

\* Every step keeps ListsInv.
LEMMA NextLists ==
    ASSUME ListsInv, [Next]_vars
    PROVE  ListsInv'
<1>1. IInv'
  BY NextIInv DEF ListsInv
<1> QED BY <1>1, StoreRings, StoreArgs, OtherSteps DEF ListsInv

\* LIST_HEAD()s are heads of empty lists.
LEMMA InitListsInv ==
    ASSUME Init
    PROVE  /\ ListsInv
           /\ \A h \in ListHead : Linked(h) => Contents(h) = <<>>
<1>1. PICK S \in SUBSET ListHead :
        /\ next  = [x \in Node |-> IF x \in S THEN x ELSE NULL]
        /\ owner = [x \in Node |-> IF x \in S THEN x ELSE None]
  BY DEF Init
<1>2. \A e \in Entry : owner[e] = None
  BY <1>1, ListAssumption DEF Node
<1>3. ASSUME NEW h \in ListHead, Linked(h)
      PROVE  Ring(h, <<>>, next) /\ Contents(h) = <<>>
  <2>1. <<>> \in Seq(Entry) /\ Len(<<>>) = 0
    OBVIOUS
  <2>2. \A i \in 0 .. 1 : Place(h, <<>>, i) = h
    BY <2>1 DEF Place
  <2>3. next[h] = h
    BY <1>1, <1>3 DEF Linked, Node
  <2>4. \A i \in 0 .. 0 : next[Place(h, <<>>, i)] = Place(h, <<>>, i + 1)
    BY <2>2, <2>3
  <2>5. Ring(h, <<>>, next)
    BY <2>1, <2>4 DEF Ring, Distinct
  <2> QED BY <2>5, RingContents DEF Contents
<1>4. \A h \in ListHead, e \in Entry :
         Linked(h) => (owner[e] = h <=> Has(Contents(h), e))
  <2>1. \A e : ~Has(<<>>, e)
    BY DEF Has
  <2>2. \A h \in ListHead : h # None
    BY ListAssumption DEF Node
  <2> QED BY <1>2, <1>3, <2>1, <2>2
<1>5. RingsInv
  BY <1>2, <1>3, <1>4 DEF RingsInv
<1>6. ArgsInv
  BY DEF Init, ArgsInv
<1> QED BY <1>3, <1>5, <1>6, InitIInv DEF ListsInv

\* What a reader along next finds from a head is what was put on its list and
\* not taken from it, each entry once: at every store of every call.
THEOREM ContentsKnown == Spec => []ListsInv
<1> QED BY InitListsInv, NextLists, PTL DEF Spec

\* In any state of the invariant the predicates are right.
LEMMA PredicatesOf ==
    ASSUME ListsInv
    PROVE  PredicatesAgree
<1> SUFFICES ASSUME NEW h \in ListHead, Linked(h), NEW s, s = Contents(h)
             PROVE  /\ list_empty(h) <=> s = <<>>
                    /\ list_first_entry_or_null(h) =
                          IF s = <<>> THEN NULL ELSE s[1]
                    /\ \A k \in DOMAIN s : list_is_last(s[k], h) <=> k = Len(s)
                    /\ op = None =>
                          /\ Walk(h, h, prev) = Reverse(s)
                          /\ \A k \in DOMAIN s : list_is_first(s[k], h) <=> k = 1
  BY DEF PredicatesAgree
<1>1. /\ Ring(h, s, next) /\ Len(s) \in Nat /\ s \in Seq(Entry)
      /\ \A i \in 0 .. Len(s) + 1 :
            Place(h, s, i) \in Node /\ owner[Place(h, s, i)] = h
      /\ owner[h] = h
  BY PlaceOwner DEF Ring, Distinct
<1>2. \A i \in 1 .. Len(s) : s[i] \in Entry /\ s[i] # h /\ Place(h, s, i) = s[i]
  BY <1>1, RingLength, ListAssumption DEF Place
<1>3. \A i \in 0 .. Len(s) : next[Place(h, s, i)] = Place(h, s, i + 1)
  BY <1>1 DEF Ring, Distinct
<1>4. next[h] = IF Len(s) = 0 THEN h ELSE s[1]
  <2>1. Place(h, s, 0) = h /\ 0 \in 0 .. Len(s) /\ 0 + 1 = 1
    BY <1>1 DEF Place
  <2>2. next[h] = Place(h, s, 1)
    BY <1>3, <2>1
  <2> QED BY <1>1, <2>2 DEF Place
<1>5. s = <<>> <=> Len(s) = 0
  BY <1>1
<1>6. DOMAIN s = 1 .. Len(s)
  BY <1>1
<1>7. list_empty(h) <=> s = <<>>
  <2>1. Len(s) # 0 => 1 \in 1 .. Len(s)
    BY <1>1
  <2> QED BY <1>2, <1>4, <1>5, <2>1 DEF list_empty
<1>8. list_first_entry_or_null(h) = IF s = <<>> THEN NULL ELSE s[1]
  BY <1>4, <1>5, <1>7 DEF list_first_entry_or_null, list_empty
<1>9. ASSUME NEW k \in 1 .. Len(s) PROVE list_is_last(s[k], h) <=> k = Len(s)
  <2>1. k \in 0 .. Len(s) /\ k + 1 \in Nat
    BY <1>1
  <2>2. next[s[k]] = Place(h, s, k + 1)
    BY <1>2, <1>3, <2>1
  <2>3. k = Len(s) => Place(h, s, k + 1) = h
    BY <1>1 DEF Place
  <2>4. k # Len(s) => k + 1 \in 1 .. Len(s)
    BY <1>1
  <2> QED BY <1>2, <2>2, <2>3, <2>4 DEF list_is_last
<1>10. ASSUME op = None
       PROVE  /\ Walk(h, h, prev) = Reverse(s)
              /\ \A k \in 1 .. Len(s) : list_is_first(s[k], h) <=> k = 1
  <2>1. \A x \in Node : Linked(x) => prev[next[x]] = x
    BY <1>10 DEF ListsInv, IInv, RingInv, RingAt, Settled
  <2>2. \A i \in 0 .. Len(s) : prev[next[Place(h, s, i)]] = Place(h, s, i)
    <3>1. h # None
      BY ListAssumption DEF Node
    <3> QED BY <1>1, <2>1, <3>1 DEF Linked
  <2>3. Walk(h, h, prev) = Reverse(s)
    BY <1>1, <2>2, RingBack, RingContents
  <2>4. ASSUME NEW k \in 1 .. Len(s) PROVE list_is_first(s[k], h) <=> k = 1
    <3>1. k - 1 \in 0 .. Len(s) /\ (k - 1) + 1 = k
      BY <1>1
    <3>2. next[Place(h, s, k - 1)] = Place(h, s, k)
      BY <1>3, <3>1
    <3>3. prev[s[k]] = Place(h, s, k - 1)
      BY <1>2, <2>2, <3>1, <3>2
    <3>4. k = 1 => Place(h, s, k - 1) = h
      BY DEF Place
    <3>5. k # 1 => k - 1 \in 1 .. Len(s)
      BY <1>1
    <3> QED BY <1>2, <3>3, <3>4, <3>5 DEF list_is_first
  <2> QED BY <2>3, <2>4
<1> QED BY <1>6, <1>7, <1>8, <1>9, <1>10

\* The header's predicates say what the contents are, for any lists.
THEOREM PredicatesRight == Spec => []PredicatesAgree
<1> QED BY ContentsKnown, PredicatesOf, PTL

-----------------------------------------------------------------------------
(* The lists of pointers are lists                                         *)

\* The call in progress, as it is shown before it takes effect.
Ask == [fn |-> op.fn, x |-> op.x, at |-> op.at]

\* Both modules take these from the same library.
LEMMA SameLibrary ==
    ASSUME NEW s, NEW i, NEW x, NEW y
    PROVE  /\ Lists!ToSet(s) = ToSet(s)
           /\ Lists!InsertAt(s, i, x) = InsertAt(s, i, x)
           /\ Lists!ReplaceAll(s, x, y) = ReplaceAll(s, x, y)
           /\ Lists!RemoveFirst(s, x) = RemoveFirst(s, x)
<1>1. Lists!ToSet(s) = ToSet(s)
  BY DEF Lists!ToSet, ToSet
<1>2. Lists!InsertAt(s, i, x) = InsertAt(s, i, x)
  BY DEF Lists!InsertAt, InsertAt
<1>3. Lists!ReplaceAll(s, x, y) = ReplaceAll(s, x, y)
  BY DEF Lists!ReplaceAll, ReplaceAll
<1>4. Lists!RemoveFirst(s, x) = RemoveFirst(s, x)
  BY DEF Lists!RemoveFirst, RemoveFirst, Lists!RemoveAt, RemoveAt,
         Lists!SelectInSeq, SelectInSeq, Lists!Min, Min
<1> QED BY <1>1, <1>2, <1>3, <1>4

\* A call that is shown is neither none nor done.
LEMMA AskIsCall ==
    ASSUME op \in OpType PROVE Ask # None /\ Ask # Done
<1>1. Ask \in [fn : Function, x : Node, at : Node]
  BY DEF Ask, OpType
<1> QED BY <1>1, ListAssumption

\* The heads that are told of, and the nodes on their lists.
LEMMA ToldOf ==
    ASSUME ListsInv
    PROVE  /\ DOMAIN Told = {g \in ListHead : Linked(g)}
           /\ \A g \in ListHead : Linked(g) => Told[g] = Contents(g)
           /\ Lists!InUse(Told) = {x \in Node : Linked(x)}
<1>1. /\ DOMAIN Told = {g \in ListHead : Linked(g)}
      /\ \A g \in ListHead : Linked(g) => Told[g] = Contents(g)
  BY DEF Told
<1>2. ASSUME NEW x PROVE x \in Lists!InUse(Told) <=> x \in Node /\ Linked(x)
  <2>1. x \in Lists!InUse(Told) <=>
           (x \in ListHead /\ Linked(x))
           \/ \E g \in ListHead : Linked(g) /\ x \in ToSet(Told[g])
    <3> DEFINE D == DOMAIN Told
    <3> HIDE DEF D
    <3>1. x \in Lists!InUse(Told) <=> x \in D \/ \E g \in D : x \in ToSet(Told[g])
      BY SameLibrary DEF Lists!InUse, D
    <3> QED BY <1>1, <3>1 DEF D
  <2>2. ASSUME NEW g \in ListHead, Linked(g)
        PROVE  x \in ToSet(Told[g]) <=> x \in Entry /\ owner[x] = g
    <3>1. PICK s : s = Contents(g)
      OBVIOUS
    <3>2. Told[g] = s
      BY <1>1, <2>2, <3>1
    <3>3. /\ Ring(g, s, next) /\ \A e \in Entry : owner[e] = g <=> Has(s, e)
      BY <2>2, <3>1, PlaceOwner
    <3>4. Len(s) \in Nat /\ s \in Seq(Entry) /\ \A i \in 1 .. Len(s) : s[i] \in Entry
      BY <3>3, RingLength DEF Ring, Distinct
    <3>5. x \in ToSet(s) <=> Has(s, x)
      <4>1. DOMAIN s = 1 .. Len(s)
        BY <3>4
      <4> QED BY <4>1 DEF ToSet, Has
    <3> QED BY <3>2, <3>3, <3>4, <3>5 DEF Has
  <2>3. x \in Entry /\ Linked(x) => owner[x] \in ListHead /\ Linked(owner[x])
    BY PlaceOf DEF Node
  <2>4. \A g \in ListHead : x \in Entry /\ owner[x] = g => Linked(x)
    BY ListAssumption DEF Node, Linked
  <2> QED BY <2>1, <2>2, <2>3, <2>4 DEF Node
<1> QED BY <1>1, <1>2

\* Where nothing is stored that a reader meets, the same is told.
LEMMA SameTold ==
    ASSUME owner' = owner,
           \A h \in ListHead : Linked(h) => Contents(h)' = Contents(h)
    PROVE  Told' = Told
BY DEF Told, Linked

\* A call that begins.
LEMMA StartStep ==
    ASSUME ListsInv, NEW fn, NEW x \in Node, NEW at \in Node, NEW p \in Node,
           NEW n \in Node, fn \in Function, Call(fn, x, at, p, n),
           \/ fn = "INIT_LIST_HEAD" /\ ~Linked(x)
           \/ fn \in Adds /\ x \in Entry /\ ~Linked(x) /\ Linked(at)
           \/ fn \in Dels /\ x \in Entry /\ Linked(x)
           \/ fn \in Replaces /\ Linked(at) /\ ~Linked(x)
              /\ (x \in ListHead <=> at \in ListHead),
           Told' = Told
    PROVE  Lists!Start
<1>1. /\ op = None
      /\ op' = [fn |-> fn, x |-> x, at |-> at, p |-> p, n |-> n, pc |-> 1]
  BY DEF Call
<1>2. op' \in OpType
  BY <1>1 DEF OpType
<1>3. op' # None /\ ~(op'.pc > Visible')
  <2>1. Visible' \in {1, 2, 4} /\ op'.pc = 1
    BY <1>1 DEF Visible
  <2> QED BY <1>2, <2>1, ListAssumption
<1>4. Shown = None
  BY <1>1 DEF Shown
<1>5. PICK o : o = [fn |-> fn, x |-> x, at |-> at]
  OBVIOUS
<1>6. Shown' = o
  BY <1>1, <1>3, <1>5 DEF Shown
<1>7. o \in [fn : Function, x : Node, at : Node]
  BY <1>5
<1>8. o # None /\ o # Done
  BY <1>7, ListAssumption
<1>9. Lists!InUse(Told) = {y \in Node : Linked(y)}
  BY ToldOf
<1>10. Lists!Legal(Told, o)
  BY <1>5, <1>9 DEF Lists!Legal, Adds, Dels, Replaces, Node
<1> QED BY <1>4, <1>6, <1>8, <1>10 DEF Lists!Start

\* A step that makes no store begins a call or shows nothing.
LEMMA OtherTold ==
    ASSUME ListsInv, [Next]_vars, ~Store
    PROVE  Lists!Start \/ (Told' = Told /\ Shown' = Shown)
<1>1. Told' = Told
  BY OtherSteps, SameTold
<1>2. next \in [Node -> Node \cup {NULL}] /\ prev \in [Node -> Node \cup {NULL}]
  BY DEF ListsInv, IInv, TypeOK
<1>3. op = None => \A y \in Node : Linked(y) => next[y] \in Node /\ prev[y] \in Node
  BY DEF ListsInv, IInv, RingInv, RingAt, Settled
<1>4. CASE op' = op
  BY <1>1, <1>4 DEF Shown, Visible
<1>5. CASE \E x \in Node : init_list_head(x)
  BY <1>1, <1>5, StartStep DEF init_list_head, Function
<1>6. CASE \E new \in Entry, head \in Node :
              list_add(new, head) \/ list_add_tail(new, head)
  <2>1. PICK new \in Entry, head \in Node :
            list_add(new, head) \/ list_add_tail(new, head)
    BY <1>6
  <2>2. new \in Node /\ Linked(head) /\ op = None /\ ~Linked(new)
    BY <2>1 DEF list_add, list_add_tail, Call, Node
  <2>3. next[head] \in Node /\ prev[head] \in Node
    BY <1>3, <2>2
  <2> QED BY <1>1, <2>1, <2>2, <2>3, StartStep
          DEF list_add, list_add_tail, Function, Adds
<1>7. CASE \E entry \in Entry, fn \in {"list_del", "__list_del_clearprev"} :
              list_del(fn, entry)
  <2>1. PICK entry \in Entry, fn \in {"list_del", "__list_del_clearprev"} :
            list_del(fn, entry)
    BY <1>7
  <2>2. entry \in Node /\ Linked(entry) /\ op = None
    BY <2>1 DEF list_del, Call, Node
  <2>3. next[entry] \in Node /\ prev[entry] \in Node
    BY <1>3, <2>2
  <2> QED BY <1>1, <2>1, <2>2, <2>3, StartStep DEF list_del, Function, Dels
<1>8. CASE \E old, new \in Node, fn \in {"list_replace", "list_replace_init"} :
              Replace(fn, old, new)
  <2>1. PICK old \in Node, new \in Node, fn \in {"list_replace", "list_replace_init"} :
            Replace(fn, old, new)
    BY <1>8
  <2> QED BY <1>1, <2>1, StartStep DEF Replace, Function, Replaces
<1>9. CASE Advance \/ \E h \in ListHead, from \in Node, dir \in {"next", "prev"},
                 safe \in BOOLEAN : list_for_each(h, from, dir, safe)
  BY <1>4, <1>9 DEF Advance, list_for_each
<1> QED BY <1>4, <1>5, <1>6, <1>7, <1>8, <1>9 DEF Next, vars

\* A store that no reader meets ends a call that took effect, or shows nothing.
LEMMA QuietTold ==
    ASSUME ListsInv, Store, ~Publishes
    PROVE  Lists!Return \/ (Told' = Told /\ Shown' = Shown)
<1>1. /\ op # None /\ op \in OpType /\ op.fn \in Function /\ op.pc \in 1 .. 4
  BY PublishAt DEF Store, OpType
<1>2. Told' = Told
  BY QuietStores, SameTold
<1>3. ASSUME op.pc < Visible, op' = Before(op.pc + 1)
      PROVE  Shown' = Shown
  <2>1. op.pc + 1 \in 1 .. 4 /\ op.pc + 1 <= Visible
    BY <1>1, <1>3 DEF Visible
  <2>2. /\ op' # None /\ op'.fn = op.fn /\ op'.x = op.x /\ op'.at = op.at
        /\ op'.pc = op.pc + 1
    BY <1>1, <1>3, <2>1, NextStore
  <2>3. Visible' = Visible
    BY <2>2 DEF Visible
  <2>4. ~(op'.pc > Visible') /\ ~(op.pc > Visible)
    BY <1>1, <1>3, <2>1, <2>2, <2>3 DEF Visible
  <2> QED BY <1>1, <2>2, <2>4 DEF Shown
<1>4. ASSUME op.pc > Visible, op' = None
      PROVE  Lists!Return
  <2>1. Shown = Done /\ Shown' = None
    BY <1>1, <1>4 DEF Shown
  <2> QED BY <1>2, <2>1 DEF Lists!Return
<1>5. CASE op.fn \in Adds
  <2>1. Visible = 4 /\ op.pc # 4
    BY <1>1, <1>5 DEF Publishes, Visible, Adds
  <2>2. op.pc + 1 \in 2 .. 4 /\ op' = Before(op.pc + 1)
    BY <1>1, <1>5, <2>1, AddStore
  <2> QED BY <1>1, <1>2, <1>3, <2>1, <2>2
<1>6. CASE op.fn = "list_del"
  <2>1. Visible = 2 /\ op.pc = 1
    BY <1>1, <1>6 DEF Publishes, Visible, ListsInv, IInv, CallInv, DelInv, Dels
  <2> QED BY <1>1, <1>2, <1>3, <1>6, <2>1, DelStore
<1>7. CASE op.fn = "__list_del_clearprev"
  <2>1. Visible = 2 /\ (op.pc = 1 \/ op.pc = 3)
    BY <1>1, <1>7 DEF Publishes, Visible, ListsInv, IInv, CallInv, DelInv, Dels
  <2> QED BY <1>1, <1>2, <1>3, <1>4, <1>7, <2>1, ClearStore
<1>8. CASE op.fn \in Replaces
  <2>1. Visible = 4 /\ op.pc # 4
    BY <1>1, <1>8 DEF Publishes, Visible, Replaces
  <2>2. op.pc + 1 \in 2 .. 4 /\ op' = Before(op.pc + 1)
    BY <1>1, <1>8, <2>1, ReplaceStore
  <2> QED BY <1>1, <1>2, <1>3, <2>1, <2>2
<1>9. CASE op.fn = "INIT_LIST_HEAD"
  <2>1. Visible = 1 /\ op.pc = 2
    BY <1>1, <1>9 DEF Publishes, Visible, ListsInv, IInv, CallInv, InitInv
  <2> QED BY <1>1, <1>4, <1>9, <2>1, InitStore
<1> QED BY <1>1, <1>5, <1>6, <1>7, <1>8, <1>9 DEF Function, Adds, Replaces

\* What comes comes in where ListContents says.
LEMMA AddResult ==
    ASSUME ListsInv, op # None, op.fn \in Adds, op.pc = 4, Store
    PROVE  Told' = Lists!Result(Told, Ask)
<1>1. PICK h : h = owner[op.at]
  OBVIOUS
<1>2. PICK s : s = Contents(h)
  OBVIOUS
<1>3. PICK at : at = op.at
  OBVIOUS
<1>4. PICK x : x = op.x
  OBVIOUS
<1>5. PICK behind : behind = (op.fn = "list_add")
  OBVIOUS
<1>6. /\ h \in ListHead /\ Linked(h) /\ ~Has(s, x)
      /\ \A g \in ListHead : Linked(g) /\ g # h => Contents(g)' = Contents(g)
      /\ owner' = [owner EXCEPT ![x] = h]
  BY <1>1, <1>2, <1>4, AddLists
<1>7. PICK i : /\ i \in 0 .. Len(s) /\ op.p = Place(h, s, i)
               /\ op.n = Place(h, s, i + 1)
               /\ Contents(h)' = InsertAt(s, i + 1, x)
  BY <1>1, <1>2, <1>4, AddLists
<1>8. IF behind THEN at = Place(h, s, i) ELSE at = Place(h, s, i + 1)
  BY <1>3, <1>5, <1>7 DEF ListsInv, ArgsInv, Adds
<1>9. /\ at \in Node /\ Linked(at) /\ x \in Entry /\ owner[at] = h
      /\ owner \in [Node -> ListHead \cup {None}] /\ x \in Node
  BY <1>1, <1>3, <1>4 DEF ListsInv, IInv, TypeOK, OpType, CallInv, AddInv, Node
<1>10. /\ Ring(h, s, next) /\ Len(s) \in Nat
       /\ \A e \in Entry : owner[e] = h <=> Has(s, e)
       /\ s \in Seq(Entry) /\ \A k \in 1 .. Len(s) : s[k] \in Entry
       /\ \A j, k \in 1 .. Len(s) : s[j] = s[k] => j = k
  BY <1>2, <1>6, PlaceOwner, RingLength DEF Ring, Distinct
<1>11. /\ DOMAIN Told = {g \in ListHead : Linked(g)}
       /\ \A g \in ListHead : Linked(g) => Told[g] = Contents(g)
  BY ToldOf
<1> DEFINE K(g) == IF g = at THEN IF behind THEN 0 ELSE Len(Told[g]) + 1
                   ELSE CHOOSE j \in DOMAIN Told[g] : Told[g][j] = at
           R == [g \in DOMAIN Told |->
                    IF g = at \/ at \in ToSet(Told[g])
                      THEN InsertAt(Told[g], IF behind THEN K(g) + 1 ELSE K(g), x)
                      ELSE Told[g]]
<1>12. Lists!Result(Told, Ask) = R
  <2>1. Lists!Result(Told, Ask) = Lists!Added(Told, x, at, behind)
    BY <1>3, <1>4, <1>5 DEF Lists!Result, Ask, Adds
  <2>2. Lists!Added(Told, x, at, behind) = R
    BY SameLibrary DEF Lists!Added
  <2> QED BY <2>1, <2>2
<1>13. Told[h] = s /\ DOMAIN s = 1 .. Len(s)
  BY <1>2, <1>6, <1>10, <1>11
<1>14. at = h \/ at \in ToSet(s)
  <2>1. at \in ListHead => at = h
    BY <1>9 DEF ListsInv, IInv, OwnerInv, Linked
  <2>2. at \in Entry => at \in ToSet(s)
    BY <1>9, <1>10, <1>13 DEF Has, ToSet
  <2> QED BY <1>9, <2>1, <2>2 DEF Node
<1>15. (IF behind THEN K(h) + 1 ELSE K(h)) = i + 1
  <2> DEFINE c == CHOOSE k \in DOMAIN s : s[k] = at
  <2>1. \A j \in 1 .. Len(s) : s[j] = at => c = j
    <3> SUFFICES ASSUME NEW j \in 1 .. Len(s), s[j] = at PROVE c = j
      OBVIOUS
    <3>1. c \in DOMAIN s /\ s[c] = at
      BY <1>13
    <3> HIDE DEF c
    <3> QED BY <1>10, <1>13, <3>1
  <2>2. h \notin Entry
    BY <1>6, ListAssumption
  <2>3. CASE behind /\ h = at
    <3>1. i = 0
      BY <1>7, <1>8, <1>10, <2>2, <2>3 DEF Place
    <3> QED BY <2>3, <3>1
  <2>4. CASE behind /\ h # at
    <3>1. i \in 1 .. Len(s) /\ s[i] = at
      BY <1>7, <1>8, <1>10, <2>4 DEF Place
    <3> QED BY <1>13, <2>1, <2>4, <3>1
  <2>5. CASE ~behind /\ h = at
    <3>1. i + 1 \notin 1 .. Len(s)
      BY <1>7, <1>8, <1>10, <2>2, <2>5 DEF Place
    <3>2. i + 1 = Len(s) + 1
      BY <1>7, <1>10, <3>1
    <3> QED BY <1>13, <2>5, <3>2
  <2>6. CASE ~behind /\ h # at
    <3>1. i + 1 \in 1 .. Len(s) /\ s[i + 1] = at
      BY <1>7, <1>8, <1>10, <2>6 DEF Place
    <3> QED BY <1>13, <2>1, <2>6, <3>1
  <2> QED BY <2>3, <2>4, <2>5, <2>6
<1>16. R[h] = Contents(h)'
  <2> HIDE DEF K
  <2>1. h \in DOMAIN Told
    BY <1>6, <1>11
  <2> QED BY <1>7, <1>13, <1>14, <1>15, <2>1
<1>17. ASSUME NEW g \in ListHead, Linked(g), g # h PROVE R[g] = Contents(g)'
  <2>1. at # g
    BY <1>9, <1>17 DEF ListsInv, IInv, OwnerInv, Linked
  <2>2. at \notin ToSet(Told[g])
    <3>1. PICK t : t = Contents(g)
      OBVIOUS
    <3>2. Ring(g, t, next) /\ \A e \in Entry : owner[e] = g <=> Has(t, e)
      BY <1>17, <3>1, PlaceOwner
    <3>3. DOMAIN t = 1 .. Len(t) /\ \A k \in 1 .. Len(t) : t[k] \in Entry
      BY <3>2, RingLength DEF Ring, Distinct
    <3>4. Told[g] = t
      BY <1>11, <1>17, <3>1
    <3> QED BY <1>9, <1>17, <3>2, <3>3, <3>4 DEF ToSet, Has
  <2> HIDE DEF K
  <2>3. g \in DOMAIN Told
    BY <1>11, <1>17
  <2>4. R[g] = Told[g]
    BY <2>1, <2>2, <2>3
  <2> QED BY <1>6, <1>11, <1>17, <2>4
<1>18. \A g \in ListHead : Linked(g)' <=> Linked(g)
  BY <1>6, <1>9, ListAssumption DEF Linked
<1>19. DOMAIN R = {g \in ListHead : Linked(g)'}
  BY <1>11, <1>18
<1>20. R = [g \in DOMAIN R |-> R[g]]
  OBVIOUS
<1>21. \A g \in DOMAIN R : R[g] = Contents(g)'
  BY <1>16, <1>17, <1>18, <1>19
<1> HIDE DEF R
<1>22. R = [g \in {g \in ListHead : Linked(g)'} |-> Contents(g)']
  BY <1>19, <1>20, <1>21
<1> QED BY <1>12, <1>22 DEF Told

\* What is told when the heads in use and their lists are known.
LEMMA ToldIs ==
    ASSUME NEW R, R = [g \in DOMAIN R |-> R[g]],
           DOMAIN R = {g \in ListHead : Linked(g)'},
           \A g \in DOMAIN R : R[g] = Contents(g)'
    PROVE  Told' = R
<1>1. R = [g \in {g \in ListHead : Linked(g)'} |-> Contents(g)']
  OBVIOUS
<1> QED BY <1>1 DEF Told

\* A node that is on no list, or on another, is not in what is told of g.
LEMMA NotTold ==
    ASSUME ListsInv, NEW g \in ListHead, Linked(g), NEW x \in Node, owner[x] # g
    PROVE  /\ \A k \in 1 .. Len(Told[g]) : Told[g][k] # x
           /\ \A y : ReplaceAll(Told[g], x, y) = Told[g]
           /\ RemoveFirst(Told[g], x) = Told[g]
<1>1. PICK t : t = Told[g]
  OBVIOUS
<1>2. t = Contents(g)
  BY <1>1, ToldOf
<1>3. Ring(g, t, next) /\ \A e \in Entry : owner[e] = g <=> Has(t, e)
  BY <1>2, PlaceOwner
<1>4. /\ Len(t) \in Nat /\ t = [i \in 1 .. Len(t) |-> t[i]]
      /\ \A k \in 1 .. Len(t) : t[k] \in Entry
  BY <1>3, RingLength
<1>5. \A k \in 1 .. Len(t) : t[k] # x
  BY <1>3, <1>4 DEF Has
<1>6. \A y : ReplaceAll(t, x, y) = t
  <2> SUFFICES ASSUME NEW y PROVE ReplaceAll(t, x, y) = t
    OBVIOUS
  <2>1. ReplaceAll(t, x, y) = [i \in 1 .. Len(t) |-> IF t[i] = x THEN y ELSE t[i]]
    BY DEF ReplaceAll
  <2>2. [i \in 1 .. Len(t) |-> IF t[i] = x THEN y ELSE t[i]] = [i \in 1 .. Len(t) |-> t[i]]
    BY <1>5
  <2> QED BY <1>4, <2>1, <2>2
<1>7. RemoveFirst(t, x) = t
  BY <1>5 DEF RemoveFirst
<1> QED BY <1>1, <1>5, <1>6, <1>7

\* An entry that goes, goes from what is told of its list.
LEMMA DelResult ==
    ASSUME ListsInv, op # None, op.fn \in Dels, op.pc = 2, Store
    PROVE  Told' = Lists!Result(Told, Ask)
<1>1. PICK h : h = owner[op.x]
  OBVIOUS
<1>2. PICK s : s = Contents(h)
  OBVIOUS
<1>3. PICK x : x = op.x
  OBVIOUS
<1>4. /\ h \in ListHead /\ Linked(h)
      /\ Contents(h)' = RemoveFirst(s, x)
      /\ \A g \in ListHead : Linked(g) /\ g # h => Contents(g)' = Contents(g)
      /\ owner' = [owner EXCEPT ![x] = None]
  BY <1>1, <1>2, <1>3, DelLists
<1>5. /\ x \in Entry /\ owner[x] = h
      /\ owner \in [Node -> ListHead \cup {None}] /\ x \in Node
  BY <1>1, <1>3 DEF ListsInv, IInv, TypeOK, OpType, CallInv, DelInv, Node
<1>6. /\ DOMAIN Told = {g \in ListHead : Linked(g)}
      /\ \A g \in ListHead : Linked(g) => Told[g] = Contents(g)
  BY ToldOf
<1> DEFINE R == [g \in DOMAIN Told |-> RemoveFirst(Told[g], x)]
<1>7. Lists!Result(Told, Ask) = R
  BY <1>3, SameLibrary DEF Lists!Result, Ask, Dels
<1>8. \A g \in ListHead : Linked(g)' <=> Linked(g)
  BY <1>4, <1>5, ListAssumption DEF Linked, Node
<1>9. DOMAIN R = {g \in ListHead : Linked(g)'}
  BY <1>6, <1>8
<1>10. ASSUME NEW g \in ListHead, Linked(g) PROVE R[g] = Contents(g)'
  <2>1. R[g] = RemoveFirst(Told[g], x)
    BY <1>6, <1>10
  <2>2. CASE g = h
    BY <1>2, <1>4, <1>6, <1>10, <2>1, <2>2
  <2>3. CASE g # h
    BY <1>4, <1>5, <1>6, <1>10, <2>1, <2>3, NotTold
  <2> QED BY <2>2, <2>3
<1>11. R = [g \in DOMAIN R |-> R[g]]
  OBVIOUS
<1> HIDE DEF R
<1>12. \A g \in DOMAIN R : R[g] = Contents(g)'
  BY <1>8, <1>9, <1>10
<1> QED BY <1>7, <1>9, <1>11, <1>12, ToldIs

\* A head that is initialised is told of from then on.
LEMMA InitResult ==
    ASSUME ListsInv, op # None, op.fn = "INIT_LIST_HEAD", op.pc = 1, Store
    PROVE  Told' = Lists!Result(Told, Ask)
<1>1. PICK x : x = op.x
  OBVIOUS
<1>2. /\ x \in ListHead => Contents(x)' = <<>>
      /\ \A g \in ListHead : Linked(g) => Contents(g)' = Contents(g)
      /\ owner' = [owner EXCEPT ![x] = IF x \in ListHead THEN x ELSE None]
      /\ ~Linked(x)
  BY <1>1, InitLists
<1>3. owner \in [Node -> ListHead \cup {None}] /\ x \in Node
  BY <1>1 DEF ListsInv, IInv, TypeOK, OpType
<1>4. /\ DOMAIN Told = {g \in ListHead : Linked(g)}
      /\ \A g \in ListHead : Linked(g) => Told[g] = Contents(g)
  BY ToldOf
<1> DEFINE R == [g \in DOMAIN Told \cup ({x} \cap ListHead) |->
                    IF g = x THEN <<>> ELSE Told[g]]
<1>5. Lists!Result(Told, Ask) = R
  BY <1>1 DEF Lists!Result, Ask
<1>6. \A g \in ListHead : Linked(g)' <=> Linked(g) \/ g = x
  BY <1>2, <1>3, ListAssumption DEF Linked, Node
<1>7. DOMAIN R = {g \in ListHead : Linked(g)'}
  BY <1>4, <1>6
<1>8. \A g \in DOMAIN R : R[g] = Contents(g)'
  BY <1>2, <1>4, <1>6, <1>7
<1>9. R = [g \in DOMAIN R |-> R[g]]
  OBVIOUS
<1> HIDE DEF R
<1> QED BY <1>5, <1>7, <1>8, <1>9, ToldIs

\* What replaces another is told of in its place.
LEMMA ReplaceResult ==
    ASSUME ListsInv, op # None, op.fn \in Replaces, op.pc = 4, Store
    PROVE  Told' = Lists!Result(Told, Ask)
<1>1. PICK x : x = op.x
  OBVIOUS
<1>2. PICK at : at = op.at
  OBVIOUS
<1>3. /\ x \in Node /\ at \in Node /\ Linked(at) /\ ~Linked(x) /\ x # at
      /\ x \in ListHead <=> at \in ListHead
      /\ owner \in [Node -> ListHead \cup {None}]
      /\ ListHead \cap Entry = {} /\ None \notin Node
  BY <1>1, <1>2, ReplaceAt4, ListAssumption DEF ListsInv, IInv, TypeOK
<1>4. /\ DOMAIN Told = {g \in ListHead : Linked(g)}
      /\ \A g \in ListHead : Linked(g) => Told[g] = Contents(g)
  BY ToldOf
<1> DEFINE Was(g) == IF g = x THEN at ELSE g
           R == [g \in {IF g = at THEN x ELSE g : g \in DOMAIN Told} |->
                    ReplaceAll(Told[Was(g)], at, x)]
<1>5. Lists!Result(Told, Ask) = R
  <2>1. Lists!Result(Told, Ask) = Lists!Replaced(Told, at, x)
    BY <1>1, <1>2 DEF Lists!Result, Ask, Replaces
  <2>2. Lists!Replaced(Told, at, x) = R
    BY SameLibrary DEF Lists!Replaced
  <2> QED BY <2>1, <2>2
<1>6. R = [g \in DOMAIN R |-> R[g]]
  OBVIOUS
<1>7. CASE at \in Entry
  <2>1. PICK h : h = owner[at]
    OBVIOUS
  <2>2. PICK s : s = Contents(h)
    OBVIOUS
  <2>3. /\ h \in ListHead /\ Linked(h)
        /\ Contents(h)' = ReplaceAll(s, at, x)
        /\ \A g \in ListHead : Linked(g) /\ g # h => Contents(g)' = Contents(g)
        /\ \A y \in Node : owner'[y] = IF y = at THEN None
                                       ELSE IF y = x THEN h ELSE owner[y]
    BY <1>1, <1>2, <1>7, <2>1, <2>2, ReplaceLists
  <2>4. x \in Entry
    BY <1>3, <1>7 DEF Node
  <2>5. \A g \in ListHead : g # x /\ g # at /\ (Linked(g)' <=> Linked(g))
    BY <1>3, <1>7, <2>3, <2>4 DEF Node, Linked
  <2>6. DOMAIN R = {g \in ListHead : Linked(g)'}
    BY <1>4, <2>5
  <2>7. ASSUME NEW g \in ListHead, Linked(g) PROVE R[g] = Contents(g)'
    <3>1. g \in DOMAIN R
      BY <2>5, <2>6, <2>7
    <3>2. R[g] = ReplaceAll(Told[g], at, x)
      BY <2>5, <3>1
    <3>3. CASE g = h
      BY <1>4, <2>2, <2>3, <2>7, <3>2, <3>3
    <3>4. CASE g # h
      BY <1>3, <1>4, <2>1, <2>3, <2>7, <3>2, <3>4, NotTold
    <3> QED BY <3>3, <3>4
  <2> HIDE DEF R
  <2>8. \A g \in DOMAIN R : R[g] = Contents(g)'
    BY <2>5, <2>6, <2>7
  <2> QED BY <1>5, <1>6, <2>6, <2>8, ToldIs
<1>8. CASE at \in ListHead
  <2>1. PICK s : s = Contents(at)
    OBVIOUS
  <2>2. /\ x \in ListHead /\ Contents(x)' = s
        /\ \A g \in ListHead : Linked(g) /\ g # at => Contents(g)' = Contents(g)
        /\ \A y \in Node : owner'[y] = IF y = at THEN None
                                       ELSE IF y = x \/ owner[y] = at THEN x
                                       ELSE owner[y]
    BY <1>1, <1>2, <1>8, <2>1, ReplaceHeadLists
  <2>3. \A g \in ListHead : Linked(g) => owner[g] = g
    BY DEF ListsInv, IInv, OwnerInv, Linked
  <2>4. \A g \in ListHead : Linked(g)' <=> g # at /\ (Linked(g) \/ g = x)
    <3> SUFFICES ASSUME NEW g \in ListHead
                 PROVE  owner'[g] # None <=> g # at /\ (owner[g] # None \/ g = x)
      BY DEF Linked
    <3>1. owner[g] = at => g = at
      BY <1>3, <2>3 DEF Linked
    <3> QED BY <1>3, <2>2, <3>1 DEF Node
  <2>5. DOMAIN R = {g \in ListHead : Linked(g)'}
    <3>1. DOMAIN R = {IF g = at THEN x ELSE g : g \in DOMAIN Told}
      OBVIOUS
    <3> HIDE DEF R
    <3>2. \A g : g \in DOMAIN R <=> g \in ListHead /\ g # at /\ (Linked(g) \/ g = x)
      BY <1>3, <1>4, <1>8, <2>2, <3>1
    <3> QED BY <2>4, <3>2
  <2>6. ASSUME NEW g \in ListHead, Linked(g)' PROVE R[g] = Contents(g)'
    <3>1. R[g] = ReplaceAll(Told[Was(g)], at, x)
      BY <2>5, <2>6
    <3>2. /\ Was(g) \in ListHead /\ Linked(Was(g)) /\ owner[at] = at
          /\ Contents(g)' = Contents(Was(g))
      <4>1. g # at /\ (Linked(g) \/ g = x)
        BY <2>4, <2>6
      <4>2. CASE g = x
        BY <1>3, <1>8, <2>1, <2>2, <2>3, <4>2
      <4>3. CASE g # x
        BY <1>3, <1>8, <2>2, <2>3, <2>6, <4>1, <4>3
      <4> QED BY <4>2, <4>3
    <3> HIDE DEF Was
    <3>3. PICK f : f = Was(g)
      OBVIOUS
    <3>4. /\ f \in ListHead /\ Linked(f) /\ Told[f] = Contents(f)
          /\ Ring(f, Contents(f), next)
      BY <1>4, <3>2, <3>3 DEF ListsInv, RingsInv
    <3>5. ReplaceAll(Told[f], at, x) = Told[f]
      <4>1. PICK t : t = Told[f]
        OBVIOUS
      <4>2. /\ t = [i \in 1 .. Len(t) |-> t[i]]
            /\ \A i \in 1 .. Len(t) : t[i] \in Entry
        BY <3>4, <4>1, RingLength
      <4>3. \A i \in 1 .. Len(t) : t[i] # at
        BY <1>3, <1>8, <4>2
      <4>4. ReplaceAll(t, at, x) = t
        <5>1. ReplaceAll(t, at, x) = [i \in 1 .. Len(t) |-> IF t[i] = at THEN x ELSE t[i]]
          BY DEF ReplaceAll
        <5>2. [i \in 1 .. Len(t) |-> IF t[i] = at THEN x ELSE t[i]]
                 = [i \in 1 .. Len(t) |-> t[i]]
          BY <4>3
        <5> QED BY <4>2, <5>1, <5>2
      <4> QED BY <4>1, <4>4
    <3> QED BY <3>1, <3>2, <3>3, <3>4, <3>5
  <2> HIDE DEF R
  <2>7. \A g \in DOMAIN R : R[g] = Contents(g)'
    BY <2>5, <2>6
  <2> QED BY <1>5, <1>6, <2>5, <2>7, ToldIs
<1> QED BY <1>3, <1>7, <1>8 DEF Node

\* The store that readers meet has the call's effect.
LEMMA EffectTold ==
    ASSUME ListsInv, Store, Publishes
    PROVE  Lists!Effect
<1>1. op # None /\ op \in OpType /\ op.fn \in Function
  BY PublishAt DEF Store
<1>2. Shown = Ask /\ Ask # None /\ Ask # Done
  <2>1. op.pc = Visible /\ Visible \in {1, 2, 4}
    BY DEF Publishes, Visible
  <2>2. ~(op.pc > Visible)
    BY <2>1
  <2> QED BY <1>1, <2>2, AskIsCall DEF Shown, Ask
<1>3. Told' = Lists!Result(Told, Ask)
  BY <1>1, PublishAt, AddResult, DelResult, InitResult, ReplaceResult
     DEF Function, Adds, Dels, Replaces
<1>4. IF Ask.fn = "list_replace_init"
        THEN Shown' = Lists!Call("INIT_LIST_HEAD", Ask.at, Ask.at)
        ELSE Shown' \in {None, Done}
  <2>1. Ask.fn = op.fn /\ Ask.at = op.at
    BY DEF Ask
  <2>2. op' = None => Shown' = None
    BY DEF Shown
  <2>3. CASE op.fn \in Adds
    BY <1>1, <2>1, <2>2, <2>3, PublishAt, AddStore DEF Adds
  <2>4. CASE op.fn = "list_del"
    BY <1>1, <2>1, <2>2, <2>4, PublishAt, DelStore DEF Dels
  <2>5. CASE op.fn = "__list_del_clearprev"
    <3>1. op' = Before(3)
      BY <1>1, <2>5, PublishAt, ClearStore DEF Dels
    <3>2. op' # None /\ op'.fn = op.fn /\ op'.pc = 3
      BY <1>1, <3>1, NextStore
    <3>3. Visible' = 2
      BY <2>5, <3>2 DEF Visible
    <3> QED BY <2>1, <2>5, <3>2, <3>3 DEF Shown
  <2>6. CASE op.fn = "list_replace"
    <3>1. op' = None
      BY <1>1, <2>6, PublishAt, ReplaceStore DEF Replaces
    <3> QED BY <2>1, <2>2, <2>6, <3>1
  <2>7. CASE op.fn = "list_replace_init"
    <3>1. op' = InitOld
      BY <1>1, <2>7, PublishAt, ReplaceStore DEF Replaces
    <3>2. op' # None /\ op'.fn = "INIT_LIST_HEAD" /\ op'.pc = 1
      BY <1>1, <3>1, InitOldStore
    <3>3. Visible' = 1
      BY <3>2 DEF Visible
    <3>4. Shown' = [fn |-> op'.fn, x |-> op'.x, at |-> op'.at]
      BY <3>2, <3>3 DEF Shown
    <3>5. Shown' = [fn |-> "INIT_LIST_HEAD", x |-> op.at, at |-> op.at]
      BY <3>1, <3>4 DEF InitOld
    <3> QED BY <2>1, <2>7, <3>5 DEF Lists!Call
  <2>8. CASE op.fn = "INIT_LIST_HEAD"
    <3>1. op' = Before(2)
      BY <1>1, <2>8, PublishAt, InitStore
    <3>2. op' # None /\ op'.fn = op.fn /\ op'.pc = 2
      BY <1>1, <3>1, NextStore
    <3>3. Visible' = 1
      BY <2>8, <3>2 DEF Visible
    <3> QED BY <2>1, <2>8, <3>2, <3>3 DEF Shown
  <2> QED BY <1>1, <2>3, <2>4, <2>5, <2>6, <2>7, <2>8 DEF Function, Adds
<1> QED BY <1>2, <1>3, <1>4 DEF Lists!Effect

\* Every store and every call is a step of ListContents or shows nothing.
LEMMA ToldStep ==
    ASSUME ListsInv, [Next]_vars
    PROVE  [Lists!Next]_<<Told, Shown>>
BY OtherTold, QuietTold, EffectTold DEF Lists!Next

\* The lists of pointers are lists: a reader along next sees every list as it
\* was before the call in progress or as it will be after it, whatever is
\* called on whatever lists.
THEOREM ContentsImplemented == Spec => ImplementsContents
<1>1. Init => Lists!Init
  <2> SUFFICES ASSUME Init PROVE Lists!Init
    OBVIOUS
  <2>1. ListsInv /\ \A h \in ListHead : Linked(h) => Contents(h) = <<>>
    BY InitListsInv
  <2>2. /\ DOMAIN Told \subseteq ListHead
        /\ \A h \in DOMAIN Told : Told[h] = <<>>
    BY <2>1, ToldOf
  <2>3. Shown = None
    BY DEF Init, Shown
  <2> QED BY <2>2, <2>3 DEF Lists!Init
<1>2. ListsInv /\ [Next]_vars => [Lists!Next]_<<Told, Shown>>
  BY ToldStep
<1> QED BY <1>1, <1>2, ContentsKnown, PTL DEF Spec, ImplementsContents, Lists!Spec

-----------------------------------------------------------------------------
(* What a loop still has to visit                                          *)

\* x comes before y in s.
Precedes(s, x, y) == \E i, j \in 1 .. Len(s) : i < j /\ s[i] = x /\ s[j] = y

\* A loop in direction dir comes to x before it comes to y.
Onward(s, dir, x, y) ==
    IF dir = "next" THEN Precedes(s, x, y) ELSE Precedes(s, y, x)

\* What a loop over the list s of h has yet to come to after node x.
Beyond(s, dir, h, x, e) == Has(s, e) /\ (x = h \/ Onward(s, dir, x, e))

\* What the loop lp has yet to come to: a safe one goes to n next.
Ahead(s, lp, e) ==
    IF lp.safe THEN lp.n # lp.head /\ Has(s, e)
                    /\ (e = lp.n \/ Onward(s, lp.dir, lp.n, e))
    ELSE Beyond(s, lp.dir, lp.head, lp.pos, e)

\* The entries d that the loop lp still has to visit, and those f that its
\* body added, are right of the list s.
DueFor(s, lp, d, f) ==
    /\ d \in Seq(Entry) /\ f \subseteq Entry
    /\ \A e \in f : Has(s, e)
    /\ \A e \in Entry : Has(d, e) <=> Ahead(s, lp, e) /\ e \notin f
    /\ \A i, j \in 1 .. Len(d) : i < j => Onward(s, lp.dir, d[i], d[j])

\* Of the loop in progress; without one there are none.
DueInv ==
    IF loop = None THEN due = <<>> /\ fresh = {}
    ELSE DueFor(Contents(loop.head), loop, due, fresh)

\* What comes does not change the order of the others.
LEMMA PrecedesAdd ==
    ASSUME NEW s, Distinct(s), NEW i \in 0 .. Len(s), NEW x \in Entry
    PROVE  \A y, z : y # x /\ z # x =>
              (Precedes(InsertAt(s, i + 1, x), y, z) <=> Precedes(s, y, z))
<1> SUFFICES ASSUME NEW y, NEW z, y # x, z # x, NEW t, t = InsertAt(s, i + 1, x)
             PROVE  Precedes(t, y, z) <=> Precedes(s, y, z)
  OBVIOUS
<1>1. s \in Seq(Entry) /\ Len(s) \in Nat
  BY DEF Distinct
<1>2. /\ Len(t) = Len(s) + 1
      /\ \A k \in 1 .. Len(s) + 1 :
            t[k] = IF k <= i THEN s[k] ELSE IF k = i + 1 THEN x ELSE s[k - 1]
  <2>1. WithInsert(t, s, i, x)
    BY <1>1, InsertAtIs
  <2> QED BY <2>1 DEF WithInsert
<1>3. ASSUME NEW j \in 1 .. Len(t), NEW k \in 1 .. Len(t), j < k,
             t[j] = y, t[k] = z
      PROVE  Precedes(s, y, z)
  <2> DEFINE a == IF j <= i THEN j ELSE j - 1
             b == IF k <= i THEN k ELSE k - 1
  <2>1. j # i + 1 /\ k # i + 1
    BY <1>1, <1>2, <1>3
  <2>2. a \in 1 .. Len(s) /\ b \in 1 .. Len(s) /\ a < b
    BY <1>1, <1>2, <1>3, <2>1
  <2>3. s[a] = y /\ s[b] = z
    BY <1>1, <1>2, <1>3, <2>1
  <2> HIDE DEF a, b
  <2> QED BY <2>2, <2>3 DEF Precedes
<1>4. ASSUME NEW j \in 1 .. Len(s), NEW k \in 1 .. Len(s), j < k,
             s[j] = y, s[k] = z
      PROVE  Precedes(t, y, z)
  <2> DEFINE a == IF j <= i THEN j ELSE j + 1
             b == IF k <= i THEN k ELSE k + 1
  <2>1. a \in 1 .. Len(t) /\ b \in 1 .. Len(t) /\ a < b
    BY <1>1, <1>2, <1>4
  <2>2. t[a] = y
    <3>1. j > i => j + 1 \in 1 .. Len(s) + 1 /\ ~(j + 1 <= i) /\ j + 1 # i + 1
                   /\ (j + 1) - 1 = j
      BY <1>1
    <3>2. j > i => t[j + 1] = y
      BY <1>2, <1>4, <3>1
    <3>3. j <= i => t[j] = y
      BY <1>1, <1>2, <1>4
    <3> QED BY <1>1, <3>2, <3>3
  <2>3. t[b] = z
    <3>1. k > i => k + 1 \in 1 .. Len(s) + 1 /\ ~(k + 1 <= i) /\ k + 1 # i + 1
                   /\ (k + 1) - 1 = k
      BY <1>1
    <3>2. k > i => t[k + 1] = z
      BY <1>2, <1>4, <3>1
    <3>3. k <= i => t[k] = z
      BY <1>1, <1>2, <1>4
    <3> QED BY <1>1, <3>2, <3>3
  <2> HIDE DEF a, b
  <2> QED BY <2>1, <2>2, <2>3 DEF Precedes
<1> QED BY <1>3, <1>4 DEF Precedes

\* What goes does not change the order of the others.
LEMMA PrecedesDel ==
    ASSUME NEW s, Distinct(s), NEW i \in 1 .. Len(s)
    PROVE  \A y, z : y # s[i] /\ z # s[i] =>
              (Precedes(RemoveFirst(s, s[i]), y, z) <=> Precedes(s, y, z))
<1> SUFFICES ASSUME NEW y, NEW z, y # s[i], z # s[i],
                    NEW t, t = RemoveFirst(s, s[i])
             PROVE  Precedes(t, y, z) <=> Precedes(s, y, z)
  OBVIOUS
<1>1. s \in Seq(Entry) /\ Len(s) \in Nat
  BY DEF Distinct
<1>2. /\ Len(t) = Len(s) - 1
      /\ \A k \in 1 .. Len(s) - 1 : t[k] = IF k < i THEN s[k] ELSE s[k + 1]
  BY <1>1, RemoveFirstIs DEF Distinct
<1>3. ASSUME NEW j \in 1 .. Len(t), NEW k \in 1 .. Len(t), j < k,
             t[j] = y, t[k] = z
      PROVE  Precedes(s, y, z)
  <2> DEFINE a == IF j < i THEN j ELSE j + 1
             b == IF k < i THEN k ELSE k + 1
  <2>1. a \in 1 .. Len(s) /\ b \in 1 .. Len(s) /\ a < b
    BY <1>1, <1>2, <1>3
  <2>2. s[a] = y /\ s[b] = z
    BY <1>1, <1>2, <1>3
  <2> HIDE DEF a, b
  <2> QED BY <2>1, <2>2 DEF Precedes
<1>4. ASSUME NEW j \in 1 .. Len(s), NEW k \in 1 .. Len(s), j < k,
             s[j] = y, s[k] = z
      PROVE  Precedes(t, y, z)
  <2> DEFINE a == IF j < i THEN j ELSE j - 1
             b == IF k < i THEN k ELSE k - 1
  <2>0. j # i /\ k # i
    BY <1>4
  <2>1. a \in 1 .. Len(t) /\ b \in 1 .. Len(t) /\ a < b
    BY <1>1, <1>2, <1>4, <2>0
  <2>2. t[a] = y
    <3>1. j > i => j - 1 \in 1 .. Len(s) - 1 /\ ~(j - 1 < i) /\ (j - 1) + 1 = j
      BY <1>1
    <3>2. j < i => j \in 1 .. Len(s) - 1
      BY <1>1
    <3> QED BY <1>1, <1>2, <1>4, <2>0, <3>1, <3>2
  <2>3. t[b] = z
    <3>1. k > i => k - 1 \in 1 .. Len(s) - 1 /\ ~(k - 1 < i) /\ (k - 1) + 1 = k
      BY <1>1
    <3>2. k < i => k \in 1 .. Len(s) - 1
      BY <1>1
    <3> QED BY <1>1, <1>2, <1>4, <2>0, <3>1, <3>2
  <2> HIDE DEF a, b
  <2> QED BY <2>1, <2>2, <2>3 DEF Precedes
<1> QED BY <1>3, <1>4 DEF Precedes

\* a gives its place to x.
LEMMA PrecedesReplace ==
    ASSUME NEW s, Distinct(s), NEW a \in Entry, NEW x \in Entry, ~Has(s, x)
    PROVE  \A y, z : y # x /\ z # x =>
              (Precedes(ReplaceAll(s, a, x), IF y = a THEN x ELSE y,
                        IF z = a THEN x ELSE z)
               <=> Precedes(s, y, z))
<1> SUFFICES ASSUME NEW y, NEW z, y # x, z # x, NEW t, t = ReplaceAll(s, a, x),
                    NEW u, u = IF y = a THEN x ELSE y,
                    NEW v, v = IF z = a THEN x ELSE z
             PROVE  Precedes(t, u, v) <=> Precedes(s, y, z)
  OBVIOUS
<1>1. s \in Seq(Entry) /\ Len(s) \in Nat /\ \A k \in 1 .. Len(s) : s[k] # x
  BY DEF Distinct, Has
<1>2. /\ Len(t) = Len(s)
      /\ \A k \in 1 .. Len(s) : t[k] = IF s[k] = a THEN x ELSE s[k]
  BY <1>1 DEF ReplaceAll
<1>3. \A k \in 1 .. Len(s) : (t[k] = u <=> s[k] = y) /\ (t[k] = v <=> s[k] = z)
  BY <1>1, <1>2
<1> QED BY <1>2, <1>3 DEF Precedes

\* The order of a list is strict.
LEMMA OnwardStrict ==
    ASSUME NEW s, Distinct(s), NEW dir, NEW x, NEW y, Onward(s, dir, x, y)
    PROVE  x # y /\ ~Onward(s, dir, y, x) /\ Has(s, x) /\ Has(s, y)
<1>1. Len(s) \in Nat
  BY DEF Distinct
<1> QED BY <1>1 DEF Distinct, Onward, Precedes, Has

\* What is due is due once.
LEMMA DueOnce ==
    ASSUME NEW s, Distinct(s), NEW lp, NEW d, NEW f, DueFor(s, lp, d, f)
    PROVE  Distinct(d)
<1> SUFFICES ASSUME NEW i \in 1 .. Len(d), NEW j \in 1 .. Len(d), d[i] = d[j], i # j
             PROVE  FALSE
  BY DEF Distinct, DueFor
<1>1. Len(d) \in Nat
  BY DEF DueFor
<1>2. i < j \/ j < i
  BY <1>1
<1>3. Onward(s, lp.dir, d[i], d[j]) \/ Onward(s, lp.dir, d[j], d[i])
  BY <1>2 DEF DueFor
<1> QED BY <1>3, OnwardStrict

\* What the body adds is not due.
LEMMA DueAdd ==
    ASSUME NEW s, Distinct(s), NEW i \in 0 .. Len(s), NEW x \in Entry,
           NEW lp \in LoopType, NEW d, NEW f, DueFor(s, lp, d, f),
           ~Has(s, x), x # lp.n \/ ~lp.safe, x # lp.pos \/ lp.safe,
           NEW t, t = InsertAt(s, i + 1, x),
           \A e \in Entry : Has(t, e) <=> e = x \/ Has(s, e)
    PROVE  DueFor(t, lp, d, f \cup {x})
<1>1. \A y, z : y # x /\ z # x => (Precedes(t, y, z) <=> Precedes(s, y, z))
  BY PrecedesAdd
<1>2. \A y, z : y # x /\ z # x =>
         (Onward(t, lp.dir, y, z) <=> Onward(s, lp.dir, y, z))
  BY <1>1 DEF Onward
<1>3. ~Has(d, x)
  BY DEF DueFor, Ahead, Beyond
<1>4. ASSUME NEW e \in Entry
      PROVE  Has(d, e) <=> Ahead(t, lp, e) /\ e \notin f \cup {x}
  <2>1. CASE e = x
    BY <1>3, <2>1
  <2>2. CASE e # x
    <3>1. Ahead(t, lp, e) <=> Ahead(s, lp, e)
      BY <1>2, <2>2 DEF Ahead, Beyond
    <3> QED BY <2>2, <3>1 DEF DueFor
  <2> QED BY <2>1, <2>2
<1>5. \A j \in 1 .. Len(d) : d[j] # x
  BY <1>3 DEF Has
<1> QED BY <1>2, <1>4, <1>5 DEF DueFor

\* What the body takes away is due no more.
LEMMA DueDel ==
    ASSUME NEW s, Distinct(s), NEW i \in 1 .. Len(s), NEW x \in Entry, x = s[i],
           NEW lp \in LoopType, NEW d, NEW f, DueFor(s, lp, d, f),
           x # lp.n \/ ~lp.safe, x # lp.pos \/ lp.safe,
           NEW t, t = RemoveFirst(s, x),
           \A e \in Entry : Has(t, e) <=> e # x /\ Has(s, e)
    PROVE  DueFor(t, lp, RemoveFirst(d, x), f \ {x})
<1>1. \A y, z : y # x /\ z # x => (Precedes(t, y, z) <=> Precedes(s, y, z))
  BY PrecedesDel
<1>2. \A y, z : y # x /\ z # x =>
         (Onward(t, lp.dir, y, z) <=> Onward(s, lp.dir, y, z))
  BY <1>1 DEF Onward
<1>3. PICK r : r = RemoveFirst(d, x)
  OBVIOUS
<1>4. Distinct(d)
  BY DueOnce
<1>5. /\ r \in Seq(Entry)
      /\ \A e : Has(r, e) <=> e # x /\ Has(d, e)
      /\ InOrderOf(r, d)
  BY <1>3, <1>4, RemoveOrder
<1>6. ASSUME NEW e \in Entry
      PROVE  Has(r, e) <=> Ahead(t, lp, e) /\ e \notin f \ {x}
  <2>1. CASE e = x
    <3>1. ~Has(t, e)
      BY <2>1
    <3> QED BY <1>5, <2>1, <3>1 DEF Ahead, Beyond
  <2>2. CASE e # x
    <3>1. Ahead(t, lp, e) <=> Ahead(s, lp, e)
      BY <1>2, <2>2 DEF Ahead, Beyond
    <3> QED BY <1>5, <2>2, <3>1 DEF DueFor
  <2> QED BY <2>1, <2>2
<1>7. ASSUME NEW j \in 1 .. Len(r), NEW k \in 1 .. Len(r), j < k
      PROVE  Onward(t, lp.dir, r[j], r[k])
  <2>1. PICK a \in 1 .. Len(d), b \in 1 .. Len(d) :
            a < b /\ r[j] = d[a] /\ r[k] = d[b]
    BY <1>5, <1>7 DEF InOrderOf
  <2>2. Onward(s, lp.dir, r[j], r[k])
    BY <2>1 DEF DueFor
  <2>3. r[j] # x /\ r[k] # x
    BY <1>5 DEF Has
  <2> QED BY <1>2, <2>2, <2>3
<1>8. DueFor(t, lp, r, f \ {x})
  BY <1>5, <1>6, <1>7 DEF DueFor
<1> QED BY <1>3, <1>8

\* What the body puts in the place of a is due if a was.
LEMMA DueReplace ==
    ASSUME NEW s, Distinct(s), NEW a \in Entry, NEW x \in Entry, Has(s, a), ~Has(s, x),
           NEW lp \in LoopType, NEW d, NEW f, DueFor(s, lp, d, f),
           (a # lp.n /\ x # lp.n) \/ ~lp.safe, (a # lp.pos /\ x # lp.pos) \/ lp.safe,
           NEW t, t = ReplaceAll(s, a, x),
           \A e \in Entry : Has(t, e) <=> e = x \/ (e # a /\ Has(s, e))
    PROVE  DueFor(t, lp, ReplaceAll(d, a, x), {IF y = a THEN x ELSE y : y \in f})
<1> DEFINE g == {IF y = a THEN x ELSE y : y \in f}
           To(y) == IF y = a THEN x ELSE y
<1>1. \A y, z : y # x /\ z # x => (Precedes(t, To(y), To(z)) <=> Precedes(s, y, z))
  BY PrecedesReplace
<1>2. \A y, z : y # x /\ z # x =>
         (Onward(t, lp.dir, To(y), To(z)) <=> Onward(s, lp.dir, y, z))
  BY <1>1 DEF Onward
<1>3. PICK r : r = ReplaceAll(d, a, x)
  OBVIOUS
<1>4. d \in Seq(Entry) /\ ~Has(d, x) /\ x \notin f
  BY DEF DueFor, Ahead, Beyond
<1>5. /\ r \in Seq(Entry) /\ Len(r) = Len(d)
      /\ \A k \in 1 .. Len(d) : r[k] = To(d[k])
  BY <1>3, <1>4 DEF ReplaceAll
<1>6. /\ Has(r, x) <=> Has(d, a)
      /\ \A e : e # x => (Has(r, e) <=> e # a /\ Has(d, e))
  BY <1>4, <1>5 DEF Has
<1>7. /\ x \in g <=> a \in f
      /\ \A e : e # x => (e \in g <=> e # a /\ e \in f)
  BY <1>4
<1>8. /\ lp.safe => lp.n = To(lp.n) /\ lp.n # x
      /\ ~lp.safe => lp.pos = To(lp.pos) /\ lp.pos # x
  OBVIOUS
<1>9. a # x
  OBVIOUS
<1>10. ASSUME NEW e \in Entry
       PROVE  Has(r, e) <=> Ahead(t, lp, e) /\ e \notin g
  <2>1. CASE e = x
    <3>1. Ahead(t, lp, x) <=> Ahead(s, lp, a)
      <4>1. To(a) = x
        OBVIOUS
      <4>2. lp.safe => (Onward(t, lp.dir, lp.n, x) <=> Onward(s, lp.dir, lp.n, a))
        BY <1>2, <1>8, <1>9, <4>1
      <4>3. ~lp.safe => (Onward(t, lp.dir, lp.pos, x) <=> Onward(s, lp.dir, lp.pos, a))
        BY <1>2, <1>8, <1>9, <4>1
      <4> HIDE DEF To
      <4> QED BY <1>9, <4>2, <4>3 DEF Ahead, Beyond
    <3> HIDE DEF g
    <3> QED BY <1>6, <1>7, <2>1, <3>1 DEF DueFor
  <2>2. CASE e = a
    BY <1>6, <1>9, <2>2 DEF Ahead, Beyond
  <2>3. CASE e # a /\ e # x
    <3>1. Ahead(t, lp, e) <=> Ahead(s, lp, e)
      <4>1. To(e) = e
        BY <2>3
      <4>2. lp.safe => (Onward(t, lp.dir, lp.n, e) <=> Onward(s, lp.dir, lp.n, e))
        BY <1>2, <1>8, <2>3, <4>1
      <4>3. ~lp.safe => (Onward(t, lp.dir, lp.pos, e) <=> Onward(s, lp.dir, lp.pos, e))
        BY <1>2, <1>8, <2>3, <4>1
      <4> HIDE DEF To
      <4> QED BY <2>3, <4>2, <4>3 DEF Ahead, Beyond
    <3> HIDE DEF g
    <3> QED BY <1>6, <1>7, <2>3, <3>1 DEF DueFor
  <2> QED BY <2>1, <2>2, <2>3
<1>11. ASSUME NEW j \in 1 .. Len(r), NEW k \in 1 .. Len(r), j < k
       PROVE  Onward(t, lp.dir, r[j], r[k])
  <2>1. r[j] = To(d[j]) /\ r[k] = To(d[k]) /\ d[j] # x /\ d[k] # x
    BY <1>4, <1>5 DEF Has
  <2>2. Onward(s, lp.dir, d[j], d[k])
    BY <1>5, <1>11 DEF DueFor
  <2> HIDE DEF To
  <2> QED BY <1>2, <2>1, <2>2
<1>12. g \subseteq Entry /\ \A e \in g : Has(t, e)
  BY DEF DueFor
<1> HIDE DEF g
<1>13. DueFor(t, lp, r, g)
  BY <1>5, <1>10, <1>11, <1>12 DEF DueFor
<1> QED BY <1>3, <1>13 DEF g

\* The list that a loop is over, and the node it steps from.
LEMMA LoopList ==
    ASSUME ListsInv, loop # None, NEW h, h = loop.head, NEW s, s = Contents(h)
    PROVE  /\ h \in ListHead /\ Linked(h) /\ loop \in LoopType
           /\ Distinct(s) /\ Ring(h, s, next) /\ ~Has(s, h)
           /\ \A e \in Entry : owner[e] = h <=> Has(s, e)
           /\ LoopBase \in Node /\ owner[LoopBase] = h
           /\ \E j \in 0 .. Len(s) : LoopBase = Place(h, s, j)
<1>1. h \in ListHead /\ LoopBase \in Node /\ Linked(h) /\ Linked(LoopBase)
  BY LoopLinked DEF ListsInv
<1>2. loop \in LoopType /\ owner[LoopBase] = h
  BY DEF ListsInv, IInv, TypeOK, LoopInv
<1>3. Ring(h, s, next) /\ \A e \in Entry : owner[e] = h <=> Has(s, e)
  BY <1>1, PlaceOwner
<1>4. Distinct(s) /\ ~Has(s, h)
  BY <1>1, <1>3, RingLength, ListAssumption DEF Ring, Distinct, Has
<1>5. \E j \in 0 .. Len(s) : LoopBase = Place(h, s, j)
  BY <1>1, <1>2, PlaceOf
<1> QED BY <1>1, <1>2, <1>3, <1>4, <1>5

\* How DueInv is shown of the next state.
LEMMA DueThen ==
    ASSUME loop' # None, NEW h, loop'.head = h, NEW t, t = Contents(h)',
           DueFor(t, loop', due', fresh')
    PROVE  DueInv'
BY DEF DueInv, Contents

\* Without a loop nothing is due, and nothing becomes due.
LEMMA IdleDue ==
    ASSUME loop = None, due = <<>>, fresh = {}, loop' = loop,
           Publish \/ UNCHANGED <<due, fresh>>
    PROVE  due' = <<>> /\ fresh' = {}
<1>1. <<>> \in Seq(Entry) /\ \A e : ~Has(<<>>, e)
  BY DEF Has
<1>2. \A x : RemoveFirst(<<>>, x) = <<>>
  BY <1>1, RemoveNone
<1>3. \A a, x : ReplaceAll(<<>>, a, x) = <<>>
  BY <1>1, ReplaceNone
<1>4. CASE Publish
  <2>1. CASE op.fn \in Dels
    <3>1. due' = RemoveFirst(due, op.x) /\ fresh' = fresh \ {op.x}
      BY <1>4, <2>1 DEF Publish, Dels
    <3> QED BY <1>2, <3>1
  <2>2. CASE op.fn \in Adds
    <3>1. due' = due /\ fresh' = fresh
      BY <1>4, <2>2 DEF Publish, Adds
    <3> QED BY <3>1
  <2>3. CASE op.fn \notin Adds \cup Dels
    <3>1. /\ due' = ReplaceAll(due, op.at, op.x)
          /\ fresh' = {IF y = op.at THEN op.x ELSE y : y \in fresh}
      BY <1>4, <2>3 DEF Publish, Adds, Dels
    <3> QED BY <1>3, <3>1
  <2> QED BY <2>1, <2>2, <2>3
<1> QED BY <1>4

\* A store keeps what is due to a loop.
LEMMA StoreDue ==
    ASSUME ListsInv, DueInv, Store, loop # None
    PROVE  DueInv'
<1>1. PICK h : h = loop.head
  OBVIOUS
<1>2. PICK s : s = Contents(h)
  OBVIOUS
<1>3. PICK t : t = Contents(h)'
  OBVIOUS
<1>4. PICK lp : lp = loop
  OBVIOUS
<1>5. /\ h \in ListHead /\ Linked(h) /\ lp \in LoopType
      /\ Distinct(s) /\ ~Has(s, h)
      /\ \A e \in Entry : owner[e] = h <=> Has(s, e)
      /\ LoopBase = IF lp.safe THEN lp.n ELSE lp.pos
  BY <1>1, <1>2, <1>4, LoopList DEF LoopBase
<1>6. DueFor(s, lp, due, fresh)
  BY <1>1, <1>2, <1>4 DEF DueInv
<1>7. op # None /\ loop' = lp /\ op \in OpType
  BY <1>4 DEF Store, ListsInv, IInv, TypeOK
<1>8. SUFFICES DueFor(t, lp, due', fresh')
  BY <1>1, <1>3, <1>4, <1>7, DueThen
<1>9. due \in Seq(Entry) /\ fresh \subseteq Entry
      /\ \A e : Has(due, e) \/ e \in fresh => Has(s, e)
  <2>1. \A e \in Entry : Has(due, e) => Has(s, e)
    BY <1>6 DEF DueFor, Ahead, Beyond
  <2> QED BY <1>6, <2>1 DEF DueFor, Has
<1>10. CASE ~Publishes
  <2>1. t = s
    BY <1>2, <1>3, <1>5, <1>10, QuietStores
  <2>2. due' = due /\ fresh' = fresh
    BY <1>10 DEF Store
  <2> QED BY <1>6, <2>1, <2>2
<1>11. CASE Publishes
  <2>1. Publish
    BY <1>11 DEF Store
  <2>2. op.fn \in Function /\ op.x \in Node /\ op.at \in Node /\ TypeOK
    BY <1>7 DEF OpType, ListsInv, IInv
  <2>3. CASE op.fn \in Adds
    <3>1. PICK g : g = owner[op.at]
      OBVIOUS
    <3>2. PICK r : r = Contents(g)
      OBVIOUS
    <3>3. /\ RingsInv'
          /\ \E i \in 0 .. Len(r) : Contents(g)' = InsertAt(r, i + 1, op.x)
          /\ ~Has(r, op.x)
          /\ \A k \in ListHead : Linked(k) /\ k # g => Contents(k)' = Contents(k)
          /\ owner' = [owner EXCEPT ![op.x] = g]
      BY <1>7, <1>11, <2>3, <3>1, <3>2, PublishAt, AddLists
    <3>4. /\ due' = due
          /\ fresh' = IF g = h THEN fresh \cup {op.x} ELSE fresh
      BY <1>1, <2>1, <2>3, <3>1 DEF Publish, Adds, Dels
    <3>5. CASE g # h
      BY <1>2, <1>3, <1>5, <1>6, <3>3, <3>4, <3>5
    <3>6. CASE g = h
      <4>1. PICK i \in 0 .. Len(s) : t = InsertAt(s, i + 1, op.x)
        BY <1>2, <1>3, <3>2, <3>3, <3>6
      <4>2. op.x \in Entry /\ ~Linked(op.x) /\ ~Has(s, op.x)
        BY <1>2, <1>7, <2>3, <3>2, <3>3, <3>6 DEF ListsInv, IInv, CallInv, AddInv
      <4>3. LoopBase # op.x
        BY <1>1, <1>5, <4>2, LoopList, LoopLinked DEF ListsInv
      <4>4. \A e \in Entry : Has(t, e) <=> e = op.x \/ Has(s, e)
        <5>1. s \in Seq(Entry)
          BY <1>5 DEF Distinct
        <5> QED BY <4>1, <4>2, <5>1, HasInsert
      <4>5. DueFor(t, lp, due, fresh \cup {op.x})
        BY <1>5, <1>6, <4>1, <4>2, <4>3, <4>4, DueAdd
      <4> QED BY <3>4, <3>6, <4>5
    <3> QED BY <3>5, <3>6
  <2>4. CASE op.fn \in Dels
    <3>1. PICK g : g = owner[op.x]
      OBVIOUS
    <3>2. PICK r : r = Contents(g)
      OBVIOUS
    <3>3. /\ Has(r, op.x) /\ Contents(g)' = RemoveFirst(r, op.x)
          /\ \A k \in ListHead : Linked(k) /\ k # g => Contents(k)' = Contents(k)
      BY <1>7, <1>11, <2>4, <3>1, <3>2, PublishAt, DelLists
    <3>4. due' = RemoveFirst(due, op.x) /\ fresh' = fresh \ {op.x}
      BY <2>1, <2>4 DEF Publish, Dels
    <3>5. op.x \in Entry /\ LoopBase # op.x
      BY <1>1, <1>7, <2>4 DEF ListsInv, IInv, CallInv, DelInv, LoopNeeds
    <3>6. CASE g # h
      <4>1. t = s
        BY <1>2, <1>3, <1>5, <3>3, <3>6
      <4>2. ~Has(s, op.x)
        BY <1>5, <3>1, <3>5, <3>6
      <4>3. RemoveFirst(due, op.x) = due /\ fresh \ {op.x} = fresh
        BY <1>9, <4>2, RemoveNone
      <4> QED BY <1>6, <3>4, <4>1, <4>3
    <3>7. CASE g = h
      <4>1. Has(s, op.x) /\ t = RemoveFirst(s, op.x)
        BY <1>2, <1>3, <3>2, <3>3, <3>7
      <4>2. PICK i \in 1 .. Len(s) : op.x = s[i]
        BY <4>1 DEF Has
      <4>3. \A e \in Entry : Has(t, e) <=> e # op.x /\ Has(s, e)
        BY <1>5, <4>1, RemoveOrder
      <4>4. DueFor(t, lp, RemoveFirst(due, op.x), fresh \ {op.x})
        BY <1>5, <1>6, <3>5, <4>1, <4>2, <4>3, DueDel
      <4> QED BY <3>4, <4>4
    <3> QED BY <3>6, <3>7
  <2>5. CASE op.fn \notin Adds \cup Dels
    <3>1. /\ due' = ReplaceAll(due, op.at, op.x)
          /\ fresh' = {IF y = op.at THEN op.x ELSE y : y \in fresh}
      BY <2>1, <2>5 DEF Publish, Adds, Dels
    <3>2. ASSUME t = s, ~Has(s, op.at) \/ op.at = op.x
          PROVE  DueFor(t, lp, due', fresh')
      <4>1. due' = due
        BY <1>9, <3>1, <3>2, ReplaceNone
      <4>2. fresh' = fresh
        BY <1>9, <3>1, <3>2
      <4> QED BY <1>6, <3>2, <4>1, <4>2
    <3>3. CASE op.fn = "INIT_LIST_HEAD"
      <4>1. PICK x : x = op.x
        OBVIOUS
      <4>2. t = s
        BY <1>2, <1>3, <1>5, <1>7, <1>11, <3>3, <4>1, PublishAt, InitLists
      <4>3. op.at = op.x
        BY <1>7, <3>3 DEF ListsInv, ArgsInv
      <4> QED BY <3>2, <4>2, <4>3
    <3>4. ASSUME op.fn \in Replaces
          PROVE  ~LoopNeeds(op.at) /\ op.pc = 4 /\ Linked(op.at) /\ ~Linked(op.x)
                 /\ op.at # h /\ op.at # LoopBase
      <4>1. op.pc = 4
        BY <1>7, <1>11, <3>4, PublishAt
      <4>2. ~LoopNeeds(op.at) /\ Linked(op.at) /\ ~Linked(op.x)
        BY <1>7, <3>4, <4>1, ReplaceAt4
      <4> QED BY <1>1, <4>1, <4>2 DEF LoopNeeds
    <3>5. CASE op.fn \in Replaces /\ op.at \in ListHead
      <4>1. PICK g : g = op.at
        OBVIOUS
      <4>2. PICK x : x = op.x
        OBVIOUS
      <4>3. PICK r : r = Contents(g)
        OBVIOUS
      <4>4. \A k \in ListHead : Linked(k) /\ k # g => Contents(k)' = Contents(k)
        BY <1>7, <3>4, <3>5, <4>1, <4>2, <4>3, ReplaceHeadLists
      <4>5. t = s
        BY <1>2, <1>3, <1>5, <3>4, <3>5, <4>1, <4>4
      <4>6. ~Has(s, op.at)
        <5>1. s \in Seq(Entry)
          BY <1>5 DEF Distinct
        <5> QED BY <3>5, <5>1, ListAssumption DEF Has
      <4> QED BY <3>2, <4>5, <4>6
    <3>6. CASE op.fn \in Replaces /\ op.at \in Entry
      <4>1. PICK g : g = owner[op.at]
        OBVIOUS
      <4>2. PICK r : r = Contents(g)
        OBVIOUS
      <4>3. /\ Has(r, op.at) /\ ~Has(r, op.x)
            /\ Contents(g)' = ReplaceAll(r, op.at, op.x)
            /\ \A k \in ListHead : Linked(k) /\ k # g => Contents(k)' = Contents(k)
        BY <1>7, <3>4, <3>6, <4>1, <4>2, ReplaceLists
      <4>4. CASE g # h
        <5>1. t = s
          BY <1>2, <1>3, <1>5, <4>3, <4>4
        <5>2. ~Has(s, op.at)
          BY <1>5, <3>6, <4>1, <4>4
        <5> QED BY <3>2, <5>1, <5>2
      <4>5. CASE g = h
        <5>1. Has(s, op.at) /\ ~Has(s, op.x) /\ t = ReplaceAll(s, op.at, op.x)
          BY <1>2, <1>3, <4>2, <4>3, <4>5
        <5>2. op.x \in Entry
          BY <1>7, <2>2, <3>4, <3>6, ReplaceAt4, ListAssumption DEF Node
        <5>3. LoopBase # op.x
          BY <3>4, <3>6, LoopLinked DEF ListsInv
        <5>4. \A e \in Entry : Has(t, e) <=> e = op.x \/ (e # op.at /\ Has(s, e))
          <6>1. s \in Seq(Entry)
            BY <1>5 DEF Distinct
          <6> QED BY <3>6, <5>1, <5>2, <6>1, HasReplace
        <5>5. DueFor(t, lp, ReplaceAll(due, op.at, op.x),
                     {IF y = op.at THEN op.x ELSE y : y \in fresh})
          BY <1>5, <1>6, <3>4, <3>6, <5>1, <5>2, <5>3, <5>4, DueReplace
        <5> QED BY <3>1, <5>5
      <4> QED BY <4>4, <4>5
    <3>7. op.at \in ListHead \/ op.at \in Entry
      BY <2>2 DEF Node
    <3> QED BY <2>2, <2>5, <3>3, <3>5, <3>6, <3>7 DEF Function, Adds, Dels, Replaces
  <2> QED BY <2>3, <2>4, <2>5
<1> QED BY <1>10, <1>11

\* What comes after a place is at a later place.
LEMMA BeyondNext ==
    ASSUME NEW s, Distinct(s), NEW h, ~Has(s, h), NEW j \in 0 .. Len(s),
           NEW x, x = Place(h, s, j)
    PROVE  \A e : Beyond(s, "next", h, x, e) <=>
                     \E k \in 1 .. Len(s) : j < k /\ s[k] = e
<1>1. /\ Len(s) \in Nat /\ \A a, b \in 1 .. Len(s) : s[a] = s[b] => a = b
      /\ \A a \in 1 .. Len(s) : s[a] # h
  BY DEF Distinct, Has
<1>2. CASE j = 0
  <2>1. x = h
    BY <1>2 DEF Place
  <2> QED BY <1>1, <1>2, <2>1 DEF Beyond, Has
<1>3. CASE j # 0
  <2>1. j \in 1 .. Len(s) /\ x = s[j] /\ x # h
    BY <1>1, <1>3 DEF Place
  <2> QED BY <1>1, <2>1 DEF Beyond, Has, Onward, Precedes
<1> QED BY <1>2, <1>3

\* What comes after a node of a list is its follower and what comes after
\* that.
LEMMA AfterNext ==
    ASSUME NEW s, Distinct(s), NEW h, ~Has(s, h), NEW j \in 0 .. Len(s),
           NEW x, x = Place(h, s, j), NEW y, y = Place(h, s, j + 1)
    PROVE  /\ y = h => \A e : ~Beyond(s, "next", h, x, e)
           /\ y # h => /\ Has(s, y)
                       /\ \A e : Beyond(s, "next", h, x, e) <=>
                                    e = y \/ Onward(s, "next", y, e)
<1>1. /\ Len(s) \in Nat /\ \A a, b \in 1 .. Len(s) : s[a] = s[b] => a = b
      /\ \A a \in 1 .. Len(s) : s[a] # h
  BY DEF Distinct, Has
<1>2. \A e : Beyond(s, "next", h, x, e) <=>
                \E k \in 1 .. Len(s) : j < k /\ s[k] = e
  BY BeyondNext
<1>3. CASE j = Len(s)
  <2>1. y = h
    BY <1>1, <1>3 DEF Place
  <2> QED BY <1>1, <1>2, <1>3, <2>1
<1>4. CASE j # Len(s)
  <2>1. j + 1 \in 1 .. Len(s) /\ y = s[j + 1] /\ y # h
    BY <1>1, <1>4 DEF Place
  <2>2. \A e : Onward(s, "next", y, e) <=>
                  \E k \in 1 .. Len(s) : j + 1 < k /\ s[k] = e
    BY <1>1, <2>1 DEF Onward, Precedes
  <2>3. \A k \in 1 .. Len(s) : j < k <=> k = j + 1 \/ j + 1 < k
    BY <1>1
  <2> QED BY <1>2, <2>1, <2>2, <2>3 DEF Has
<1> QED BY <1>3, <1>4

\* The same backwards.
LEMMA AfterPrev ==
    ASSUME NEW s, Distinct(s), NEW h, ~Has(s, h), NEW j \in 0 .. Len(s),
           NEW x, x = Place(h, s, j + 1), NEW y, y = Place(h, s, j)
    PROVE  /\ y = h => \A e : ~Beyond(s, "prev", h, x, e)
           /\ y # h => /\ Has(s, y)
                       /\ \A e : Beyond(s, "prev", h, x, e) <=>
                                    e = y \/ Onward(s, "prev", y, e)
<1>1. /\ Len(s) \in Nat /\ \A a, b \in 1 .. Len(s) : s[a] = s[b] => a = b
      /\ \A a \in 1 .. Len(s) : s[a] # h
  BY DEF Distinct, Has
<1>2. \A e : Beyond(s, "prev", h, x, e) <=>
                \E k \in 1 .. Len(s) : k < j + 1 /\ s[k] = e
  <2>1. CASE j = Len(s)
    <3>1. x = h
      BY <1>1, <2>1 DEF Place
    <3> QED BY <1>1, <2>1, <3>1 DEF Beyond, Has
  <2>2. CASE j # Len(s)
    <3>1. j + 1 \in 1 .. Len(s) /\ x = s[j + 1] /\ x # h
      BY <1>1, <2>2 DEF Place
    <3> QED BY <1>1, <3>1 DEF Beyond, Has, Onward, Precedes
  <2> QED BY <2>1, <2>2
<1>3. CASE j = 0
  <2>1. y = h
    BY <1>1, <1>3 DEF Place
  <2> QED BY <1>1, <1>2, <1>3, <2>1
<1>4. CASE j # 0
  <2>1. j \in 1 .. Len(s) /\ y = s[j] /\ y # h
    BY <1>1, <1>4 DEF Place
  <2>2. \A e : Onward(s, "prev", y, e) <=>
                  \E k \in 1 .. Len(s) : k < j /\ s[k] = e
    BY <1>1, <2>1 DEF Onward, Precedes
  <2>3. \A k \in 1 .. Len(s) : k < j + 1 <=> k = j \/ k < j
    BY <1>1
  <2> QED BY <1>2, <2>1, <2>2, <2>3 DEF Has
<1> QED BY <1>3, <1>4

\* Between calls a loop's next node is the follower in the order of the list.
LEMMA FollowAfter ==
    ASSUME ListsInv, op = None, NEW h \in ListHead, Linked(h),
           NEW s, s = Contents(h), NEW x \in Node, owner[x] = h,
           NEW dir \in {"next", "prev"}, NEW y, y = Follow(x, dir)
    PROVE  /\ y = h => \A e : ~Beyond(s, dir, h, x, e)
           /\ y # h => /\ y \in Entry /\ Has(s, y) /\ owner[y] = h
                       /\ \A e : Beyond(s, dir, h, x, e) <=>
                                    e = y \/ Onward(s, dir, y, e)
           /\ y \in Node /\ owner[y] = h
<1>1. /\ Ring(h, s, next) /\ Len(s) \in Nat
      /\ \A i \in 0 .. Len(s) + 1 :
            Place(h, s, i) \in Node /\ owner[Place(h, s, i)] = h
  BY PlaceOwner
<1>2. Distinct(s) /\ ~Has(s, h)
  BY <1>1, RingLength, ListAssumption DEF Ring, Distinct, Has
<1>3. x # NULL /\ Linked(x)
  BY ListAssumption DEF Node, Linked
<1>4. PICK j \in 0 .. Len(s) : x = Place(h, s, j)
  BY <1>3, PlaceOf
<1>5. CASE dir = "next"
  <2>1. y = next[x]
    BY <1>3, <1>5 DEF Follow
  <2>2. y = Place(h, s, j + 1)
    BY <1>1, <1>4, <2>1 DEF Ring, Distinct
  <2>3. y \in Node /\ owner[y] = h
    BY <1>1, <1>4, <2>2
  <2>4. /\ y = h => \A e : ~Beyond(s, "next", h, x, e)
        /\ y # h => /\ Has(s, y)
                    /\ \A e : Beyond(s, "next", h, x, e) <=>
                                 e = y \/ Onward(s, "next", y, e)
    BY <1>2, <1>4, <2>2, AfterNext
  <2>5. y # h => y \in Entry
    BY <1>1, <2>4, RingLength DEF Has
  <2> QED BY <1>5, <2>3, <2>4, <2>5
<1>6. CASE dir = "prev"
  <2>1. y = prev[x]
    BY <1>3, <1>6 DEF Follow
  <2>2. \A z \in Node : Linked(z) => prev[next[z]] = z
    BY DEF ListsInv, IInv, RingInv, RingAt, Settled
  <2>3. PICK i \in 0 .. Len(s) : x = Place(h, s, i + 1)
    <3>1. CASE j = 0
      <4>1. Place(h, s, Len(s) + 1) = x /\ Len(s) \in 0 .. Len(s)
        BY <1>1, <1>4, <3>1 DEF Place
      <4> QED BY <4>1
    <3>2. CASE j # 0
      <4>1. (j - 1) + 1 = j /\ j - 1 \in 0 .. Len(s)
        BY <1>1, <3>2
      <4> QED BY <1>4, <4>1
    <3> QED BY <3>1, <3>2
  <2>4. y = Place(h, s, i)
    <3>1. next[Place(h, s, i)] = x
      BY <1>1, <2>3 DEF Ring, Distinct
    <3>2. Place(h, s, i) \in Node /\ owner[Place(h, s, i)] = h
      BY <1>1
    <3>3. Linked(Place(h, s, i))
      BY <3>2, ListAssumption DEF Node, Linked
    <3> QED BY <2>1, <2>2, <3>1, <3>2, <3>3
  <2>5. y \in Node /\ owner[y] = h
    BY <1>1, <2>4
  <2>6. /\ y = h => \A e : ~Beyond(s, "prev", h, x, e)
        /\ y # h => /\ Has(s, y)
                    /\ \A e : Beyond(s, "prev", h, x, e) <=>
                                 e = y \/ Onward(s, "prev", y, e)
    BY <1>2, <2>3, <2>4, AfterPrev
  <2>7. y # h => y \in Entry
    BY <1>1, <2>6, RingLength DEF Has
  <2> QED BY <1>6, <2>5, <2>6, <2>7
<1> QED BY <1>5, <1>6

\* What is ahead of a loop is where it goes next, and what comes after that.
LEMMA LoopAhead ==
    ASSUME ListsInv, op = None, loop # None, NEW h, h = loop.head,
           NEW s, s = Contents(h), NEW q, q = Successor
    PROVE  /\ q = h => \A e : ~Ahead(s, loop, e)
           /\ q # h => /\ q \in Entry /\ Has(s, q) /\ owner[q] = h
                       /\ \A e : Ahead(s, loop, e) <=>
                                    e = q \/ Onward(s, loop.dir, q, e)
           /\ q \in Node /\ owner[q] = h
<1>1. /\ h \in ListHead /\ Linked(h) /\ loop \in LoopType
      /\ Distinct(s) /\ Ring(h, s, next)
      /\ \A e \in Entry : owner[e] = h <=> Has(s, e)
      /\ LoopBase \in Node /\ owner[LoopBase] = h
  BY LoopList
<1>2. loop.dir \in {"next", "prev"} /\ loop.safe \in BOOLEAN
  BY <1>1 DEF LoopType
<1>3. CASE loop.safe
  <2>1. q = loop.n /\ q = LoopBase
    BY <1>3 DEF Successor, LoopBase
  <2>2. q # h => q \in Entry
    BY <1>1, <2>1, ListAssumption DEF Node, ListsInv, IInv, OwnerInv, Linked
  <2>3. \A e : Onward(s, loop.dir, q, e) => Has(s, e)
    BY <1>1, OnwardStrict
  <2> QED BY <1>1, <1>3, <2>1, <2>2, <2>3 DEF Ahead
<1>4. CASE ~loop.safe
  <2>1. q = Follow(loop.pos, loop.dir) /\ LoopBase = loop.pos
    BY <1>4 DEF Successor, LoopBase
  <2>2. PICK x \in Node : x = loop.pos
    BY <1>1, <2>1
  <2>3. PICK dir \in {"next", "prev"} : dir = loop.dir
    BY <1>2
  <2>4. /\ q = h => \A e : ~Beyond(s, dir, h, x, e)
        /\ q # h => /\ q \in Entry /\ Has(s, q) /\ owner[q] = h
                    /\ \A e : Beyond(s, dir, h, x, e) <=>
                                 e = q \/ Onward(s, dir, q, e)
        /\ q \in Node /\ owner[q] = h
    BY <1>1, <2>1, <2>2, <2>3, FollowAfter
  <2>5. \A e : Ahead(s, loop, e) <=> Beyond(s, dir, h, x, e)
    BY <1>4, <2>2, <2>3 DEF Ahead
  <2> QED BY <2>3, <2>4, <2>5
<1> QED BY <1>2, <1>3, <1>4

\* Where a loop goes next is the first that is due, if it is due.
LEMMA NextDue ==
    ASSUME NEW s, Distinct(s), NEW lp, NEW d, NEW f, DueFor(s, lp, d, f),
           NEW q \in Entry,
           \A e : Ahead(s, lp, e) <=> e = q \/ Onward(s, lp.dir, q, e)
    PROVE  /\ q \notin f => d # <<>> /\ Head(d) = q
           /\ q \in f => ~Has(d, q)
<1>1. d \in Seq(Entry) /\ Len(d) \in Nat
  BY DEF DueFor
<1>2. q \in f => ~Has(d, q)
  BY DEF DueFor
<1>3. ASSUME q \notin f PROVE d # <<>> /\ Head(d) = q
  <2>1. Has(d, q)
    BY <1>3 DEF DueFor
  <2>2. PICK j \in 1 .. Len(d) : d[j] = q
    BY <2>1 DEF Has
  <2>3. 1 \in 1 .. Len(d) /\ d # <<>> /\ Head(d) = d[1]
    BY <1>1, <2>2
  <2>4. d[1] = q
    <3>1. SUFFICES ASSUME d[1] # q PROVE FALSE
      OBVIOUS
    <3>2. d[1] \in Entry /\ Has(d, d[1])
      BY <1>1, <2>3 DEF Has
    <3>3. Onward(s, lp.dir, q, d[1])
      BY <3>1, <3>2 DEF DueFor
    <3>4. 1 < j
      BY <1>1, <2>2, <3>1
    <3>5. Onward(s, lp.dir, d[1], q)
      BY <2>2, <2>3, <3>4 DEF DueFor
    <3> QED BY <3>3, <3>5, OnwardStrict
  <2> QED BY <2>3, <2>4
<1> QED BY <1>2, <1>3

\* A loop's next round leaves due what is behind the entry it comes to.
LEMMA AdvanceDue ==
    ASSUME ListsInv, DueInv, Advance
    PROVE  /\ DueInv'
           /\ LET q == Successor IN
              IF q = loop.head THEN due = <<>>
              ELSE /\ q \in Entry /\ owner[q] = loop.head
                   /\ q \in fresh \/ (due # <<>> /\ q = Head(due))
<1>1. PICK h : h = loop.head
  OBVIOUS
<1>2. PICK s : s = Contents(h)
  OBVIOUS
<1>3. PICK q : q = Successor
  OBVIOUS
<1>4. loop # None /\ op = None /\ owner' = owner /\ next' = next /\ prev' = prev
  BY DEF Advance, links
<1>5. /\ h \in ListHead /\ Linked(h) /\ loop \in LoopType /\ Distinct(s) /\ ~Has(s, h)
  BY <1>1, <1>2, <1>4, LoopList
<1>6. DueFor(s, loop, due, fresh)
  BY <1>1, <1>2, <1>4 DEF DueInv
<1>7. /\ q = h => \A e : ~Ahead(s, loop, e)
      /\ q # h => /\ q \in Entry /\ Has(s, q) /\ owner[q] = h
                  /\ \A e : Ahead(s, loop, e) <=>
                               e = q \/ Onward(s, loop.dir, q, e)
      /\ q \in Node /\ owner[q] = h
  BY <1>1, <1>2, <1>3, <1>4, LoopAhead
<1>8. CASE q = h
  <2>1. \A e \in Entry : ~Has(due, e)
    BY <1>6, <1>7, <1>8 DEF DueFor
  <2>2. due \in Seq(Entry)
    BY <1>6 DEF DueFor
  <2>3. due = <<>>
    BY <2>1, <2>2 DEF Has
  <2>4. loop' = None /\ due' = <<>> /\ fresh' = {}
    BY <1>1, <1>3, <1>8 DEF Advance
  <2> QED BY <1>1, <1>3, <1>8, <2>3, <2>4 DEF DueInv
<1>9. CASE q # h
  <2>1. /\ q \in Entry /\ Has(s, q) /\ owner[q] = h
        /\ \A e : Ahead(s, loop, e) <=> e = q \/ Onward(s, loop.dir, q, e)
    BY <1>7, <1>9
  <2>2. /\ q \notin fresh => due # <<>> /\ Head(due) = q
        /\ q \in fresh => ~Has(due, q)
    BY <1>5, <1>6, <2>1, NextDue
  <2> DEFINE m == IF loop.safe THEN Follow(q, loop.dir) ELSE loop.head
  <2>3. /\ loop' = [loop EXCEPT !.pos = q, !.body = TRUE, !.n = m]
        /\ due' = IF due # <<>> /\ Head(due) = q THEN Tail(due) ELSE due
        /\ fresh' = fresh \ {q}
    BY <1>1, <1>3, <1>9 DEF Advance
  <2>4. PICK lp : lp = loop'
    OBVIOUS
  <2>5. /\ lp.head = h /\ lp.pos = q /\ lp.dir = loop.dir /\ lp.safe = loop.safe
        /\ lp.safe => lp.n = Follow(q, loop.dir)
    BY <1>1, <1>5, <2>3, <2>4 DEF LoopType
  <2>6. lp # None
    <3>1. m \in Node
      <4>1. Follow(q, loop.dir) \in Node
        <5>1. PICK dir \in {"next", "prev"} : dir = loop.dir
          BY <1>5 DEF LoopType
        <5> QED BY <1>2, <1>4, <1>5, <1>7, <5>1, FollowAfter
      <4> QED BY <1>1, <1>5, <4>1 DEF Node
    <3>2. lp \in LoopType
      BY <1>5, <1>7, <2>3, <2>4, <3>1 DEF LoopType
    <3> QED BY <3>2, ListAssumption
  <2>7. \A e : Ahead(s, lp, e) <=> Onward(s, lp.dir, q, e)
    <3>1. \A e : Onward(s, loop.dir, q, e) => Has(s, e)
      BY <1>5, OnwardStrict
    <3>2. CASE ~lp.safe
      BY <1>9, <2>5, <3>1, <3>2 DEF Ahead, Beyond
    <3>3. CASE lp.safe
      <4>1. PICK dir \in {"next", "prev"} : dir = loop.dir
        BY <1>5 DEF LoopType
      <4>2. PICK y : y = Follow(q, dir)
        OBVIOUS
      <4>3. /\ y = h => \A e : ~Beyond(s, dir, h, q, e)
            /\ y # h => Has(s, y) /\ \A e : Beyond(s, dir, h, q, e) <=>
                                               e = y \/ Onward(s, dir, y, e)
        BY <1>2, <1>4, <1>5, <1>7, <4>1, <4>2, FollowAfter
      <4>4. \A e : Beyond(s, dir, h, q, e) <=> Onward(s, dir, q, e)
        BY <1>9, <3>1, <4>1 DEF Beyond
      <4>5. \A e : Onward(s, dir, y, e) => Has(s, e)
        BY <1>5, OnwardStrict
      <4>6. lp.n = y /\ lp.dir = dir
        BY <2>5, <3>3, <4>1, <4>2
      <4> QED BY <2>5, <3>3, <4>3, <4>4, <4>5, <4>6 DEF Ahead
    <3> QED BY <3>2, <3>3
  <2>8. PICK d : d = due'
    OBVIOUS
  <2>9. Distinct(due)
    BY <1>5, <1>6, DueOnce
  <2>10. /\ d \in Seq(Entry) /\ InOrderOf(d, due)
         /\ \A e : Has(d, e) <=> e # q /\ Has(due, e)
    <3>1. CASE q \notin fresh
      <4>1. due # <<>> /\ Head(due) = q /\ d = Tail(due)
        BY <2>2, <2>3, <2>8, <3>1
      <4> QED BY <2>9, <4>1, TailIs
    <3>2. CASE q \in fresh
      <4>1. ~Has(due, q) /\ due \in Seq(Entry)
        BY <2>2, <2>9, <3>2 DEF Distinct
      <4>2. due # <<>> => Head(due) # q
        BY <4>1 DEF Has
      <4>3. d = due
        BY <2>3, <2>8, <4>2
      <4> QED BY <4>1, <4>3 DEF InOrderOf
    <3> QED BY <3>1, <3>2
  <2>11. ASSUME NEW e \in Entry
         PROVE  Has(d, e) <=> Ahead(s, lp, e) /\ e \notin fresh \ {q}
    <3>1. Onward(s, lp.dir, q, e) => e # q
      BY <1>5, OnwardStrict
    <3>2. Has(due, e) <=> Ahead(s, loop, e) /\ e \notin fresh
      BY <1>6 DEF DueFor
    <3> QED BY <2>1, <2>5, <2>7, <2>10, <3>1, <3>2
  <2>12. ASSUME NEW j \in 1 .. Len(d), NEW k \in 1 .. Len(d), j < k
         PROVE  Onward(s, lp.dir, d[j], d[k])
    <3>1. PICK a \in 1 .. Len(due), b \in 1 .. Len(due) :
              a < b /\ d[j] = due[a] /\ d[k] = due[b]
      BY <2>10, <2>12 DEF InOrderOf
    <3> QED BY <1>6, <2>5, <3>1 DEF DueFor
  <2>13. DueFor(s, lp, d, fresh \ {q})
    BY <1>6, <2>10, <2>11, <2>12 DEF DueFor
  <2>14. s = Contents(h)'
    BY <1>2, <1>4 DEF Contents
  <2>15. DueInv'
    BY <2>3, <2>4, <2>5, <2>6, <2>8, <2>13, <2>14, DueThen
  <2> QED BY <1>1, <1>3, <1>9, <2>1, <2>2, <2>15
<1> QED BY <1>8, <1>9

\* A loop that begins is due what comes behind the node it begins at.
LEMMA StartDue ==
    ASSUME ListsInv, DueInv, NEW h \in ListHead, NEW from \in Node,
           NEW dir \in {"next", "prev"}, NEW safe \in BOOLEAN,
           list_for_each(h, from, dir, safe)
    PROVE  DueInv'
<1>1. PICK s : s = Contents(h)
  OBVIOUS
<1>2. /\ op = None /\ loop = None /\ Linked(h) /\ owner[from] = h
      /\ from \in Entry => dir = "next" /\ ~safe
      /\ loop' = [head |-> h, dir |-> dir, safe |-> safe, pos |-> from,
                  n |-> IF safe THEN Follow(from, dir) ELSE h, body |-> FALSE]
      /\ due' = Walk(from, h, IF dir = "next" THEN next ELSE prev)
      /\ fresh' = {} /\ next' = next
  BY DEF list_for_each, links, DueInv
<1>3. /\ Ring(h, s, next) /\ Len(s) \in Nat /\ owner[h] = h /\ s \in Seq(Entry)
      /\ \A i \in 0 .. Len(s) + 1 :
            Place(h, s, i) \in Node /\ owner[Place(h, s, i)] = h
  BY <1>1, <1>2, PlaceOwner DEF Ring, Distinct
<1>4. Distinct(s) /\ ~Has(s, h)
  BY <1>3, RingLength, ListAssumption DEF Ring, Distinct, Has
<1>5. PICK lp : lp = loop'
  OBVIOUS
<1>6. /\ lp.head = h /\ lp.dir = dir /\ lp.safe = safe /\ lp.pos = from
      /\ lp.safe => lp.n = Follow(from, dir)
  BY <1>2, <1>5
<1>7. lp # None
  <2>1. Linked(from)
    BY <1>2, ListAssumption DEF Node, Linked
  <2>2. Follow(from, dir) \in Node /\ h \in Node
    BY <1>1, <1>2, FollowAfter DEF Node
  <2>3. lp \in LoopType
    BY <1>2, <1>5, <2>2 DEF LoopType
  <2> QED BY <2>3, ListAssumption
<1>8. \A e : Ahead(s, lp, e) <=> Beyond(s, dir, h, from, e)
  <2>1. CASE ~safe
    BY <1>6, <2>1 DEF Ahead
  <2>2. CASE safe
    <3>1. PICK y : y = Follow(from, dir)
      OBVIOUS
    <3>2. /\ y = h => \A e : ~Beyond(s, dir, h, from, e)
          /\ y # h => Has(s, y) /\ \A e : Beyond(s, dir, h, from, e) <=>
                                             e = y \/ Onward(s, dir, y, e)
      BY <1>1, <1>2, <3>1, FollowAfter
    <3>3. \A e : Onward(s, dir, y, e) => Has(s, e)
      BY <1>4, OnwardStrict
    <3> QED BY <1>6, <2>2, <3>1, <3>2, <3>3 DEF Ahead
  <2> QED BY <2>1, <2>2
<1>9. PICK d : d = due'
  OBVIOUS
<1>10. SUFFICES /\ d \in Seq(Entry)
                /\ \A e \in Entry : Has(d, e) <=> Beyond(s, dir, h, from, e)
                /\ \A i, j \in 1 .. Len(d) : i < j => Onward(s, dir, d[i], d[j])
  <2>1. s = Contents(h)'
    BY <1>1, <1>2 DEF Contents
  <2>2. DueFor(s, lp, d, {})
    BY <1>6, <1>8, <1>10 DEF DueFor
  <2> QED BY <1>2, <1>5, <1>6, <1>7, <1>9, <2>1, <2>2, DueThen
<1>11. CASE dir = "next"
  <2>1. PICK j \in 0 .. Len(s) : from = Place(h, s, j)
    <3>1. Linked(from)
      BY <1>2, ListAssumption DEF Node, Linked
    <3> QED BY <1>1, <1>2, <3>1, PlaceOf
  <2>2. d = [k \in 1 .. Len(s) - j |-> s[j + k]]
    BY <1>2, <1>3, <1>9, <1>11, <2>1, RingWalk
  <2>3. Len(s) - j \in Nat /\ \A k \in 1 .. Len(s) - j : j + k \in 1 .. Len(s)
    BY <1>3
  <2>4. /\ d \in Seq(Entry) /\ Len(d) = Len(s) - j
        /\ \A k \in 1 .. Len(s) - j : d[k] = s[j + k]
    BY <1>3, <2>2, <2>3
  <2>5. \A e : Beyond(s, "next", h, from, e) <=>
                  \E k \in 1 .. Len(s) : j < k /\ s[k] = e
    BY <1>4, <2>1, BeyondNext
  <2>6. ASSUME NEW e PROVE Has(d, e) <=> \E k \in 1 .. Len(s) : j < k /\ s[k] = e
    <3>1. ASSUME NEW k \in 1 .. Len(s), j < k, s[k] = e PROVE Has(d, e)
      <4>1. k - j \in 1 .. Len(s) - j /\ j + (k - j) = k
        BY <1>3, <3>1
      <4>2. d[k - j] = e
        BY <2>4, <3>1, <4>1
      <4> QED BY <2>4, <4>1, <4>2 DEF Has
    <3>2. ASSUME Has(d, e) PROVE \E k \in 1 .. Len(s) : j < k /\ s[k] = e
      <4>1. PICK k \in 1 .. Len(s) - j : d[k] = e
        BY <2>4, <3>2 DEF Has
      <4>2. j + k \in 1 .. Len(s) /\ j < j + k
        BY <1>3
      <4> QED BY <2>4, <4>1, <4>2
    <3> QED BY <3>1, <3>2
  <2>7. ASSUME NEW a \in 1 .. Len(d), NEW b \in 1 .. Len(d), a < b
        PROVE  Onward(s, dir, d[a], d[b])
    <3>1. j + a \in 1 .. Len(s) /\ j + b \in 1 .. Len(s) /\ j + a < j + b
      BY <1>3, <2>4, <2>7
    <3>2. d[a] = s[j + a] /\ d[b] = s[j + b]
      BY <2>4
    <3> QED BY <1>11, <3>1, <3>2 DEF Onward, Precedes
  <2> QED BY <1>11, <2>4, <2>5, <2>6, <2>7
<1>12. CASE dir = "prev"
  <2>1. from = h
    <3>1. from \in ListHead
      BY <1>2, <1>12 DEF Node
    <3> QED BY <1>2, <3>1, ListAssumption
            DEF ListsInv, IInv, OwnerInv, Node
  <2>2. d = Reverse(s)
    <3>1. \A x \in Node : Linked(x) => prev[next[x]] = x
      BY <1>2 DEF ListsInv, IInv, RingInv, RingAt, Settled
    <3>2. \A i \in 0 .. Len(s) : prev[next[Place(h, s, i)]] = Place(h, s, i)
      <4>1. h # None
        BY ListAssumption DEF Node
      <4> QED BY <1>3, <3>1, <4>1 DEF Linked
    <3>3. Walk(h, h, prev) = Reverse(s)
      BY <1>3, <3>2, RingBack, RingContents
    <3> QED BY <1>2, <1>9, <1>12, <2>1, <3>3
  <2>3. /\ d \in Seq(Entry) /\ Len(d) = Len(s)
        /\ \A k \in 1 .. Len(s) : d[k] = s[(Len(s) - k) + 1]
    BY <1>3, <2>2 DEF Reverse
  <2>4. \A k \in 1 .. Len(s) : (Len(s) - k) + 1 \in 1 .. Len(s)
                               /\ (Len(s) - ((Len(s) - k) + 1)) + 1 = k
    BY <1>3
  <2>5. ASSUME NEW e PROVE Has(d, e) <=> Has(s, e)
    <3>1. ASSUME NEW k \in 1 .. Len(s), s[k] = e PROVE Has(d, e)
      <4> DEFINE i == (Len(s) - k) + 1
      <4>1. i \in 1 .. Len(s) /\ (Len(s) - i) + 1 = k
        BY <2>4
      <4> HIDE DEF i
      <4> QED BY <2>3, <3>1, <4>1 DEF Has
    <3>2. \A k \in 1 .. Len(s) : Has(s, d[k])
      BY <2>3, <2>4 DEF Has
    <3> QED BY <2>3, <3>1, <3>2 DEF Has
  <2>6. ASSUME NEW a \in 1 .. Len(d), NEW b \in 1 .. Len(d), a < b
        PROVE  Onward(s, dir, d[a], d[b])
    <3>1. (Len(s) - b) + 1 < (Len(s) - a) + 1
      BY <1>3, <2>3, <2>6
    <3>2. d[a] = s[(Len(s) - a) + 1] /\ d[b] = s[(Len(s) - b) + 1]
      BY <2>3
    <3>3. (Len(s) - a) + 1 \in 1 .. Len(s) /\ (Len(s) - b) + 1 \in 1 .. Len(s)
      BY <2>3, <2>4
    <3> QED BY <1>12, <3>1, <3>2, <3>3 DEF Onward, Precedes
  <2> QED BY <2>1, <2>3, <2>5, <2>6 DEF Beyond
<1> QED BY <1>11, <1>12

\* A call that begins changes nothing that a loop is due.
LEMMA CallDue ==
    ASSUME ListsInv, DueInv, UNCHANGED <<loop, due, fresh, next>>
    PROVE  DueInv'
BY DEF DueInv, Contents

\* Every step keeps DueInv.
LEMMA NextDueInv ==
    ASSUME ListsInv, DueInv, [Next]_vars
    PROVE  DueInv'
<1>1. CASE Store
  <2>1. CASE loop # None
    BY <1>1, <2>1, StoreDue
  <2>2. CASE loop = None
    <3>1. due = <<>> /\ fresh = {} /\ loop' = loop
      BY <1>1, <2>2 DEF DueInv, Store
    <3>2. Publish \/ UNCHANGED <<due, fresh>>
      BY <1>1 DEF Store
    <3> QED BY <2>2, <3>1, <3>2, IdleDue DEF DueInv
  <2> QED BY <2>1, <2>2
<1>2. CASE Advance
  BY <1>2, AdvanceDue
<1>3. CASE \E h \in ListHead, from \in Node, dir \in {"next", "prev"},
              safe \in BOOLEAN : list_for_each(h, from, dir, safe)
  BY <1>3, StartDue
<1>4. ASSUME ~Store, ~Advance,
             ~\E h \in ListHead, from \in Node, dir \in {"next", "prev"},
                 safe \in BOOLEAN : list_for_each(h, from, dir, safe)
      PROVE  UNCHANGED <<loop, due, fresh, next>>
  <2>1. CASE UNCHANGED vars
    BY <2>1 DEF vars, links
  <2>2. CASE \E x \in Node : init_list_head(x)
    BY <2>2 DEF init_list_head, Call, links
  <2>3. CASE \E new \in Entry, head \in Node :
                list_add(new, head) \/ list_add_tail(new, head)
    BY <2>3 DEF list_add, list_add_tail, Call, links
  <2>4. CASE \E entry \in Entry, fn \in {"list_del", "__list_del_clearprev"} :
                list_del(fn, entry)
    BY <2>4 DEF list_del, Call, links
  <2>5. CASE \E old, new \in Node, fn \in {"list_replace", "list_replace_init"} :
                Replace(fn, old, new)
    BY <2>5 DEF Replace, Call, links
  <2> QED BY <1>4, <2>1, <2>2, <2>3, <2>4, <2>5 DEF Next
<1> QED BY <1>1, <1>2, <1>3, <1>4, CallDue

\* What a loop has yet to visit is what is ahead of it on its list and was
\* not put there since it began, in the order of the list.
THEOREM DueKnown == Spec => [](ListsInv /\ DueInv)
<1>1. Init => ListsInv /\ DueInv
  <2> SUFFICES ASSUME Init PROVE ListsInv /\ DueInv
    OBVIOUS
  <2>1. loop = None /\ due = <<>> /\ fresh = {}
    BY DEF Init
  <2> QED BY <2>1, InitListsInv DEF DueInv
<1>2. ListsInv /\ DueInv /\ [Next]_vars => (ListsInv /\ DueInv)'
  BY NextLists, NextDueInv
<1> QED BY <1>1, <1>2, PTL DEF Spec

\* Every loop visits all it has to, in order, whatever its body calls.
THEOREM LoopsVisitAll == Spec => LoopVisitsAll
<1>1. ListsInv /\ DueInv =>
         [Advance =>
            LET q == Successor IN
            IF q = loop.head THEN due = <<>>
            ELSE /\ q \in Entry /\ owner[q] = loop.head
                 /\ q \in fresh \/ (due # <<>> /\ q = Head(due))]_vars
  BY AdvanceDue
<1> QED BY <1>1, DueKnown, PTL DEF LoopVisitsAll
=============================================================================

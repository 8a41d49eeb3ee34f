-------------------------------- MODULE List --------------------------------
(***************************************************************************)
(* include/eeos/list.h: circular doubly linked lists.  A function of the   *)
(* header is the sequence of its stores, and a step is one store, since an *)
(* IRQ handler may walk a list between any two.  A loop over a list is a   *)
(* state of its own: its body calls any of the functions.                  *)
(***************************************************************************)
EXTENDS Naturals, FiniteSets, SequencesExt

CONSTANTS
    ListHead,  \* nodes used as the head of a list
    Entry,     \* nodes embedded in the things that are listed
    NULL,      \* the null pointer
    None,      \* no call, no loop, no list
    Done       \* a call that took effect and has not returned

Node == ListHead \cup Entry

VARIABLES
    next, prev, \* the two pointers of every node
    op,         \* the call in progress: function, arguments, next store
    loop,       \* the list_for_each in progress
    owner,      \* auxiliary: the head whose list a node is on; itself for a
                \* head in use, None for all others
    due,        \* auxiliary: entries the loop still has to visit, in order
    fresh       \* auxiliary: entries the loop's body added

links == <<next, prev>>
vars  == <<links, op, loop, owner, due, fresh>>

Linked(x) == owner[x] # None

Function == {"INIT_LIST_HEAD", "list_add", "list_add_tail", "list_del",
             "__list_del_clearprev", "list_replace", "list_replace_init"}

\* x is the node that comes, or goes for good; at is where it comes, or what
\* it replaces; p and n are the pointers read before the first store.
OpType == [fn : Function, x : Node, at : Node, p : Node, n : Node, pc : 1 .. 4]

\* The macros differ in direction and in whether n is read ahead.
LoopType == [head : ListHead, dir : {"next", "prev"}, safe : BOOLEAN,
             pos : Node, n : Node, body : BOOLEAN]

ASSUME ListAssumption ==
    /\ ListHead \cap Entry = {} /\ IsFiniteSet(Entry) /\ NULL \notin Node
    /\ None \notin Node \cup OpType \cup LoopType
    /\ {None, Done} \cap [fn : Function, x : Node, at : Node] = {}
    /\ None # Done

TypeOK ==
    /\ next \in [Node -> Node \cup {NULL}]
    /\ prev \in [Node -> Node \cup {NULL}]
    /\ owner \in [Node -> ListHead \cup {None}]
    /\ op \in OpType \cup {None}
    /\ loop \in LoopType \cup {None}

\* Some heads are LIST_HEAD()s, the others are not initialised yet.
Init ==
    /\ \E S \in SUBSET ListHead :
          /\ next  = [x \in Node |-> IF x \in S THEN x ELSE NULL]
          /\ prev  = next
          /\ owner = [x \in Node |-> IF x \in S THEN x ELSE None]
    /\ op = None /\ loop = None
    /\ due = <<>> /\ fresh = {}

-----------------------------------------------------------------------------
(* The functions, as the stores they make                                  *)

Next_(x, v) == [field |-> "next", of |-> x, to |-> v]
Prev_(x, v) == [field |-> "prev", of |-> x, to |-> v]

INIT_LIST_HEAD(list) == <<Next_(list, list), Prev_(list, list)>>

\* Mutant: the entry is linked before its own pointers are set.
__list_add_early(new, p, n) ==
    <<Prev_(n, new), Next_(p, new), Next_(new, n), Prev_(new, p)>>

__list_add(new, p, n) ==
    <<Prev_(n, new), Next_(new, n), Prev_(new, p), Next_(p, new)>>

\* Mutant: only the list forwards is mended.
__list_del_forwards(p, n) == <<Next_(p, n), Next_(p, n)>>

__list_del(p, n) == <<Prev_(n, p), Next_(p, n)>>

\* Mutant: both pointers of the old node are read before any store.
list_replace_early(old, new) ==
    <<Next_(new, next[old]), Prev_(new, prev[old]),
      Prev_(next[new], new), Next_(prev[new], new)>>

\* Its pointers are read as it goes: an empty head has itself for neighbour.
list_replace(old, new) ==
    <<Next_(new, next[old]), Prev_(next[new], new),
      Prev_(new, prev[old]), Next_(prev[new], new)>>

Stores(o) ==
    CASE o.fn = "INIT_LIST_HEAD" -> INIT_LIST_HEAD(o.x)
      [] o.fn \in {"list_add", "list_add_tail"} -> __list_add(o.x, o.p, o.n)
      [] o.fn = "list_del" -> __list_del(o.p, o.n)
      [] o.fn = "__list_del_clearprev" ->
             Append(__list_del(o.p, o.n), Prev_(o.x, NULL))
      [] OTHER -> list_replace(o.at, o.x)

-----------------------------------------------------------------------------
(* Calls.  Only an entry on no list is added, only a node on a list leaves *)
(* it or is replaced.                                                      *)

\* The node a loop steps to, or from.
LoopBase == IF loop.safe THEN loop.n ELSE loop.pos

\* A loop's body must not take away what the loop steps from.
LoopNeeds(x) ==
    /\ loop # None
    /\ x \in {loop.head, LoopBase}

Call(fn, x, at, p, n) ==
    /\ op = None
    /\ loop # None => loop.body
    /\ op' = [fn |-> fn, x |-> x, at |-> at, p |-> p, n |-> n, pc |-> 1]
    /\ UNCHANGED <<links, loop, owner, due, fresh>>

init_list_head(x) ==
    ~Linked(x) /\ Call("INIT_LIST_HEAD", x, x, x, x)

list_add(new, head) ==
    /\ ~Linked(new) /\ Linked(head)
    /\ Call("list_add", new, head, head, next[head])

list_add_tail(new, head) ==
    /\ ~Linked(new) /\ Linked(head)
    /\ Call("list_add_tail", new, head, prev[head], head)

list_del(fn, entry) ==
    /\ Linked(entry) /\ ~LoopNeeds(entry)
    /\ Call(fn, entry, entry, prev[entry], next[entry])

Replace(fn, old, new) ==
    /\ Linked(old) /\ ~LoopNeeds(old) /\ ~Linked(new)
    /\ new \in ListHead <=> old \in ListHead
    /\ Call(fn, new, old, old, old)

\* The store that makes the call's effect visible to a walk along next.
Visible ==
    CASE op.fn = "INIT_LIST_HEAD" -> 1
      [] op.fn \in {"list_del", "__list_del_clearprev"} -> 2
      [] OTHER -> 4

Publishes == op.pc = Visible

\* What the lists are from then on.
NewOwner ==
    CASE op.fn = "INIT_LIST_HEAD" ->
             [owner EXCEPT ![op.x] = IF op.x \in ListHead THEN op.x ELSE None]
      [] op.fn \in {"list_add", "list_add_tail"} ->
             [owner EXCEPT ![op.x] = owner[op.at]]
      [] op.fn \in {"list_del", "__list_del_clearprev"} ->
             [owner EXCEPT ![op.x] = None]
      [] OTHER ->
             [y \in Node |->
                 IF y = op.at THEN None
                 ELSE IF y = op.x /\ y \in Entry THEN owner[op.at]
                 ELSE IF y = op.x \/ owner[y] = op.at THEN op.x
                 ELSE owner[y]]

\* A node that took another's place is visited in its place.
Publish ==
    /\ owner' = NewOwner
    /\ CASE op.fn \in {"list_del", "__list_del_clearprev"} ->
              due' = RemoveFirst(due, op.x) /\ fresh' = fresh \ {op.x}
         [] op.fn \in {"list_add", "list_add_tail"} ->
              /\ due' = due
              /\ fresh' = IF loop # None /\ owner[op.at] = loop.head
                            THEN fresh \cup {op.x} ELSE fresh
         [] OTHER ->
              /\ due' = ReplaceAll(due, op.at, op.x)
              /\ fresh' = {IF y = op.at THEN op.x ELSE y : y \in fresh}

\* list_replace_init goes on with INIT_LIST_HEAD of the old node.
Store ==
    /\ op # None
    /\ LET code == Stores(op)
           s    == code[op.pc]
       IN  /\ next' = IF s.field = "next" THEN [next EXCEPT ![s.of] = s.to]
                      ELSE next
           /\ prev' = IF s.field = "prev" THEN [prev EXCEPT ![s.of] = s.to]
                      ELSE prev
           /\ op' = IF op.pc < Len(code) THEN [op EXCEPT !.pc = @ + 1]
                    ELSE IF op.fn = "list_replace_init"
                      THEN [fn |-> "INIT_LIST_HEAD", x |-> op.at, at |-> op.at,
                            p |-> op.at, n |-> op.at, pc |-> 1]
                    ELSE None
    /\ IF Publishes THEN Publish ELSE UNCHANGED <<owner, due, fresh>>
    /\ UNCHANGED loop

-----------------------------------------------------------------------------
(* Loops                                                                   *)

\* A read through NULL gives no node.
Follow(x, dir) ==
    IF x = NULL THEN NULL ELSE IF dir = "next" THEN next[x] ELSE prev[x]

\* The nodes a reader meets between from and h, at most all entries and one.
Walk(from, h, link) ==
    LET most == Cardinality(Entry) + 1
        met[k \in 0 .. most] ==
            IF k = 0 THEN from
            ELSE IF met[k - 1] = NULL THEN NULL ELSE link[met[k - 1]]
    IN  [k \in 1 .. CHOOSE n \in 0 .. most :
                        /\ n = most \/ met[n + 1] = h
                        /\ \A j \in 1 .. n : met[j] # h |-> met[k]]

Contents(h) == Walk(h, h, next)

\* Entered from its head, or, list_for_each_continue, from an entry.
list_for_each(h, from, dir, safe) ==
    /\ op = None /\ loop = None
    /\ Linked(h) /\ owner[from] = h
    /\ from \in Entry => dir = "next" /\ ~safe
    /\ loop' = [head |-> h, dir |-> dir, safe |-> safe, pos |-> from,
                n |-> IF safe THEN Follow(from, dir) ELSE h, body |-> FALSE]
    /\ due' = Walk(from, h, IF dir = "next" THEN next ELSE prev)
    /\ UNCHANGED <<links, op, owner, fresh>>

\* Mutant: the node read ahead is not used.
Successor_unsafe == Follow(loop.pos, loop.dir)

Successor == IF loop.safe THEN loop.n ELSE Follow(loop.pos, loop.dir)

\* The third part of the for(), and its condition: the next round, or the end.
Advance ==
    /\ op = None /\ loop # None
    /\ LET q == Successor IN
       IF q = loop.head
         THEN loop' = None /\ due' = <<>> /\ fresh' = {}
         ELSE /\ loop' = [loop EXCEPT !.pos = q, !.body = TRUE,
                              !.n = IF loop.safe THEN Follow(q, loop.dir)
                                    ELSE loop.head]
              /\ due' = IF due # <<>> /\ Head(due) = q THEN Tail(due) ELSE due
              /\ fresh' = fresh \ {q}
    /\ UNCHANGED <<links, op, owner>>

Next ==
    \/ \E x \in Node : init_list_head(x)
    \/ \E new \in Entry, head \in Node :
          list_add(new, head) \/ list_add_tail(new, head)
    \/ \E entry \in Entry, fn \in {"list_del", "__list_del_clearprev"} :
          list_del(fn, entry)
    \/ \E old, new \in Node, fn \in {"list_replace", "list_replace_init"} :
          Replace(fn, old, new)
    \/ Store
    \/ \E h \in ListHead, from \in Node, dir \in {"next", "prev"},
          safe \in BOOLEAN : list_for_each(h, from, dir, safe)
    \/ Advance

Spec == Init /\ [][Next]_vars

-----------------------------------------------------------------------------
(* The predicates of the header                                            *)

list_is_first(list, head) == prev[list] = head
list_is_last(list, head)  == next[list] = head
list_empty(head)          == next[head] = head
list_first_entry_or_null(head) ==
    IF next[head] # head THEN next[head] ELSE NULL

-----------------------------------------------------------------------------
(* Properties                                                              *)

RingAt(x, pv) ==
    /\ next[x] \in Node /\ pv[next[x]] = x /\ owner[next[x]] = owner[x]
    /\ pv[x] \in Node /\ next[pv[x]] = x /\ owner[pv[x]] = owner[x]

\* Between calls the two directions of every list agree, and no node of a
\* list has a pointer to a node that is on another or on none: whatever was
\* added, taken or replaced, stale pointers stay behind in what was taken.
\* The node that a loop steps to or from next is on the loop's list.
Mirrored ==
    /\ op = None => \A x \in Node : Linked(x) => RingAt(x, prev)
    /\ loop # None => owner[loop.head] = loop.head
                      /\ owner[LoopBase] = loop.head

\* The header's predicates say what the contents are: those that read next
\* even between two stores of a call, those that read prev between calls.
PredicatesAgree ==
    \A h \in ListHead : Linked(h) =>
        LET s == Contents(h) IN
        /\ list_empty(h) <=> s = <<>>
        /\ list_first_entry_or_null(h) = IF s = <<>> THEN NULL ELSE s[1]
        /\ \A k \in DOMAIN s : list_is_last(s[k], h) <=> k = Len(s)
        /\ op = None =>
              /\ Walk(h, h, prev) = Reverse(s)
              /\ \A k \in DOMAIN s : list_is_first(s[k], h) <=> k = 1

\* A loop visits what was on its list when it began and still is, in order,
\* and else only what its body put there; it leaves nothing out.  A safe loop
\* does so while its body takes the current entry away, and puts it on another
\* list or back on the same one.
LoopVisitsAll ==
    [][Advance =>
         LET q == Successor IN
         IF q = loop.head THEN due = <<>>
         ELSE /\ q \in Entry /\ owner[q] = loop.head
              /\ q \in fresh \/ (due # <<>> /\ q = Head(due))]_vars

-----------------------------------------------------------------------------
(* What ListContents promises                                              *)

\* What a reader finds from each head in use, and how far the call has come.
Told  == [h \in {g \in ListHead : Linked(g)} |-> Contents(h)]
Shown ==
    IF op = None THEN None
    ELSE IF op.pc > Visible THEN Done
    ELSE [fn |-> op.fn, x |-> op.x, at |-> op.at]

Lists == INSTANCE ListContents WITH list <- Told, op <- Shown

\* A reader along next, an IRQ handler between any two stores included, sees
\* every list as before or as after the call: never cut, never with an entry
\* missing that the call does not touch.
ImplementsContents == Lists!Spec
=============================================================================

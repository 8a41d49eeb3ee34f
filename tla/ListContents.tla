---------------------------- MODULE ListContents ----------------------------
(***************************************************************************)
(* What the circular lists of include/eeos/list.h promise: a head stands   *)
(* for a sequence of entries, and a call changes the sequences at one      *)
(* moment between its start and its return.  Only list_replace_init has    *)
(* two: the old head is no list in between.                                *)
(***************************************************************************)
EXTENDS Naturals, SequencesExt

CONSTANTS ListHead, Entry, None, Done

VARIABLES
    list,  \* head in use -> its entries
    op     \* the call [fn, x, at] in progress, Done once it took effect

Call(fn, x, at) == [fn |-> fn, x |-> x, at |-> at]

\* x comes right behind, or right before, at: a head, or an entry in a list.
Added(l, x, at, behind) ==
    [h \in DOMAIN l |->
        LET s == l[h]
            k == IF h = at THEN IF behind THEN 0 ELSE Len(s) + 1
                 ELSE CHOOSE i \in DOMAIN s : s[i] = at
        IN  IF h = at \/ at \in ToSet(s)
              THEN InsertAt(s, IF behind THEN k + 1 ELSE k, x)
              ELSE s]

\* x takes the place of at; a head that does takes over its entries.
Replaced(l, at, x) ==
    LET was(h) == IF h = x THEN at ELSE h
    IN  [h \in {IF g = at THEN x ELSE g : g \in DOMAIN l} |->
            ReplaceAll(l[was(h)], at, x)]

Result(l, o) ==
    CASE o.fn = "INIT_LIST_HEAD" ->
             [h \in DOMAIN l \cup ({o.x} \cap ListHead) |->
                 IF h = o.x THEN <<>> ELSE l[h]]
      [] o.fn \in {"list_add", "list_add_tail"} ->
             Added(l, o.x, o.at, o.fn = "list_add")
      [] o.fn \in {"list_del", "__list_del_clearprev"} ->
             [h \in DOMAIN l |-> RemoveFirst(l[h], o.x)]
      [] o.fn \in {"list_replace", "list_replace_init"} -> Replaced(l, o.at, o.x)

InUse(l) == DOMAIN l \cup UNION {ToSet(l[h]) : h \in DOMAIN l}

\* The contract of the callers: nothing is on two lists, and what is taken
\* from a list is on one.
Legal(l, o) ==
    LET used == InUse(l) IN
    \/ /\ o.fn = "INIT_LIST_HEAD"
       /\ o.x \in (ListHead \cup Entry) \ used
    \/ /\ o.fn \in {"list_add", "list_add_tail"}
       /\ o.x \in Entry \ used /\ o.at \in used
    \/ /\ o.fn \in {"list_del", "__list_del_clearprev"}
       /\ o.x \in Entry \cap used
    \/ /\ o.fn \in {"list_replace", "list_replace_init"}
       /\ o.at \in used /\ o.x \notin used
       /\ o.x \in ListHead <=> o.at \in ListHead

Init == /\ DOMAIN list \subseteq ListHead
        /\ \A h \in DOMAIN list : list[h] = <<>>
        /\ op = None

Start == /\ op = None
         /\ op' \notin {None, Done} /\ Legal(list, op')
         /\ UNCHANGED list

\* The call may have work left to do that no list shows.
Effect == /\ op \notin {None, Done}
          /\ IF op.fn = "list_replace_init"
               THEN op' = Call("INIT_LIST_HEAD", op.at, op.at)
               ELSE op' \in {None, Done}
          /\ list' = Result(list, op)

Return == op = Done /\ op' = None /\ UNCHANGED list

Next == Start \/ Effect \/ Return
Spec == Init /\ [][Next]_<<list, op>>
=============================================================================

----------------------------- MODULE MCConsole -----------------------------
(***************************************************************************)
(* A model of Console: the kernel's table of one console without an init,  *)
(* one with another console before it and two called qemu, and an empty    *)
(* one; texts with and without a line feed.                                *)
(***************************************************************************)
EXTENDS Console

MCTables ==
    {<<>>, <<[name |-> "qemu", init |-> FALSE]>>,
     <<[name |-> "other", init |-> TRUE], [name |-> "qemu", init |-> TRUE],
       [name |-> "qemu", init |-> FALSE]>>}
MCText == {<<"a", LF>>, <<"b", "c">>, <<>>}
=============================================================================

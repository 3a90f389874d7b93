----------------------------- MODULE MCBiosHeap -----------------------------
(* Instances of BiosHeap for TLC. *)
EXTENDS BiosHeap

(* Words that look like a free block, and like one that is not. *)
TwoWords == {[size |-> 0, free |-> TRUE], [size |-> 2, free |-> FALSE]}
=============================================================================

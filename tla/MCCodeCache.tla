---------------------------- MODULE MCCodeCache ----------------------------
(* Instances of CodeCache and CodeRing for TLC, one at a time. *)
EXTENDS CodeCache, CodeRing, TLC

CONSTANTS x, y

VARIABLE part  \* which of the two is run

-----------------------------------------------------------------------------
(* The cache: two pages of two words. *)

Block(view, first, last) ==
  [view |-> view, first |-> first, last |-> last, entries |-> {first}]
Dma(view, first, last) == [view |-> view, first |-> first, last |-> last]

(* Two blocks next to each other on one page, and a word without code. *)
PatchingGuest ==
  [shapes |-> {Block("kseg0", 0, 0), Block("kseg0", 1, 1)}, stores |-> {0, 1, 2},
   views |-> {"kseg0"}, transfers |-> {Dma("kseg0", 0, 0)}, words |-> {0, 1}]

(* The same code called through two views, and loaded by DMA. *)
MirrorGuest ==
  [shapes |-> {Block("kseg0", 0, 1), Block("kuseg", 1, 1)}, stores |-> {0, 1},
   views |-> {"kseg0"}, transfers |-> {Dma("kuseg", 0, 1)}, words |-> {0, 1}]

(* A block that crosses into the next page, next to one that does not. *)
SpanningGuest ==
  [shapes |-> {Block("kseg0", 1, 2), Block("kseg0", 3, 3)}, stores |-> {2, 3},
   views |-> {"kseg0"}, transfers |-> {Dma("kuseg", 2, 2)}, words |-> {2, 3}]

AllGuests == {PatchingGuest, MirrorGuest, SpanningGuest}
TwoVals == {x, y}
Swap == Permutations(TwoVals)

-----------------------------------------------------------------------------
(* The buffer: two addresses that jump to each other, a long translation   *)
(* with registers to load, and a short one.                                *)

TwoAddrs == {"f", "g"}
TwoLists == ("f" :> 0) @@ ("g" :> 1)
LongAndShort == ("f" :> 2) @@ ("g" :> 1)
LoadsFirst == {"f"}
EachOther == ("f" :> "g") @@ ("g" :> "f")

-----------------------------------------------------------------------------
MCInit ==
  /\ Init /\ RingInit
  /\ \/ part = "cache"
     \/ part = "ring" /\ guest = PatchingGuest

MCNext ==
  \/ part = "cache" /\ Next /\ UNCHANGED <<part, ringVars>>
  \/ part = "ring" /\ RingNext /\ UNCHANGED <<part, vars>>

MCSpec == MCInit /\ [][MCNext]_<<vars, part, ringVars>>
=============================================================================

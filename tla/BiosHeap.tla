------------------------------ MODULE BiosHeap ------------------------------
(***************************************************************************)
(* The heap of the emulated BIOS (psxbios.c: InitHeap, malloc, free,       *)
(* calloc, realloc), which games call when no BIOS image is present.  Its  *)
(* only record of what is free are the headers between the blocks, in the  *)
(* game's own memory: malloc finds them by adding up sizes, joins what is  *)
(* free, takes the first block that is large enough and splits it.         *)
(*                                                                         *)
(* Memory is counted in words.  A word is read as a header: a size and the *)
(* lowest bit, set when the block is free; the game may write anything     *)
(* into the blocks it has, and a word it has written may look like a       *)
(* header.  The game uses the heap as it should: it sets it up first, and  *)
(* writes and frees only blocks it has.  A call is one step, for nothing   *)
(* else runs meanwhile.                                                    *)
(***************************************************************************)
EXTENDS Integers, FiniteSetsExt

CONSTANTS
  Room,       \* the words from where the heap begins to the end of memory
  Sizes,      \* what InitHeap may be given
  Requests,   \* what malloc may be asked for
  Junk        \* words the game may write

(* The heap's memory: InitHeap(n) has a header and n words behind it, the  *)
(* last of them the one heap_end points to.                                *)
Words == 0 .. Room
Word == [size : Nat, free : BOOLEAN]
Memory == [Words -> Word]

ASSUME HeapAssumption ==
  /\ Room \in Nat /\ Sizes \subseteq 1 .. Room
  /\ Requests \subseteq Nat
  /\ Junk \subseteq Word

VARIABLES
  mem,        \* the words
  heap_end,   \* where the search for blocks ends
  live,       \* the blocks the game has: where their headers are, and their length
  refused     \* the length the last call found no room for, if it did not

heapVars == <<mem, heap_end, live, refused>>

Block == [at : Words, len : Nat]
Zero == [size |-> 0, free |-> FALSE]
Extent(b) == b.at .. b.at + b.len

HeapInit ==
  /\ mem = [w \in Words |-> Zero]
  /\ heap_end = 0
  /\ live = {}
  /\ refused = {}

-----------------------------------------------------------------------------
(* The headers that a search finds: the first, and what follows one that is *)
(* found, up to the end of the heap.                                       *)
Follows(m, p) == p + m[p].size + 1

Headers(m, end) ==
  LET found[p \in 0 .. end - 1] == p = 0 \/ \E q \in 0 .. p - 1 : found[q] /\ Follows(m, q) = p
  IN {p \in 0 .. end - 1 : found[p]}

(* Where the free blocks from p on end: at the first that is not, or where *)
(* the search does.                                                        *)
FreeUpTo(m, end, found, p) ==
  Min({q \in found : q > p /\ ~m[q].free} \cup ({Follows(m, q) : q \in found} \ 0 .. end - 1))

(* The first free block of each row of them. *)
Firsts(m, found) ==
  {p \in found : m[p].free /\ \A q \in found : Follows(m, q) = p => ~m[q].free}

(* Fault: what is free at the end of the heap is not written back. *)
JoinedButLast(m, end) ==
  LET found == Headers(m, end)
      firsts == Firsts(m, found)
  IN [w \in Words |->
        IF w \in firsts /\ FreeUpTo(m, end, found, w) < end
        THEN [size |-> FreeUpTo(m, end, found, w) - w - 1, free |-> TRUE] ELSE m[w]]

(* malloc's first loop: the first of free blocks in a row takes in the others. *)
Joined(m, end) ==
  LET found == Headers(m, end)
      firsts == Firsts(m, found)
  IN [w \in Words |->
        IF w \in firsts
        THEN [size |-> FreeUpTo(m, end, found, w) - w - 1, free |-> TRUE] ELSE m[w]]

(* The first free block that is large enough, if there is one. *)
FirstFit(m, end, len) ==
  LET fits == {p \in Headers(m, end) : m[p].free /\ m[p].size >= len}
  IN {p \in fits : \A q \in fits : p <= q}

(* Fault: the rest of a block that is split is taken to need no header. *)
TakeNoHeader(m, p, len) ==
  LET used == [size |-> len, free |-> FALSE]
  IN IF m[p].size = len THEN [m EXCEPT ![p] = used]
     ELSE [m EXCEPT ![p] = used, ![p + len + 1] = [size |-> m[p].size - len, free |-> TRUE]]

(* The block is taken whole, or its rest becomes a free block. *)
Take(m, p, len) ==
  LET used == [size |-> len, free |-> FALSE]
  IN IF m[p].size = len THEN [m EXCEPT ![p] = used]
     ELSE [m EXCEPT ![p] = used, ![p + len + 1] = [size |-> m[p].size - len - 1, free |-> TRUE]]

Cleared(m, b) == [w \in Words |-> IF w \in Extent(b) \ {b.at} THEN Zero ELSE m[w]]

(* psxBios_malloc on memory m, when the game has the blocks in have; the   *)
(* new block is cleared or left as it is.                                  *)
Allocate(m, have, len, clear) ==
  LET joined == Joined(m, heap_end)
      fit == FirstFit(joined, heap_end, len)
  IN /\ UNCHANGED heap_end
     /\ IF fit = {} THEN mem' = joined /\ live' = have /\ refused' = {len}
        ELSE \E p \in fit :
               LET new == [at |-> p, len |-> len]
                   taken == Take(joined, p, len)
               IN /\ mem' = IF clear THEN Cleared(taken, new) ELSE taken
                  /\ live' = have \cup {new} /\ refused' = {}

Freed(b) == [mem EXCEPT ![b.at].free = TRUE]

(* InitHeap: whatever was there before is forgotten. *)
InitHeap ==
  \E n \in Sizes :
    /\ heap_end' = n
    /\ mem' = [mem EXCEPT ![0] = [size |-> n, free |-> TRUE]]
    /\ live' = {} /\ refused' = {}

Malloc(len) == heap_end > 0 /\ Allocate(mem, live, len, FALSE)

(* calloc: malloc, and the block is cleared. *)
Calloc(len) == heap_end > 0 /\ Allocate(mem, live, len, TRUE)

Free ==
  \E b \in live :
    /\ mem' = Freed(b) /\ live' = live \ {b} /\ refused' = {}
    /\ UNCHANGED heap_end

(* realloc: free, and then malloc.  The contents are not moved, and the    *)
(* block is gone when there is no room for the new one.                    *)
Realloc(len) == \E b \in live : Allocate(Freed(b), live \ {b}, len, FALSE)

Write ==
  \E b \in live, v \in Junk : \E w \in Extent(b) \ {b.at} :
    mem' = [mem EXCEPT ![w] = v] /\ UNCHANGED <<heap_end, live, refused>>

HeapNext ==
  \/ InitHeap \/ Free \/ Write
  \/ \E len \in Requests : Malloc(len) \/ Calloc(len) \/ Realloc(len)

HeapSpec == HeapInit /\ [][HeapNext]_heapVars

-----------------------------------------------------------------------------
HeapTypeOK ==
  /\ mem \in Memory
  /\ heap_end \in Sizes \cup {0}
  /\ live \subseteq Block /\ refused \subseteq Requests

(* The blocks the game has never overlap, each other's headers included,   *)
(* and lie within the memory it gave to InitHeap and the word of the first *)
(* header: whatever it writes into them, and in whichever order it frees   *)
(* and asks for more (malloc, free).                                       *)
BlocksApart ==
  /\ \A b \in live : Extent(b) \subseteq 0 .. heap_end
  /\ \A b, c \in live : b # c => Extent(b) \cap Extent(c) = {}

(* Nothing is lost by splitting and joining: malloc only refuses when no   *)
(* stretch below heap_end that no block of the game touches has room for a *)
(* header and the words asked for.  (The word at heap_end may get lost: a  *)
(* rest of no words there has its header where no search comes.)           *)
RoomIsUsed ==
  \A len \in refused, p \in Words :
    p + len < heap_end => \E b \in live : (p .. p + len) \cap Extent(b) # {}
=============================================================================

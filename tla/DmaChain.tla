------------------------------ MODULE DmaChain ------------------------------
(***************************************************************************)
(* The lists in the game's memory that GPUdmaChain (plugins/gpulib/gpu.c)  *)
(* follows, and the marks it puts into them: a game may send a list that   *)
(* never ends.  What the GPU makes of the packets is in GpuFront.          *)
(***************************************************************************)
EXTENDS Integers, Sequences

CONSTANTS
  Threshold,      \* LD_THRESHOLD, packets before a list is taken for a loop (8192)
  MaxPackets      \* bound: packets of a list

ASSUME ChainAssumption == Threshold \in Nat /\ MaxPackets \in Nat \ {0}

VARIABLES links, heap     \* the packets, as written by the guest and now

chain_vars == <<links, heap>>

(* A packet in memory: the address of the next with bit 23, which ends the *)
(* walk, and the words of the packet.                                      *)
End == 0
Packet(to, words) == [to |-> to, bit |-> to = End, words |-> words]

-----------------------------------------------------------------------------
(* The loop of GPUdmaChain: past the threshold every packet is marked with *)
(* bit 23, so that a loop ends where it meets a mark.  sent is the words   *)
(* given to do_cmd_buffer, packet by packet.                               *)
AtHead(packets, start) ==
  [heap |-> packets, addr |-> start, bit |-> FALSE, count |-> 0, ld_addr |-> End, sent |-> <<>>]

PastPacket(s) ==
  LET packet == s.heap[s.addr]
  IN  [heap |-> IF s.count > Threshold THEN [s.heap EXCEPT ![s.addr].bit = TRUE] ELSE s.heap,
       addr |-> packet.to, bit |-> packet.bit, count |-> s.count + 1,
       ld_addr |-> IF s.count = Threshold THEN packet.to ELSE s.ld_addr,
       sent |-> Append(s.sent, packet.words)]

(* Each step past the threshold marks another packet or is the last, so    *)
(* that the walk is at its end after this many.                            *)
Longest(packets) == Threshold + Len(packets) + 2

Walk(packets, start) ==
  LET walk[n \in 0 .. Longest(packets)] ==
        IF n = 0 THEN AtHead(packets, start)
        ELSE LET s == walk[n - 1] IN IF s.bit THEN s ELSE PastPacket(s)
  IN  walk[Longest(packets)]

MarksToRemoveLate(count) == count - (Threshold + 3)     \* fault: one too few
MarksToRemove(count) == count - (Threshold + 2)

(* The second loop, from the packet that was marked first. *)
Unmark(packets, start, count) ==
  LET next[n \in 0 .. count] ==
        IF n = 0 THEN [heap |-> packets, addr |-> start]
        ELSE LET s == next[n - 1]
             IN  [heap |-> [s.heap EXCEPT ![s.addr].bit = FALSE], addr |-> s.heap[s.addr].to]
  IN  next[count].heap

Unmarked(s) ==
  IF s.count > Threshold /\ MarksToRemove(s.count) > 0
  THEN Unmark(s.heap, s.ld_addr, MarksToRemove(s.count)) ELSE s.heap

-----------------------------------------------------------------------------
(* A list of any shape, that starts with its first packet. *)
SendList ==
  \E next \in [1 .. MaxPackets -> End .. MaxPackets] :
    LET packets == [i \in 1 .. MaxPackets |-> Packet(next[i], <<>>)]
    IN  /\ links' = packets
        /\ heap' = Unmarked(Walk(packets, 1))

ChainInit == links = <<>> /\ heap = <<>>

ChainSpec == ChainInit /\ [][SendList]_chain_vars

(* A list is left as the guest wrote it, whatever its shape: the marks     *)
(* that find a loop are gone (GPUdmaChain).                                *)
ListRestored == heap = links
=============================================================================

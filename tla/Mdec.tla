-------------------------------- MODULE Mdec --------------------------------
(***************************************************************************)
(* The motion decoder (mdec.c) and its two channels: 0 feeds it compressed *)
(* blocks, 1 fetches what it has decoded.  Dma has the other channels.     *)
(*                                                                         *)
(* The guest is a game that shows video: it feeds blocks, fetches pieces   *)
(* of any size, and asks for them before there is input.  What a block     *)
(* decodes to is so many units, each named by its block and its place.     *)
(***************************************************************************)
EXTENDS Integers, Sequences

CONSTANTS
  BlockUnits,     \* the units of output a decoded block is made of
  MaxBlocks       \* bound: blocks of video fed

ASSUME MdecAssumption == BlockUnits \in Nat \ {0} /\ MaxBlocks \in Nat

VARIABLES
  busy,           \* the channels with bit 24 of CHCR set
  armed,          \* the channels whose event is due
  mdec            \* struct mdec

mdec_vars == <<busy, armed, mdec>>

(* rl and rl_end count blocks; part is block_buffer_pos, how much of block *)
(* rl is out; pending is the request that waits for input, 0 if none.  out *)
(* is what has been handed out, for the properties.                        *)
IdleMdec == [busy |-> FALSE, pending |-> 0, rl |-> 0, rl_end |-> 0, part |-> 0, out |-> <<>>]

MdecInit == busy = {} /\ armed = {} /\ mdec = IdleMdec

-----------------------------------------------------------------------------
Begins(n) ==
  /\ busy' = busy \cup {n}
  /\ armed' = armed \cup {n}

(* gpuInterrupt, spuInterrupt, gpuotcInterrupt, mdec0Interrupt: nothing    *)
(* ends when the guest has stopped the channel.                            *)
EndEvent(n) ==
  /\ n \in armed \ {1}
  /\ armed' = armed \ {n}
  /\ busy' = busy \ {n}
  /\ UNCHANGED mdec

-----------------------------------------------------------------------------
Left(m) == IF m.part = 0 THEN 0 ELSE BlockUnits - m.part
Fed(m) == (m.rl_end - m.rl) * BlockUnits
UnitsOf(block, from, to) == [u \in 1 .. to - from |-> <<block, from + u>>]
UnitsOfWhole(first, blocks) ==
  [u \in 1 .. blocks * BlockUnits |->
     <<first + (u - 1) \div BlockUnits, ((u - 1) % BlockUnits) + 1>>]

(* psxDma1 while decoding: what is left of the block before, whole blocks, *)
(* and the beginning of one more, which stays in block_buffer.             *)
Decode(m, size) ==
  LET after == size - Left(m)
      whole == after \div BlockUnits
      part == after % BlockUnits
  IN  [m EXCEPT !.out = @ \o (IF m.part = 0 THEN <<>> ELSE UnitsOf(m.rl, m.part, BlockUnits))
                          \o UnitsOfWhole(m.rl + 1, whole)
                          \o UnitsOf(m.rl + whole + 1, 0, part),
                !.rl = @ + whole + (IF part > 0 THEN 1 ELSE 0),
                !.part = part]

(* psxDma1: with nothing to decode the request waits, and the channel is   *)
(* not freed.  The guest asks for no less than what is left of a block,    *)
(* which the code does not check, and no more than it feeds.               *)
Fetch(size) ==
  /\ 1 \notin busy
  /\ Left(mdec) <= size
  /\ IF mdec.busy
     THEN /\ size <= Left(mdec) + Fed(mdec)
          /\ mdec' = Decode(mdec, size)
          /\ Begins(1)
     ELSE /\ mdec' = [mdec EXCEPT !.pending = size]
          /\ busy' = busy \cup {1}
          /\ UNCHANGED armed

(* psxDma0 with the command to decode. *)
Feed(blocks) ==
  LET fed == [mdec EXCEPT !.busy = TRUE, !.pending = 0,
                          !.rl = mdec.rl_end, !.rl_end = mdec.rl_end + blocks]
  IN  /\ 0 \notin busy
      /\ mdec.rl_end + blocks <= MaxBlocks
      /\ mdec.pending <= Left(mdec) + blocks * BlockUnits
      /\ busy' = busy \cup {0}
      /\ IF mdec.pending > 0
         THEN mdec' = Decode(fed, mdec.pending) /\ armed' = armed \cup {1}
         ELSE mdec' = fed /\ UNCHANGED armed

(* psxDma0 with a table; it takes effect at once. *)
UploadTable == 0 \notin busy /\ Begins(0) /\ UNCHANGED mdec

(* mdec1Interrupt: when the input is used up the feeding channel ends too. *)
OutEvent ==
  LET used_up == mdec.rl >= mdec.rl_end
  IN  /\ 1 \in armed
      /\ armed' = armed \ {1}
      /\ mdec' = [mdec EXCEPT !.busy = @ /\ ~used_up]
      /\ busy' = busy \ (IF used_up THEN {0, 1} ELSE {1})

(* mdecWrite1 with the reset bit, by a guest that stops its two channels   *)
(* first and waits for their events; it counts its blocks anew.             *)
ResetKeepsPart(m) == [m EXCEPT !.busy = FALSE, !.pending = 0]      \* fault
ResetRegisters(m) == [m EXCEPT !.busy = FALSE, !.pending = 0, !.part = 0]

ResetMdec ==
  /\ armed = {}
  /\ mdec' = [ResetRegisters(mdec) EXCEPT !.rl = 0, !.rl_end = 0, !.out = <<>>]
  /\ busy' = busy \ {0, 1}
  /\ UNCHANGED armed

-----------------------------------------------------------------------------
(* The guest. *)
Watches ==
  \/ \E size \in 1 .. MaxBlocks * BlockUnits : Fetch(size)
  \/ \E blocks \in 1 .. MaxBlocks : Feed(blocks)
  \/ UploadTable \/ ResetMdec

MdecNext == Watches \/ OutEvent \/ EndEvent(0)

MdecSpec == MdecInit /\ [][MdecNext]_mdec_vars

(* What the motion decoder hands out is the blocks it was fed, in order    *)
(* and without gap, although requests end in the middle of a block and are *)
(* made before there is input (psxDma0, psxDma1).                          *)
BlocksInOrder ==
  \A i \in DOMAIN mdec.out : mdec.out[i] = <<(i - 1) \div BlockUnits + 1, ((i - 1) % BlockUnits) + 1>>
=============================================================================

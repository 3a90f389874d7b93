------------------------------ MODULE GpuFront ------------------------------
(***************************************************************************)
(* The front end of the GPU (plugins/gpulib/gpu.c): the words a game sends *)
(* through the port, by block DMA and by lists in memory are cut into      *)
(* commands, which are drawn, skipped with their frame, or start a         *)
(* transfer of pixels.  Operators from a GPU to a GPU; Dma has the         *)
(* variables.                                                              *)
(*                                                                         *)
(* A word is [cmd, id, w, h]: what it is as the first word of a command    *)
(* ("arg", "end" and "in" are never first), which word of the game's       *)
(* stream it is, and the size it gives when it is the size of a transfer.  *)
(* What is drawn is not modelled, nor with it the fill a skipped frame     *)
(* puts off (pending_fill).                                                *)
(***************************************************************************)
EXTENDS Integers, Sequences, SequencesExt

CONSTANTS
  BufferLen,      \* CMD_BUFFER_LEN, the words the port's buffer holds (1024)
  Rows            \* the lines of video memory (512)

ASSUME GpuAssumption == BufferLen \in Nat \ {0} /\ Rows \in Nat \ {0}

Image == {"write", "read"}
Area == {"show", "hide"}     \* 0xe3: drawing goes to what is displayed, or elsewhere

(* The words of a command of fixed length, 1 + cmd_lengths[cmd]; "quad" is *)
(* any textured one, with the texture page in its last word.               *)
Words(cmd) == CASE cmd \in Area -> 1 [] cmd = "quad" -> 2 [] cmd \in Image -> 3

(* A polyline ends with its first terminator after two points; when none   *)
(* has come yet it is longer than what there is.                           *)
LengthOf(data) ==
  LET end == SelectInSubSeq(data, 4, Len(data), LAMBDA word : word.cmd = "end")
  IN  IF Head(data).cmd # "line" THEN Words(Head(data).cmd)
      ELSE IF end = 0 THEN Len(data) + 1 ELSE end

NoTransfer == [w |-> 1, h |-> 0, y |-> 0, o |-> 0, is_read |-> FALSE]
DisplayedArea == [cmd |-> "show", id |-> 0, w |-> 0, h |-> 0]

(* buf: cmd_buffer up to cmd_len.  dma: the transfer of pixels.  active,   *)
(* allow: frameskip.  page, area: the words ex_regs[1] and ex_regs[3] are  *)
(* from.  log: what has been done, for the properties.  torn: words        *)
(* outside the data have been taken for the rest of a command.             *)
GpuReset == [buf |-> <<>>, dma |-> NoTransfer, active |-> FALSE, allow |-> FALSE,
             page |-> 0, area |-> DisplayedArea, log |-> <<>>, torn |-> FALSE]

Did(g, entries) == [g EXCEPT !.log = @ \o entries]

-----------------------------------------------------------------------------
(* do_vram_io: the rest of the line begun, whole lines, the beginning of   *)
(* another.  Each pixel is logged with its place and its half of a word.   *)
Least(a, b) == IF a < b THEN a ELSE b

VramIo(g, data) ==
  LET d == g.dma
      count == 2 * Len(data)
      l == IF d.o = 0 THEN 0 ELSE Least(count, d.w - d.o)
      row == IF d.o # 0 /\ d.o + l >= d.w THEN 1 ELSE 0
      n == Least(d.h - row, (count - l) \div d.w)
      over == count - l - n * d.w
      h == d.h - row - n
      used == IF h > 0 THEN count ELSE count - over
      Place(p) == IF p < l THEN [x |-> d.o + p, y |-> d.y % Rows]
                  ELSE [x |-> (p - l) % d.w, y |-> (d.y + row + (p - l) \div d.w) % Rows]
  IN  [gpu |-> Did([g EXCEPT !.dma.h = h, !.dma.y = d.y + row + n,
                             !.dma.o = IF h > 0 /\ over > 0 THEN over
                                       ELSE IF row = 0 /\ d.o # 0 THEN d.o + l ELSE 0],
                   [p \in 1 .. used |->
                      [does |-> data[(p + 1) \div 2].cmd, at |-> Place(p - 1),
                       id |-> data[(p + 1) \div 2].id, half |-> (p - 1) % 2]]),
       rest |-> SubSeq(data, Len(data) - (count - used) \div 2 + 1, Len(data))]

(* start_vram_transfer; every transfer begins on the last line. *)
StartTransfer(g, data) ==
  [g EXCEPT !.dma = [w |-> data[3].w, h |-> data[3].h, y |-> Rows - 1, o |-> 0,
                     is_read |-> data[1].cmd = "read"]]

-----------------------------------------------------------------------------
(* The registers a command sets, in the renderer and in ex_regs. *)
Registers(g, data) ==
  CASE Head(data).cmd \in Area -> [g EXCEPT !.area = Head(data)]
    [] Head(data).cmd = "quad" -> [g EXCEPT !.page = data[2].id]
    [] OTHER -> g

(* One whole command, drawn (do_cmd_list) or skipped (do_cmd_list_skip,    *)
(* which minds the registers all the same).                                *)
Executes(g, data, skip) ==
  LET r == Did(Registers(g, data), <<[does |-> Head(data).cmd, id |-> Head(data).id]>>)
  IN  IF skip /\ Head(data).cmd \in Area
      THEN [r EXCEPT !.allow = Head(data).cmd = "hide"] ELSE r

(* An incomplete command is left for later, but do_cmd_list_skip has set   *)
(* the texture page from beyond what there is.                             *)
Incomplete(g, data, skip) ==
  IF skip /\ Head(data).cmd = "quad" THEN [g EXCEPT !.page = -1] ELSE g

(* The loops of do_cmd_list and do_cmd_list_skip: up to an image command,  *)
(* an incomplete one, or drawing where it shows.                           *)
RECURSIVE List(_, _, _)
List(g, data, skip) ==
  IF data = <<>> THEN [gpu |-> g, rest |-> <<>>, stop |-> FALSE]
  ELSE IF LengthOf(data) > Len(data)
       THEN [gpu |-> Incomplete(g, data, skip), rest |-> data, stop |-> TRUE]
  ELSE IF Head(data).cmd \in Image THEN [gpu |-> g, rest |-> data, stop |-> FALSE]
  ELSE LET after == Executes(g, data, skip)
           rest == SubSeq(data, LengthOf(data) + 1, Len(data))
       IN  IF skip /\ ~after.allow THEN [gpu |-> after, rest |-> rest, stop |-> FALSE]
           ELSE List(after, rest, skip)

MaySkip(g, data) == g.active /\ (g.allow \/ Head(data).cmd \in Area)

(* The loop of do_cmd_buffer, from a GPU and the data that is left to the  *)
(* same; a transfer that is going on takes its pixels first.  An image     *)
(* command that comes first is not looked at for completeness.             *)
Taken(s) == IF s.gpu.dma.h > 0 /\ ~s.gpu.dma.is_read THEN VramIo(s.gpu, s.rest) ELSE s

RECURSIVE Process(_), Resume(_)
Process(s) ==
  IF s.rest = <<>> THEN s
  ELSE IF Head(s.rest).cmd \in Image
       THEN IF Len(s.rest) < 3 THEN [gpu |-> [s.gpu EXCEPT !.torn = TRUE], rest |-> <<>>]
            ELSE Process(Taken([gpu |-> StartTransfer(s.gpu, s.rest),
                                rest |-> SubSeq(s.rest, 4, Len(s.rest))]))
  ELSE Resume(List(s.gpu, s.rest, MaySkip(s.gpu, s.rest)))

Resume(list) ==
  LET s == [gpu |-> list.gpu, rest |-> list.rest]
  IN  IF list.stop THEN s ELSE Process(Taken(s))

(* A new drawing area decides at the end whether frames may be skipped. *)
Allowed(area, s) ==
  IF s.gpu.area = area THEN s ELSE [s EXCEPT !.gpu.allow = s.gpu.area.cmd = "hide"]

do_cmd_buffer(g, data) == Allowed(g.area, Process(Taken([gpu |-> g, rest |-> data])))

-----------------------------------------------------------------------------
Buffered(s) == [s.gpu EXCEPT !.buf = s.rest]

flush_cmd_buffer(g) == Buffered(do_cmd_buffer(g, g.buf))

(* Fault: a block overtakes the words in the buffer. *)
WriteDataMemUnflushed(g, mem) == do_cmd_buffer(g, mem).gpu

GPUwriteDataMem(g, mem) == do_cmd_buffer(flush_cmd_buffer(g), mem).gpu

FlushFull(g) == IF Len(g.buf) >= BufferLen THEN flush_cmd_buffer(g) ELSE g

GPUwriteData(g, word) == FlushFull([g EXCEPT !.buf = Append(@, word)])

(* GPUreadDataMem, and GPUreadData with one word. *)
ReadPixels(g, mem) == IF g.dma.h > 0 THEN VramIo(g, mem).gpu ELSE g

GPUreadDataMem(g, mem) == ReadPixels(flush_cmd_buffer(g), mem)

(* do_reset with do_cmd_reset; frameskip goes on. *)
do_reset(g) == [flush_cmd_buffer(g) EXCEPT !.buf = <<>>, !.dma = NoTransfer, !.torn = FALSE,
                                           !.page = 0, !.area = DisplayedArea]

-----------------------------------------------------------------------------
(* GPUdmaChain: the packets of a list one after the other; what they do is *)
(* no concern of the walk.                                                 *)
GPUdmaChain(g, chain) ==
  FoldLeft(LAMBDA h, words : do_cmd_buffer(h, words).gpu, flush_cmd_buffer(g), chain.sent)
=============================================================================

-------------------------------- MODULE Dma --------------------------------
(***************************************************************************)
(* The DMA channels (psxdma.c, psxhw.c), their interrupt register, and     *)
(* what is behind three of them: the front end of the GPU on channel 2     *)
(* (GpuFront, DmaChain), the motion decoder on channels 0 and 1 (Mdec).    *)
(*                                                                         *)
(* A transfer is done at once when the guest writes the control register;  *)
(* the channel stays busy until an event ends it.  The guest is one of     *)
(* four programs, one for each question asked here:                        *)
(*   "stream"  sends a program of GPU commands, cut up in any way          *)
(*   "list"    sends lists of any shape, loops among them                  *)
(*   "video"   feeds the motion decoder and fetches what it decodes        *)
(*   "told"    starts transfers and is told of their ends by interrupts    *)
(***************************************************************************)
EXTENDS GpuFront, DmaChain, Mdec, FiniteSets

CONSTANT
  Programs        \* the "stream" programs: sequences of [cmd, w, h]

Channels == {0, 1, 2, 4, 6}

VARIABLES
  guest,          \* which program
  program, sent,  \* "stream": the commands, and how many of their words are out
  gpu,            \* struct psx_gpu
  icr,            \* DICR: channels enabled, master enable, flags, IRQ_SENT
  irq,            \* bit 3 of I_STAT
  at, seen,       \* "told": where its handler is, and the flags it has read
  untold          \* the enabled transfers that ended and were not handled yet

gpu_vars == <<program, sent, gpu, chain_vars>>
icr_vars == <<icr, irq, untold>>
vars == <<guest, gpu_vars, mdec_vars, icr_vars, at, seen>>

-----------------------------------------------------------------------------
(* The words of a program. *)
Word(cmd) == [cmd |-> cmd, id |-> 0, w |-> 0, h |-> 0]
Args(n) == [i \in 1 .. n |-> Word("arg")]
PixelWords(c) == (c.w * c.h + 1) \div 2

WordsOf(c) ==
  CASE c.cmd \in Area -> <<Word(c.cmd)>>
    [] c.cmd = "quad" -> <<Word("quad"), Word("arg")>>
    [] c.cmd = "line" -> <<Word("line")>> \o Args(c.w) \o <<Word("end")>>
    [] c.cmd \in Image ->
         <<Word(c.cmd), Word("arg"), [Word("arg") EXCEPT !.w = c.w, !.h = c.h]>>
         \o [i \in 1 .. PixelWords(c) |-> Word(IF c.cmd = "read" THEN "in" ELSE "arg")]

Streams ==
  [p \in Programs |->
     LET words == FlattenSeq([i \in DOMAIN p |-> WordsOf(p[i])])
     IN  [i \in DOMAIN words |-> [words[i] EXCEPT !.id = i]]]
Ends ==
  [p \in Programs |-> [i \in 0 .. Len(p) |-> Len(FlattenSeq([j \in 1 .. i |-> WordsOf(p[j])]))]]
stream == Streams[program]

(* Places where a packet or a block may end: after a command, after the    *)
(* head of an image command, among its pixels.                             *)
CutsOf ==
  [p \in Programs |->
     {0} \cup UNION {LET last == Ends[p][i]
                     IN  IF p[i].cmd \in Image THEN last - PixelWords(p[i]) .. last ELSE {last} :
                     i \in DOMAIN p}]
Cuts == CutsOf[program]

Init ==
  /\ guest \in {"stream", "list", "video", "told"}
  /\ program \in IF guest = "stream" THEN Programs ELSE {<<>>}
  /\ sent = 0 /\ gpu = GpuReset
  /\ ChainInit /\ MdecInit
  /\ icr = [enabled |-> {}, master |-> FALSE, flags |-> {}, sent |-> FALSE] /\ irq = FALSE
  /\ at = "out" /\ seen = {} /\ untold = {}

-----------------------------------------------------------------------------
(* DMA_INTERRUPT, for each channel of a set. *)
DmaInterrupt(channels) ==
  LET told == channels \cap icr.enabled
  IN  /\ icr' = [icr EXCEPT !.flags = @ \cup told, !.sent = @ \/ (icr.master /\ told # {})]
      /\ irq' = (irq \/ (icr.master /\ ~icr.sent /\ told # {}))
      /\ untold' = untold \cup told

-----------------------------------------------------------------------------
(* The "stream" and "list" guests.  gpu' is what a GPU_* call makes of it. *)
Quiet == UNCHANGED <<guest, icr_vars, mdec, at, seen>>
Sends == guest = "stream" /\ 2 \notin busy /\ ~gpu.torn
Out(n) == SubSeq(stream, sent + 1, sent + n)
Written(n) == \A i \in sent + 1 .. sent + n : stream[i].cmd # "in"
ReadBack(n) == \A i \in sent + 1 .. sent + n : stream[i].cmd = "in"
ToSend == 1 .. Len(stream) - sent

WritePort ==
  /\ Sends /\ sent < Len(stream) /\ Written(1)
  /\ gpu' = GPUwriteData(gpu, stream[sent + 1])
  /\ sent' = sent + 1
  /\ UNCHANGED <<program, chain_vars, busy, armed>> /\ Quiet

ReadPort ==
  /\ Sends /\ sent < Len(stream) /\ ReadBack(1)
  /\ gpu' = GPUreadDataMem(gpu, Out(1))
  /\ sent' = sent + 1
  /\ UNCHANGED <<program, chain_vars, busy, armed>> /\ Quiet

(* psxDma2, memory to the GPU and back in one block. *)
WriteBlock(n) ==
  /\ Sends /\ {sent, sent + n} \subseteq Cuts /\ Written(n)
  /\ gpu' = GPUwriteDataMem(gpu, Out(n))
  /\ sent' = sent + n
  /\ Begins(2)
  /\ UNCHANGED <<program, chain_vars>> /\ Quiet

ReadBlock(n) ==
  /\ Sends /\ ReadBack(n)
  /\ gpu' = GPUreadDataMem(gpu, Out(n))
  /\ sent' = sent + n
  /\ Begins(2)
  /\ UNCHANGED <<program, chain_vars>> /\ Quiet

(* psxDma2 with a list that starts with its first packet: of the next      *)
(* words in two packets, or of any shape and without words.                *)
WriteList(middle, last) ==
  LET first == SubSeq(stream, sent + 1, middle)
      second == SubSeq(stream, middle + 1, last)
  IN  /\ Sends /\ sent \in Cuts /\ sent <= middle /\ middle <= last /\ Written(last - sent)
      /\ gpu' = GPUdmaChain(gpu, Walk(<<Packet(2, first), Packet(End, second)>>, 1))
      /\ sent' = last
      /\ Begins(2)
      /\ UNCHANGED <<program, chain_vars>> /\ Quiet

AnyList ==
  /\ guest = "list" /\ 2 \notin busy
  /\ SendList
  /\ Begins(2)
  /\ UNCHANGED <<program, sent, gpu>> /\ Quiet

(* GPUreadStatus, also by gpuSyncPluginSR at the end of a frame; GPUvBlank *)
(* when the interlacing changes.                                           *)
ReadStatus ==
  /\ guest = "stream" /\ ~gpu.torn
  /\ gpu' = flush_cmd_buffer(gpu)
  /\ UNCHANGED <<program, sent, chain_vars, busy, armed>> /\ Quiet

(* GPUupdateLace: a frame too long in coming ends the skipping. *)
UpdateLace ==
  /\ guest = "stream" /\ ~gpu.torn
  /\ gpu' = [flush_cmd_buffer(gpu) EXCEPT !.active = FALSE]
  /\ UNCHANGED <<program, sent, chain_vars, busy, armed>> /\ Quiet

(* GPUwriteStatus 5, the display moves: decide_frameskip, and the drawing  *)
(* area may now be what is displayed.                                      *)
Flip ==
  /\ Sends
  /\ \E active, allow \in BOOLEAN : gpu' = [gpu EXCEPT !.active = active, !.allow = allow]
  /\ UNCHANGED <<program, sent, chain_vars, busy, armed>> /\ Quiet

(* GPUwriteStatus 0; the guest begins its program again. *)
ResetGpu ==
  /\ guest = "stream" /\ 2 \notin busy
  /\ gpu' = [do_reset(gpu) EXCEPT !.log = <<>>]
  /\ sent' = 0
  /\ UNCHANGED <<program, chain_vars, busy, armed>> /\ Quiet

-----------------------------------------------------------------------------
(* The "told" guest.  psxDma4 and psxDma6: a mode the channel does not     *)
(* know ends at once.                                                      *)
IsTold == guest = "told" /\ at = "out"

Start(n) ==
  /\ IsTold /\ n \in {4, 6}
  /\ \/ Begins(n) /\ UNCHANGED icr_vars
     \/ busy' = busy \ {n} /\ DmaInterrupt({n}) /\ UNCHANGED armed
  /\ UNCHANGED <<guest, gpu_vars, mdec, at, seen>>

(* CHCR written with bit 24 clear: the event stays. *)
Stop(n) ==
  /\ IsTold /\ n \in busy
  /\ busy' = busy \ {n}
  /\ UNCHANGED <<guest, gpu_vars, armed, icr_vars, mdec, at, seen>>

(* A write of DICR, with the flags to acknowledge. *)
IrqSentKept(again) == again \/ icr.sent      \* fault
IrqSent(again) == again

WriteIcr(enabled, master, acked) ==
  LET flags == icr.flags \ acked
      again == master /\ flags # {}
  IN  /\ icr' = [enabled |-> enabled, master |-> master, flags |-> flags, sent |-> IrqSent(again)]
      /\ irq' = (irq \/ (again /\ ~icr.sent))

Configure ==
  /\ IsTold
  /\ \E enabled \in SUBSET {4, 6}, master \in BOOLEAN : WriteIcr(enabled, master, {})
  /\ UNCHANGED <<guest, gpu_vars, busy, armed, mdec, at, seen, untold>>

(* The guest's handler acknowledges I_STAT, then reads and acknowledges    *)
(* flags until it reads none.                                              *)
TakeIrq ==
  /\ IsTold /\ irq
  /\ irq' = FALSE
  /\ at' = "read"
  /\ UNCHANGED <<guest, gpu_vars, busy, armed, icr, mdec, seen, untold>>

ReadIcr ==
  /\ at = "read"
  /\ seen' = icr.flags
  /\ at' = IF icr.flags = {} THEN "out" ELSE "handle"
  /\ UNCHANGED <<guest, gpu_vars, busy, armed, icr_vars, mdec>>

Handle ==
  /\ at = "handle"
  /\ WriteIcr(icr.enabled, icr.master, seen)
  /\ untold' = untold \ seen
  /\ at' = "read" /\ seen' = {}
  /\ UNCHANGED <<guest, gpu_vars, busy, armed, mdec>>

-----------------------------------------------------------------------------
Stream ==
  \/ WritePort \/ ReadPort \/ ReadStatus \/ UpdateLace \/ Flip \/ ResetGpu
  \/ Sends /\ \E n \in ToSend : WriteBlock(n) \/ ReadBlock(n)
  \/ Sends /\ \E middle, last \in Cuts : WriteList(middle, last)

Told == Configure \/ TakeIrq \/ ReadIcr \/ Handle \/ \E n \in {4, 6} : Start(n) \/ Stop(n)

(* A channel's event, and the interrupt for the transfers that it ends. *)
Event ==
  /\ OutEvent \/ \E n \in Channels : EndEvent(n)
  /\ DmaInterrupt(busy \ busy')
  /\ UNCHANGED <<guest, gpu_vars, at, seen>>

Video == guest = "video" /\ Watches /\ UNCHANGED <<guest, gpu_vars, icr_vars, at, seen>>

Next == Stream \/ AnyList \/ Video \/ Told \/ Event

Spec == Init /\ [][Next]_vars

(* An interrupted guest gets on with its handler. *)
FairSpec == Spec /\ WF_vars(TakeIrq) /\ WF_vars(ReadIcr) /\ WF_vars(Handle)

-----------------------------------------------------------------------------
(* What a program asks for, command by command: what is done, and the word *)
(* it takes to do it.                                                      *)
Asks(p, i) ==
  LET c == p[i]
      first == Ends[p][i - 1] + 1
      Pixel(n) == [does |-> IF c.cmd = "read" THEN "in" ELSE "arg",
                   at |-> [x |-> n % c.w, y |-> (Rows - 1 + n \div c.w) % Rows],
                   id |-> first + 3 + n \div 2, half |-> n % 2]
  IN  IF c.cmd \in Image
      THEN [n \in 1 .. c.w * c.h |-> [by |-> Pixel(n - 1).id, entry |-> Pixel(n - 1)]]
      ELSE <<[by |-> Ends[p][i], entry |-> [does |-> c.cmd, id |-> first]]>>

AllAsks == [p \in Programs |-> FlattenSeq([i \in DOMAIN p |-> Asks(p, i)])]

LastOf(cmds, default) ==
  LET taken == sent - Len(gpu.buf)
      done == {i \in DOMAIN program : program[i].cmd \in cmds /\ Ends[program][i] <= taken}
  IN  IF done = {} THEN default ELSE Ends[program][CHOOSE i \in done : \A j \in done : j <= i]

(* However the stream is cut into single words, blocks and packets, and    *)
(* whenever the buffer is flushed or a frame skipped: what has been done   *)
(* is what the words taken ask for, every command once and in order, every *)
(* pixel in its place; skipped commands set the registers all the same;    *)
(* and the buffer holds no more than it can (do_cmd_buffer,                *)
(* flush_cmd_buffer, do_vram_io, do_cmd_list_skip).                        *)
DrawsStream ==
  guest = "stream" /\ ~gpu.torn =>
    LET taken == sent - Len(gpu.buf)
        now == SelectSeq(AllAsks[program], LAMBDA a : a.by <= taken)
    IN  /\ gpu.log = [i \in DOMAIN now |-> now[i].entry]
        /\ gpu.area.id = LastOf(Area, 0)
        /\ gpu.page \in {-1, LastOf({"quad"}, 0)}
        /\ gpu.page = -1 => gpu.buf # <<>>
        /\ Len(gpu.buf) < BufferLen

(* The end of a transfer with its interrupt enabled is handled, unless the *)
(* guest disables the master bit: none is lost between the handler's read  *)
(* of the flags and its acknowledgement (DMA_INTERRUPT, the write of DICR).*)
TransfersTold ==
  \A n \in {4, 6} : (n \in untold /\ icr.master) ~> (n \notin untold \/ ~icr.master)
=============================================================================

# pcsx-ab in TLA+

Specifications of pcsx-ab, AutoBleem's fork of PCSX-ReARMed: a PlayStation
emulator written in C. The modules here are translated from the source under
`src/`, checked on small instances with TLC, and eleven of them proved about, for
every value of their constants, with TLAPS. `PROJECT.json` maps each
definition to the lines it stands for; this file says what the parts are, how
the modules correspond to them, and what the checks and proofs show.

The emulator runs almost everything in one thread. What is hard about it is
therefore less threads than time: device code arms an event some cycles ahead,
the translated guest code runs on, and the event is handled later, in some
order, together with others, by code that has to find the state it left. The
threads there are (the sound worker, the player of audio tracks, the power and
temperature watches, the writer of the status file) share plain variables with
the emulator. And the guest is a party too: it writes over its own translated
code, cuts its commands up as it likes, and drops transfers half way.

## 1. Inventory

| Component | State it keeps | Operations | Hard about it | What makes it correct |
|---|---|---|---|---|
| **Sound mixer** `plugins/dfsound/spu.c`, `registers.c`, `dma.c`, `freeze.c` | work-item ring, three counters, two semaphores, voices, reverb area, capture buffers | `do_samples` from vblanks, register writes, DMA, loading; `do_samples_finish`; the worker; start and shutdown | two threads with no lock; the reverb area moves under queued items; semaphore posts and counters must agree | each update is played once, in order, mixed; no slot and no SPU memory used by both threads; calls return |
| **Event scheduler** `new_dynarec/emu_if.c`, `r3000a.h` | interrupt bits, event times, `next_interupt` | arm, cancel, `irq_test`, `schedule_timeslice`, forced tests on status writes | wrapping clock, handlers that arm and cancel while the table is walked, a copy of the bits | no event lost, late by more than a block, or starved |
| **CD-ROM controller** `cdrom.c` | one cause at a time in `Stat`, command under way, drive state, reading, playing, seeking | registers 0-3, command, read, play and lid events, save, load, reset | responses that wait for each other's acknowledgement; commands that stop a read already due; disc changes in between | no response lost, overwritten or uninvited; what is under way stays armed; every command answered |
| **Session** `frontend/main.c`, `libpcsxcore/misc.c`, parts of `menu.c`, `plugin_lib.c` | one pending action, reset on hold, memory-card flag, ring of snapshots, names of the resume point | keys, timer, power button, temperature, menu, disc change, load, exit | four sources write one variable; a reset waits for a card and for a disc; the ring is emptied on many paths | the resume point is the oldest snapshot, under the right name, from a quiet card; the power button ends the session |
| **Serial port** `sio.c` | selected slot, position in the transfer, one shared buffer, the cards, new-card marks | control, data write, data read, interrupt, card change | transfers dropped at any byte, the buffer serving every kind of transfer | only whole frames reach a card; the answers are true; no transfer waits for ever |
| **Root counters** `psxcounters.c` | three timers, scan-line counter with a fraction of a cycle | writes of count, mode, target, update, load | updates that come late, a clock that wraps, both ends passed in one update | no drift; the interrupts programmed; one vblank per frame |
| **Block cache** `new_dynarec/new_dynarec.c`, `linkage_arm.S`, `emu_if.c` | clean and dirty entries, hash table, patched jumps, marks of pages, the gap | compile, look up, patch, store, DMA, restore, expire, load a state, reset | four structures hold the same pointer; stores are trapped by page, let through in a gap, and seen at several addresses | what runs unchecked is what memory holds, and has not been written over |
| **Audio tracks** `cdriso.c`, `dfsound/xa.c` | play thread, position, open files, CHD hunk cache, ring of sound | play, stop, seek, read, open, close, feed, mix | the thread reads what the emulator closes, and waits for room only the emulator makes | the thread stops before the image goes; what is heard is what was asked for; a stop returns |
| **GPU front end** `gpulib/gpu.c` | command buffer, transfer of pixels, frame skip | data writes and reads, DMA blocks and lists, status, vblank, reset | commands split anywhere; three streams into one buffer; lists that loop | every command done once, in order, or skipped whole |
| **DMA** `psxdma.c`, `psxhw.c` | busy bits, events, `DICR` | start, stop, completion, acknowledgement | completion long after the copy; flags acknowledged while others are set | every enabled completion is told |
| **Motion decoder** `mdec.c` | block left over, requests that wait, busy bits | DMA 0 and 1, tables, reset | output asked for before the input is there, and in pieces of blocks | blocks in order, none lost |
| **HLE BIOS** `psxbios.c` | heap, events, threads, files | some 150 calls | the heap's record is in the game's memory; interrupts nest in calls | blocks never overlap, room is not lost |
| Interrupt registers `psxhw.c` | `I_STAT`, `I_MASK` | reads and writes | acknowledge races with a new cause | no cause lost |
| Pads, battery, buttons `dfinput/`, `ab_pad_battery.c`, `in_tsbutton.c` | report, rumble, battery level | poll, read files | cables pulled | covered by the repository's own tests in part |
| Status file, fade-in, watchdog `misc.c`, `spu.c`, `plugin_lib.c` | small threads | write, fade, time out | end of the process while they run | the file is whole |
| Recompiler, interpreter, GTE, rasterizers, synthesis, cheats, patches, menus, plug-in loading, platforms | | | mostly data and code generation | see the notes in `PROJECT.json` |

How they interact: device code calls `set_event` (scheduler); `irq_test` calls
the devices back (`cdrInterrupt`, `cdrReadInterrupt`, `sioInterrupt`,
`psxRcntUpdate`, the ends of DMA transfers, ...). `psxRcntUpdate` makes the
vblank, and at the vblank the frontend reads keys and timers (`update_input`)
and sets the pending action, the SPU mixes (`SPU_async`), the GPU decides
whether to skip the frame, and `stop` is set; when the core returns, `main` runs
the action, which may reset, save, load or enter the menu. The serial port tells
the session through `memcardFlag` that a card is in use. The CD controller reads
sectors from, and starts and stops the audio of, the image reader, whose thread
feeds the mixer's ring. DMA writes, and a loaded state, withdraw translated code
from the block cache.

## 2. Plan

Done, in this order, most important first: `SpuQueue`/`SpuWorker`,
`EventSched`, `CdRom`, `Session`, `Sio`, `RootCounters`, `CodeCache`, `Cdda`,
`GpuFront`, `DmaChain`, `Mdec` and `Dma` (which composes the GPU's front end, its
lists in memory, the motion decoder and the DMA channels), `BiosHeap`, `CodeRing`;
and the proofs about the first six, the cache, the audio thread, the lists, the
motion decoder, the heap and the buffer of translations.

Still worth doing:

* Compositions: `EventSched` with `RootCounters` (delays by `psxRcntSet` instead
  of by a bound) and with `CdRom`; `Sio` with `Session` (`memcardFlag`); `CdRom`
  with `Cdda` (now joined by an assumption of one that is a property of the
  other, `AudioFollowsPlay`).
* Components: the HLE BIOS's interrupts, events and threads; the writer of the
  status file.

There is one run for each question, a dozen in all.

## 3. Modules

Each MC module instantiates the module it is named after, with definitions for
its cfg; the names in the cfg files are those of the constants.

### SpuQueue, SpuWorker, SpuDmaProofs, MCSpuWorker

`SpuQueue` is what the mixer promises a listener: an ordered queue of updates,
each played once. `SpuWorker` is the code: the emulator thread (`pc`) goes
through a call of `do_samples` statement by statement as far as the other
thread could notice (waiting for the worker, key on and key off, filling an
item or mixing directly, finishing an item), the worker (`wpc`) through
`spu_worker_thread`; `sem_avail` and `sem_done` are counting semaphores, and
`i_ready`, `i_done`, `i_reaped` the counters of the ring. An update stands for
one stretch of samples; what the model keeps of it is which voices play, the
reverb work area it captured, and whether it has been mixed. The worker's
write of `i_done` and its post are separate steps. Callers are the vblank
(`async`), register writes (`reg`), DMA (`mem`) and loading (`load`). The
refinement mapping is the set of updates asked for and not yet played; an
update that is mixed directly may overtake queued ones only where the "Threaded
SPU" option was switched off in between, and `SpuQueue` says so.

* `spu`: two slots, every caller, the option switched while items are in
  flight, four updates, which fill two slots twice. Neither thread touches what
  the other uses, only mixed items are played, the ring implements `SpuQueue`,
  every call returns (`EveryCallReturns`, shutting down included). Fairness is
  weak, of each thread once it has something to do: an operating system runs
  both.
* `spu_capture` finds a **violation**: `do_samples_finish` of an older item
  clears the mark of a voice whose newer item is still queued, so its capture
  buffer is not cleared when it falls silent, as the comment there demands.

### EventSched, SchedHeapProofs, MCEventSched

`cycle`, `next_interupt`, `event_cycles` and the interrupt bits are the code's;
arithmetic is modulo `Clock`. A run of translated code ends after at most
`MaxBlock` cycles beyond the stop; `irq_test` takes a copy of the bits
(`irqs`), visits them in order (`todo`) and writes them back, with handlers
arming and cancelling in the middle. `left` is the true time left, which no
code keeps: `ClockAgrees` compares the two. Two things the code does that
surprise are in the model: an event cancelled by a handler of the same test
runs all the same (the interpreter's `psxBranchTest` tests the live bits, so
the two cores differ), and an event armed for *now* by a handler is not "in the
future" for `schedule_timeslice` and waits for the next stop (`overdue`).

* `sched`: a clock of 12 and delays up to 4 wrap many times; three events give
  every relation of order among the arming, the armed and the cancelled one.
  Fairness: blocks end, `irq_test` goes on, and a stop that is due is taken: all
  three are loops of one thread.

### CdRom, CdRomProofs, MCCdRom

Every register access, command and event handler of `cdrom.c` that changes the
controller's state is an action, with `AddIrqQueue`, `cdrInterrupt`,
`ReadTrack`/`cdrReadInterrupt`, `cdrPlayInterrupt`, `cdrLidSeekInterrupt`,
freeze and reset in whole. Cycle counts are not modelled: an armed event may
fire at any time and in any order, which covers all the delays in the code and
those given to single titles. The guest acknowledges a cause whole and masks
all causes or none. `Config.Cdda` is 0 (audio on). `announced` and `wanted`
are history: whether the interrupt was raised for the cause in `Stat`, and
whether the guest last asked to read or to stop.

* `cd`: eight guests, one for each way to disturb the controller: data commands
  in a hurry with bad sectors and a masked interrupt; discs changed while it
  reads, plays, seeks, winds or is reset; audio in its modes with the state
  saved, loaded and reset; every kind of command from a guest that waits for its
  answers. The guests are as small as each question allows, because the safety
  properties are theorems for every set of guests. The exception in
  `CausesAnnounced` is real: a sector that cannot be read leaves `DiskError`
  without an interrupt. `CommandsAnswered` is for a guest that waits for each
  answer, `DriveRecovers` for a drive to which no sectors keep coming (each sets
  the rotating bit that the lid event waits for). Fairness: a command event
  fires when nothing is unacknowledged, lid events fire, and the guest
  acknowledges what it is told of: that is the scheduler of `EventSched` and the
  kernel's interrupt handler. No fairness is assumed of reading or of the player.

### Session, SessionProofs, MCSession

A session from the start of a game to the end of the process. One call of
`irq_test` is one step, with the lid event, the vblank's `update_input`, other
handlers and `emu_sync_state` in the order of the code; then `main`'s loop does
the action. `card.calm` counts the intervals in which the guest really left
the card alone, `ring.order` the slots really filled: `SaveAfterQuiet` and
`OldestServed` compare them with the flags and counters of the code.

* `session_safety`: one player who changes discs, loads and resets with
  `AB_EXIT_DIR` set, three snapshots and one blocked interval; and one who uses
  everything the menu offers, on either disc. Discs are interchangeable, so
  the run uses symmetry (it checks no liveness). `CleanExit` is stated for a
  player who changes discs only once the ring holds one disc and who does not
  switch autosave; the name of the resume point follows the ring at one place
  only (see the hazards).
* `session_live`: while the game runs, the power button and overheating end the
  session (`AlarmsServed`). Fairness: frames go on, the two-second interval passes again and
  again with the card left alone (strong, because it has to coincide with a
  frame), and the main loop runs.

These stop where a session ends, so deadlock is not checked. Two things the
model shows are not properties of it, for want of a text that promises more:
"Reset game" writes `filename.txt` before the exit, and in the main menu the
power button is no longer seen, because its flag makes the key reader return
at once while the menu waits for keys.

### Sio, SioProofs, MCSio

The port byte by byte: what is expected (`padst`, `mcdst`), the position, the
buffer, the card addressed. `driver` is the guest's side and history: the bytes
it has sent and the answers it has read since the transfer began. The driver is
the kernel's: for each byte it waits for the interrupt, reads one answer,
acknowledges, and goes on, or drops the transfer at any point by taking DTR
down; it changes slots only then. Only slot 1 holds a card, as in this fork.

* `sio`: frames of two bytes (the shortest with a first and a later byte, which
  the code treats differently), two addresses, cards put in and taken out
  between transfers. Fairness: the interrupt comes, and a driver that does not
  drop the transfer goes on with it.

`Swaps` says in which states of the port the player may change cards. With all
of them TLC finds that a card changed from the menu during a transfer loses its
"new" mark to the old transfer, and gets its frame.

### RootCounters, RootCountersProofs, MCRootCounters

Timers and scan lines as in the code: the cycle each was last zero, and the
cycles from there to the target or the overflow, all modulo `Clock`. Next to
them run ideal timers and an ideal beam that count every cycle and are never
late. `psxRcntUpdate` comes at the end of a block, up to `Late` cycles after it
is due. Timers whose target is not beyond the longest block are not followed:
the code cannot see each of their rounds, and does not try.

* `root_counters`: clock 22 and overflow at 4, so both wrap often; a line of
  3 1/2 cycles, so the fraction matters, and shorter than the overflow, so that a
  loaded state may have counted past a line; a frame of three lines, its
  vblank on line 2; updates up to one cycle late; rates 1 and 2 and
  "disabled"; no target, and one just short of the overflow, so that one update
  can pass both.

`FrameHasVBlank` leaves out the frames in which a state was loaded. Loading sets
`hsync_steps` from the count that `_psxRcntWcount` has just cut to 16 bits, while
`hSyncCount` stays what it was: a state loaded just after a vblank gets a second
one, and one loaded again and again may get none. From the next top of the frame
the beam is known again and the property is back.

### CodeCache, CodeRing, CodeCacheProofs, MCCodeCache

Memory is a few words on a few pages, seen through the three views of the
address space. A translation remembers its source; its clean entries run at
once, its dirty ones compare first. `jump_in`, `jump_dirty`, `hash_table` and
`jump_out` are the code's lists as sets, so which of two entries for one address
is found first is left open; `invalid_code` says whether stores to a page are
trapped, `inv_code` the gap around a store that found no code
(`inv_code_start`, `inv_code_end`), in which the next ones are let through.
Compiling, looking up, patching a jump, a trapped store with its invalidation, a
transfer, restoring a page from its dirty entries, a loaded state and a reset
are actions. `TranslationsAgree`: whatever may run without being compared is
what memory holds. `PointersBacked`: no patched jump and no clean hash entry
outlives its entry in `jump_in`.

`CodeRing` is the buffer the translations lie in, a ring of eight pieces of two
megabytes. Every compilation moves `out` on and, two pieces ahead of it,
`expirep`, which goes four times through each piece: entries leave `jump_in`
and `jump_dirty`, patched jumps into the piece are found by their records in
`jump_out` and undone, hash table entries go, and last the records of the jumps
in the piece. In between, code that is about to expire may be found in any of
these, run, link its jump and have more compiled. `RoomIsFree`: what can still
run, and what is still recorded, never lies in the `MAX_OUTPUT_BLOCK_SIZE` after
`out`. What makes it hold is that an entry taken off a list is taken out of the
hash table too, so that nothing can enter a piece once the jumps into it have
been undone, and that the records of the jumps in the piece go with it. One
instance and one proof module extend both modules, so what both have goes by
another name here: `LookUp` is `get_addr`, `LookUpHashed` `get_addr_ht`, `Link`
`dyna_linker`, `Withdraw` `invalidate_page`, `Restore` `clean_blocks`, and
`PushOut` the loss of an entry to another address of its bin.

* `cache`: two pages of two words, two values (symmetric), three programs: one
  that patches its own code, with two blocks side by side on a page; one that
  calls the same code through two views and is loaded by DMA; one with a block
  that goes on into the next page next to one that does not.

  And, apart from these, a buffer of four pieces, each table gone through in two
  steps, with two translations that call each other, one of them long enough to
  cross a border: they are invalidated, restored, made again and expire at every
  place and in every order (`Live`: two at a time that anything refers to).

`TranslationsAgree` and `PointersBacked` leave out what the code does not ensure:
blocks that span pages, and stores through other views than kseg0 (see the hazards).

### Cdda, CddaProofs, MCCdda

The play thread of `cdriso.c` (`thread[p].pc`, one for each playback, of which
one at most is alive), its chunk `sndbuffer`, the ring of `xa.c`, the mixer, and
the emulator's thread in `stopCDDA`, `pthread_join` and what it stopped the
playback for (`emu`). Each access to a shared variable is a step. A slot of the
ring takes one sector. For a CHD image a hunk is cached for the thread and for
data reads, under a lock; `fetched` is the point between looking at
`current_hunk` and copying out of it. `cdda` assumes that the controller stops a
playback before it starts another, which is `AudioFollowsPlay` of `CdRom`.

* `cdda`: a ring of four slots fed two sectors at a time (it wraps within a
  chunk), four sectors, hunks of two, two playbacks from two places, muted or
  not, in and out of the menu, with the image changed and the process ending.
  `AloneWhenStopped`: after `stopCDDA` no thread is left; `CacheKept`: no reader
  finds another's hunk; `HeardInOrder`: what the mixer takes out is what was
  asked for; `PlaybackEnds`: a stop returns and a playback comes to its end.
  Fairness: both threads run; the lock, which both take again and again, is
  strongly fair to each, and so is the mixer, which a player in the menu holds
  up but not for ever. The process ends, so deadlock is not checked.

The last two are stated for a ring that has not run dry exactly at its end
(`dry`), where the mixer starts over and plays the whole ring again; TLC finds
them violated there.

### GpuFront, DmaChain, Mdec, Dma, MCDma

`GpuFront` has the front end of `gpu.c` as operators from a GPU to a GPU:
`do_vram_io`, `start_vram_transfer`, `do_cmd_buffer`, `do_cmd_list_skip`,
`decide_frameskip`, the port with its buffer, the flushes. A word is what it is
as the first word of a command, and its number in the game's stream. `DmaChain`
has the lists in memory, `GPUdmaChain`'s walk along them (`PastPacket` is one
turn of its loop) and the marks it puts into them and removes. `Mdec` has the
motion decoder with its two channels, their busy bits and end events. `Dma` puts
them together and adds the other channels, `DICR` and bit 3 of `I_STAT`: its
`AnyList` takes the step of `DmaChain`, its `Video` and `Event` take those of
`Mdec`, and what the GPU makes of a list is `do_cmd_buffer` of the packets the
walk has met, one after the other. `DmaChain` and `Mdec` are modules of their own
because they are proved about, and `GpuFront`, with its RECURSIVE loops, cannot
be. The guest is one of four programs, one for each question; a channel's
transfer is done at once when the register is written, as in the code, and its
end comes at any time later.

* `gpu_dma`, guest "stream": every program of up to three commands of every
  kind (drawing area, polyline, textured quad, pixels written and read), cut
  into words through the port, blocks and packets, flushed by status reads and
  frames, skipped or not: what is drawn is what the stream says, each pixel in
  its place, once, or its frame is skipped whole and the registers kept
  (`DrawsStream`). Cuts through a command other than among its pixels are made
  through the port only. `BufferLen` is 6, so that the buffer fills. Rows are 2
  and transfers start on the last, so that they wrap.
* guest "list": lists of up to four packets of every shape, loops among them,
  with a threshold of one packet: all marks are gone afterwards (`ListRestored`).
* guest "video": up to three blocks of three units, fed and fetched in pieces of
  any size, asked for before the input is there, reset in between: they come out
  in order (`BlocksInOrder`).
* guest "told": transfers on five channels ending under an interrupt handler
  that reads the flags, acknowledges what it read and handles it: every enabled
  end is told (`TransfersTold`). Fairness: an interrupted guest gets on with its
  handler.

### BiosHeap, SchedHeapProofs, MCBiosHeap

The heap of the HLE BIOS, in words: the headers lie in the game's memory, and a
word the game writes may look like one. `malloc` joins free blocks, takes the
first that fits and splits it; `calloc` and `realloc` are combinations of it.
`Headers` is what the walk from `heap_addr` by `csize + 4` finds, and `Joined`
the outcome of the first loop: of free blocks in a row, the first takes in the
others. `Room` is how far memory goes beyond the word `heap_addr` points to. The
names of the state machine carry the module's (`HeapInit`, `HeapNext`,
`HeapSpec`), so that a module of proofs can extend it along with another.

* `bios_heap`: memory for a heap of five words, a heap of that size or of two, requests of 0 to 5, words that
  look like free and like used blocks. `BlocksApart`: no two blocks overlap,
  and they lie in the memory given. `RoomIsUsed`: a request is refused only
  where no row of free blocks has room for it. One word past the size given
  belongs to the heap in the code and in the model.

## 4. Proofs

Eleven modules are proved about, in eight modules `...Proofs`, for every value of
the constants that the named assumptions admit. In each, the invariants that
matter are not inductive, and the proof is that of a stronger one, checked by
TLC before it was proved; one lemma per conjunct or action, one case per
disjunct of `Next`.

`SpuDmaProofs`, first part (`SlotsAssumption`, `CallersAssumption`). That the worker is
not in a slot follows from how many posts are outstanding and where each thread
stands. `IInv` adds: `Counting` (semaphores, counters and program counters
agree), `Capacity` (the ring never holds more than it has room for, and has a
free slot when one is about to be filled), `Mixed` (which items have been
mixed), `Forced` (a forced call leaves nothing in flight) and `Reverb` (the work
area does not move under an item). Slots are distinct within a window of `Slots`
items (`SlotInjective`), which is the only arithmetic. From it: `SlotSafety`,
`MixedSafety`, `ExclusionSafety`, and `QueueImplemented`, the refinement, which
maps each step to a step of `SpuQueue` or to none.

`SpuDmaProofs`, second part (`ChainAssumption`: any threshold, any number of
packets). `ListsStayAsWritten`: each list is walked and restored within one step,
so what has to be proved is what two loops do, for lists of every length.
The walk is a recursive function; that there is one is shown without an induction
over operators, by iterating a function (`Iterated`, from the smallest number of
steps that cannot be taken). Then: as far as the walk has come, what is marked is
what it met beyond the threshold, and each packet led to the next (`Walked`);
beyond the threshold none is met twice, or a mark would have stopped the walk
there (`MetOnce`); so the walk ends within `Longest` steps, for each of them would
need another packet (`WalkEnds`, by counting). The second loop takes the same way
and removes one mark with each turn (`OneLess`, `UnmarkIs`). The last packet the
walk met is left out of it, rightly: either the game's own end of the list lies
there, or it was marked earlier (`ChainRestores`). That the loop counts from
`LD_THRESHOLD + 2` is needed in this, and one more leaves a mark.

`SpuDmaProofs`, third part (`MdecAssumption`: blocks of any size).
`BlocksComeInOrder`: `MdecInv` says that what is out is the units from the first
on, as many as `rl` and `block_buffer_pos` say (`Decoded`); that the decoder has
input only while channel 0 is busy, and no other end event frees it; and that
a request that waits is large enough. `DecodeGoesOn` is the step that matters: the
rest of a block, whole blocks and the beginning of another are three stretches
that follow each other (`UnitsAre`, `WholeUnitsAre`, `RunFirst`), and no more
input is used than there is. The division of a request by the size of a block is
the arithmetic (`Quotient`, `QuotientIs`).

`SchedHeapProofs`, first part (`EventsAssumption`, `ClockAssumption`: the clock is
wide enough for the delays). `SchedInv` says that every entry holds the time its
event is due (`Timed`), that none is further ahead than half the clock (`Near`),
that the stop comes less than a block after the first event but for those that
were not in the future when the slice was scheduled (`Stops`), and that what
`irq_test` has visited and what handlers armed is not overdue (`Tested`). Then a
wrapped difference is the true one (`ClockNeverLies`), and `NoEventLate`.

`CdRomProofs` (`GuestsAssumption`). `CdInv` is `Sound` of the drive, and of the
saved state, since that may come back at any time: what is under way has its
event armed (`Moving`, `Commanded`), a cause that is not masked was announced
(`Told`), and a read is under way or in the queue only for a guest that wants it
(`Wanted`). Besides the three invariants it gives the two action properties
`ResponseKept` and `ReadsWhenAsked`.

`SessionProofs` (`SessionAssumption`). `SaveAfterQuiet` and `HeldForDisc`
concern only the reset, so `ResetInv` leaves the ring and the actions alone: it
says what the card's flags imply about the intervals that have really passed
(`QuietMeansCalm`), and what a held reset implies about the disc.
`OldestServed` needs to know where each snapshot lies: `RingWalk` says that the
slots filled are the last `gFilledNum` ones before `gLastCount`, in that order,
modulo the length of the ring, and `Labelled` that each holds what its label
says; the modulo arithmetic of one step is proved apart, for every length.
`CleanExit` is about discs, and holds of players who wait (`ExitPlayersWait`:
where `AB_EXIT_DIR` is set they change discs only once the ring holds one, and
leave autosave, "next disc" and "reset game" alone; players without it may do
anything). `ExitInv` says how the ring turns from one disc to the next
(`Turning`): snapshots of the new disc come after those of the old, and the name
for the resume point (`CdromId_old`) is that of the oldest until it is
overwritten. The hypothesis is not spare: the hazards at `misc.c:1611` tell what
happens without it.

`RootCountersProofs` (`CountersAssumption`: an update is late by less than a
line, twice that and 2^16 counts at any rate fit in half the clock, and so does
half a frame). `IInv` has three parts. `TimersSound` says where each timer stands
to its ideal: what is owed is nothing, a target, an overflow, or a target and
the overflow after it, and which of them goes with which `counterState` and
which cycles (`Place`). `NextSound` says that the event is no later than the
first counter needs it, and that as long as it is not due neither is any counter;
that is why `overrun` bounds the lateness of all of them. `BaseSound` says that
once the beam is known the frame is at its top or at its vblank, with the lines
to the other. Underneath lies the arithmetic of numbers that wrap: `SinceRun` and
`SinceMoved` (a difference that wraps is the true one while it is less than the
clock), `SignedSmall`, and `LinesLast` (the fraction carried over adds up). One
lemma shows that a cycle keeps a timer with its ideal (`TickSound`), one that an
update does (`UpdatedSound`, by the four places), one that a write does
(`WcountSound`). The lateness of a block is the only thing assumed of the core;
on the console a line is some 2150 cycles.

`SioProofs` (`SioAssumption`). `SioInv` relates the position in each kind of
transfer to the bytes sent and the answers read: `Paired`, `PadTransfer`,
`CardTransfer` (with `Commanding`, `Addressing`, `Framing` for its stages). From
it `AnswersAreRight`, and `OnlyWholeFrames`: a frame on a card changes only to
what one transfer to that card has sent. `NewCardsAnnounced` is about a
card's "new" mark, for cards that are changed between transfers only
(`Swaps \subseteq {0}`; otherwise it is false, see section 3 or the hazard at
`sio.c:217`): `Warned` follows the mark from the change to the answer in which
the guest reads it.

`CodeCacheProofs` (`CacheAssumption`, and `StoresInKseg0` for the last three
theorems). `IInv`: patched jumps and clean hash entries have their entry in
`jump_in` (`Backed`), every clean entry within one page has its page trapped
(`Watched`) and lies outside the gap (`GapIsFree`), and what is listed agrees
with memory (`ListedAgree`).

`CodeCacheProofs`, second part (`RingAssumption`: at least four pieces, and a
translation no longer than the steps that a table of a piece takes; the code has
8 pieces, 2048 steps, and 1024 at most). `RoomAlwaysFree` is `RoomIsFree` for all
such sizes, any addresses and any jumps between them. `RoomIsFree` alone says
nothing of what expires later. `RingInv` measures every entry by how many pieces
it lies ahead of `out` (`Ahead`): at least two, and at least three where its list
has already been gone through in this piece (`Done`, `Kept`). On top of that: no
translation straddles `out` (`Whole`); the hash table leads to what is on a list
(`HashKept`); a patched jump is recorded and leads to what is kept (`LinkKept`),
or it lies itself in code whose turn is over (`LinkDead`); and what runs may be
off the lists, but not yet among the jumps that are undone (`MayRun`), which is
why it can never enter code whose jumps have been. One step of the expiry keeps
this (`StepLeaves`, `StepKeeps`). The steps of one compilation are a recursive
function whose length is not known; `Iterated` carries an invariant along it,
for a set of numbers without a smallest one is empty (`Smallest`, from `WFMin`),
and `ExpireKeeps` is the result. A new translation is three pieces ahead once
made (`NewKept`), and the caller whose jump is patched to it is then not yet
unrecorded (`RunsOn`), for one compilation moves the expiry on by no more than
`MaxBlock`, which is less than a table takes, or to the start of a piece.

`CddaProofs` (`CddaAssumption`, and `ImagesLocked`: no image whose readers share
a buffer without a lock). `IInv`: a thread that has not ended is one that
`playing` stands for, or is being joined (`WaitedFor`), for `stopCDDA` looks at
`playing` alone; who reads a hunk holds the lock (`LockHeld`); and what the
thread found before a read or a copy still holds (`Chunked`). `InOrderAlways`
takes the sector mixed last and those in the ring for one stream (`Heard`):
each follows the one before (`RingOrder`), and the part of the chunk that is
still to be fed follows the last of them, while the chunk itself ends where the
thread will read on (`ChunkOrder`). Adding a piece makes the stream longer,
mixing shortens it by its head, a new playback follows any older one; all of it
holds until the ring runs dry with `CDDAFeed` past the last slot.

`SchedHeapProofs`, second part (`HeapAssumption`: a heap has the size that is left
after `InitHeap` has cut it to the end of memory, and is not empty).
The two share a module because neither depends on anything else, not because
they meet. `HeapInv` says that the blocks the game has are exactly those the
headers call used (`UsedBlocks`), and that the walk ends at `heap_end` or one word
behind it (`Within`). Neither is inductive without knowing what the words are
that a walk finds, and that is the larger part of the proof. `HeadersReached`: the
headers are the least set that holds the first and is closed under "what follows
it" (`Closed`); it rests on `Smallest`, a smallest number in every set of them,
which `WFMin` of the library gives without an operator as a parameter.
`HeadersWithin` then serves as the induction along the chain: a set that is
closed holds every header. By it, headers are in order and apart (`InOrder`),
together they cover every word below `heap_end` (`Tiled`), and only the sizes in
them matter (`SameHeaders`), so that the game may write anything between. Of the
operations, `JoinedHeaders` says which headers are left by joining (those of used
blocks, and the first of each row of free ones) and `JoinedKeeps` that no used
block changes and no free one follows another; `WholeTaken` and `PartTaken` are
the two ways to take a block, `FreeKeeps`, `ClearKeeps` and `WriteKeeps` the
others. From them `BlocksStayApart`; and `NoRoomIsLost`, since a stretch that no
block touches lies in one free block when no two of them touch (`RefusedRight`).

Only model-checked: all liveness (TLAPS 1.4.5 has no rules for fairness and
ENABLED), the finding, and `DrawsStream` and `TransfersTold` of `Dma` (the loops of
`GpuFront` are RECURSIVE operators, which tlapm does not take; no module that
reaches them can have a theorem). For the same reason the theorems about
`DmaChain` and `Mdec` are about their own specifications; that `Dma`'s steps are
theirs, or leave their variables alone, is to be read off its actions.

Models of two threads (`SpuWorker`, `Cdda`) take accesses to memory to happen in
program order. The code shares plain variables, so on a machine that reorders
them, or under a compiler that does, more can happen than is modelled; in
`SpuWorker` the semaphores order what matters, in `Cdda` nothing does.

## 5. Bounds

Every bound is a constant or named in a guard: `MaxUpdates`, `Slots`, `Voices`
(SpuWorker), `Clock`, `Delays`, `MaxSlice`, `MaxBlock` (EventSched), `Count`,
`Blocking` (Session), `FrameBytes`, `High`, `Low` (Sio), `Clock`, `Overflow`,
`Late`, `HSyncTotal` (RootCounters), `Pages`, `PageWords`, `Vals` (CodeCache),
`Segments`, `Parts`, `MaxBlock`, `Live` (CodeRing),
`Slots`, `Chunk`, `Sectors`, `HunkSectors`, `Plays` (Cdda), `BufferLen`,
`Rows` (GpuFront), `Threshold`, `MaxPackets` (DmaChain), `BlockUnits`, `MaxBlocks`
(Mdec), `Programs` (Dma), `Room`, `Sizes`, `Requests` (BiosHeap). They are chosen so that every
ring goes round, every clock wraps, every buffer fills and every case splits at
least once; where a theorem covers the property they do not matter. Counters
that grow for ever in the code (`frame_counter`) are left out; `card.calm` stops
at 2 because the code never looks further back than two intervals, and `vblanks`
at 2 because more is no different.

## 6. Not modelled

`PROJECT.json` lists every part that is not modelled, with the reason. Much of
the repository's length is what these modules cannot be about: the code
generators, GTE and rasterizers (arithmetic and tables of instructions),
headers of libraries, fonts, front ends of other platforms, vendored code.
Corrections for single titles are left out everywhere, and so is the
interpreter, an alternative to the recompiling core.

Known limits of the modelled parts, each a fact of the code:

* CodeCache: blocks that span pages and mirrors other than kseg0 can go stale;
  the check left out for a second store off one register is not modelled.
* CodeRing: the cache of return addresses (`mini_ht`), which is cleared by
  invalidations only and not by the expiry; the ring of source copies, which may
  come round before that of the translations.
* Cdda: a ring that runs dry at its very end; compressed images, whose two
  readers share a handle and a buffer; the subchannel buffer; reading on without
  sleeping while muted.
* GpuFront: an image command whose first words are flushed apart (by a status
  read between them) is read beyond its words; so are an incomplete fill or
  textured quad while a frame is skipped; packets and blocks that split a
  command; a polyline drawn twice, or longer than the buffer; a packet at
  address 0 after the threshold; `GPUREAD` during a write.
* Motion decoder: states saved within a block; a request smaller than the rest of
  a block; the rest of the last block, served only with the next input; end
  events left over from before a reset.
* DMA: 8 and 16 bit writes of `DICR`; `DPCR`; channel 3.
* BIOS: everything but the heap. `psxBiosException` restores registers only
  where a hook returns. `calloc` without room clears memory from address 0;
  `malloc` before `InitHeap` reads through a null pointer; `heap_end` is not
  saved; `realloc` loses the contents.
* Session: "Reset game" and its early mark; the power button in the main menu.
* Status files, fade-in: facts in `PROJECT.json`, no property that the code or
  its texts promise.

## 7. Running

    tlasany SpuWorker.tla
    tlc -workers 2 -config MCSpuWorker.cfg MCSpuWorker.tla
    tlapm SpuDmaProofs.tla

Each run takes from seconds to two minutes and a half; the proofs of `SioProofs`,
`CdRomProofs` and `CodeCacheProofs` several minutes each.

Operators introduced by "Fault:" are plausible bugs: putting one in the place of
the definition it follows makes the property named in `PROJECT.json` fail.

----------------------------- MODULE SpuWorker -----------------------------
(***************************************************************************)
(* The threaded SPU mixer of plugins/dfsound: the emulator thread asks for *)
(* stretches of sound (do_samples), either mixes them itself or fills a    *)
(* slot of a ring of work items, and later reaps the mixed items into the  *)
(* output buffer; one worker thread mixes the items.  The two share the    *)
(* ring, three counters, two semaphores, the SPU memory and the reverb     *)
(* parameters, and nothing else orders them.                               *)
(***************************************************************************)
EXTENDS Integers, Sequences

CONSTANTS
  Slots,          \* WORK_MAXCNT, the number of work items (4 in the code)
  Voices,         \* the SPU channels; CaptureVoice stands for channel 1 or 3
  CaptureVoice,
  Callers,        \* who calls do_samples, a subset of CallerKinds
  FixedUpdates,   \* spu_config.iUseFixedUpdates
  MayToggle,      \* whether the "Threaded SPU" option is changed while running
  MaxUpdates      \* bound: the updates one behaviour asks for

CallerKinds == {"async", "reg", "mem", "load"}

ASSUME SlotsAssumption == Slots \in Nat \ {0}
ASSUME CallersAssumption ==
  /\ Callers \subseteq CallerKinds
  /\ FixedUpdates \in BOOLEAN
  /\ MayToggle \in BOOLEAN
  /\ MaxUpdates \in Nat

VARIABLES
  pc,             \* where the emulator thread is
  call,           \* the do_samples call in progress
  wpc,            \* where the worker thread is
  i_ready, i_done, i_reaped,   \* items filled, mixed and played so far
  sem_avail, sem_done, exit_thread,
  slot,           \* worker->i[]: the work items
  iUseThread,     \* spu_config.iUseThread
  dwNewChannel, dwChannelOn,
  rvb,            \* the reverb registers, see ReverbState
  decode_dirty,   \* the CaptureVoice bit of spu.decode_dirty_ch
  decode_buf,     \* what the voice's capture buffer in SPU memory holds
  decode_pos,     \* updates asked for so far; the code wraps it at 0x200
  pS              \* the last update written to the output buffer

ringVars == <<i_ready, i_done, i_reaped, sem_avail, sem_done, exit_thread, slot>>
spuVars  == <<iUseThread, dwNewChannel, dwChannelOn, rvb, decode_dirty,
              decode_buf, decode_pos, pS>>
vars == <<pc, call, wpc, ringVars, spuVars>>

-----------------------------------------------------------------------------
(* A work item: the update it stands for, the voices it starts and plays,  *)
(* the reverb address (only whether there is one), and whether the worker  *)
(* has mixed it into SSumLR.                                               *)
WorkItem == [decode_pos : Nat, channels_on : SUBSET Voices,
             silent : SUBSET Voices, rvb_addr : BOOLEAN, mixed : BOOLEAN]

EmptyItem == [decode_pos |-> 0, channels_on |-> {}, silent |-> Voices,
              rvb_addr |-> FALSE, mixed |-> FALSE]

(* The guest's reverb registers (reg: whether they ask for a work area),   *)
(* spu.rvb->dirty and whether spu.rvb->StartAddr is nonzero.               *)
ReverbState == [reg : BOOLEAN, dirty : BOOLEAN, StartAddr : BOOLEAN]

(* A do_samples call: who made it, the elapsed emulated time (less than    *)
(* one update, enough for one, or out of step), the do_direct argument and *)
(* the force argument of sync_worker_thread, and the silent voices.        *)
Call == [caller : CallerKinds, diff : {"short", "enough", "desync"},
         do_direct : BOOLEAN, force : BOOLEAN, silent : SUBSET Voices]

NoCall == [caller |-> "async", diff |-> "short", do_direct |-> FALSE,
           force |-> FALSE, silent |-> Voices]

Slot(i) == i % Slots

TypeOK ==
  /\ pc \in {"idle", "sync", "finish", "mix", "direct", "fill", "reg", "mem",
             "load", "join", "closed"}
  /\ call \in Call
  /\ wpc \in {"wait", "work", "count", "post", "exited"}
  /\ i_ready \in Nat /\ i_done \in Nat /\ i_reaped \in Nat
  /\ sem_avail \in Nat /\ sem_done \in Nat
  /\ exit_thread \in BOOLEAN
  /\ slot \in [0 .. Slots - 1 -> WorkItem]
  /\ iUseThread \in BOOLEAN
  /\ dwNewChannel \in SUBSET Voices /\ dwChannelOn \in SUBSET Voices
  /\ rvb \in ReverbState
  /\ decode_dirty \in BOOLEAN
  /\ decode_buf \in {"clear", "samples"}
  /\ decode_pos \in Nat /\ pS \in Nat

Init ==
  /\ pc = "idle" /\ call = NoCall /\ wpc = "wait"
  /\ i_ready = 0 /\ i_done = 0 /\ i_reaped = 0
  /\ sem_avail = 0 /\ sem_done = 0 /\ exit_thread = FALSE
  /\ slot = [s \in 0 .. Slots - 1 |-> EmptyItem]
  /\ iUseThread = TRUE
  /\ dwNewChannel = {} /\ dwChannelOn = {}
  /\ rvb = [reg |-> FALSE, dirty |-> FALSE, StartAddr |-> FALSE]
  /\ decode_dirty = FALSE /\ decode_buf = "clear"
  /\ decode_pos = 0 /\ pS = 0

-----------------------------------------------------------------------------
(* The emulator thread.  (Definitions whose comment begins with "Fault" are *)
(* seeded mistakes: no action uses them; each shows that a property below  *)
(* would notice.)                                                          *)

(* Where the caller goes on once do_samples has returned. *)
AfterCall(c) == IF c.caller = "async" THEN "idle" ELSE c.caller

(* The do_direct argument: SPUasync passes the option, register writes 0,  *)
(* DMA transfers and state saving or loading 1; a fully silent mix is      *)
(* always direct.                                                          *)
DoDirect(caller, silent) ==
  \/ caller \in {"mem", "load"}
  \/ caller = "async" /\ FixedUpdates
  \/ silent = Voices

(* sync_worker_thread adds: reverb offsets the worker may be using change. *)
ForceSync(direct) == direct \/ (rvb.dirty /\ rvb.StartAddr)

(* do_samples returns at once when the clocks are out of step, and a       *)
(* register write does not even call it when little time has passed        *)
(* (do_samples_if_needed).                                                 *)
Skips(caller, diff) == diff = "desync" \/ (caller = "reg" /\ diff = "short")

BeginCall(caller, diff) ==
  LET silent == Voices \ (dwNewChannel \cup dwChannelOn)
      direct == DoDirect(caller, silent)
      c == [caller |-> caller, diff |-> diff, do_direct |-> direct,
            force |-> ForceSync(direct), silent |-> silent]
  IN /\ pc = "idle"
     /\ decode_pos < MaxUpdates
     /\ call' = c
     /\ pc' = IF Skips(caller, diff) THEN AfterCall(c) ELSE "sync"
     /\ UNCHANGED <<wpc, ringVars, spuVars>>

(* Faults: the full ring is noticed one item late; the force argument is   *)
(* ignored.                                                                *)
MustReapLate ==
  \/ call.force /\ i_ready - i_reaped > 0
  \/ i_ready - i_reaped > Slots
  \/ i_done - i_reaped > 0

MustReapUnforced ==
  \/ i_ready - i_reaped >= Slots
  \/ i_done - i_reaped > 0

(* The loop condition of sync_worker_thread, on a fresh i_done. *)
MustReap ==
  \/ call.force /\ i_ready - i_reaped > 0
  \/ i_ready - i_reaped >= Slots
  \/ i_done - i_reaped > 0

SyncTest ==
  /\ pc = "sync" /\ ~MustReap
  /\ pc' = "mix"
  /\ UNCHANGED <<call, wpc, ringVars, spuVars>>

(* Fault: the wait does not block. *)
SyncWaitNonblocking ==
  /\ pc = "sync" /\ MustReap
  /\ sem_done' = sem_done - 1
  /\ pc' = "finish"
  /\ UNCHANGED <<call, wpc, i_ready, i_done, i_reaped, sem_avail, exit_thread,
                 slot, spuVars>>

(* thread_work_wait_sync: blocks until the worker has posted an item. *)
SyncWait ==
  /\ pc = "sync" /\ MustReap
  /\ sem_done > 0
  /\ sem_done' = sem_done - 1
  /\ pc' = "finish"
  /\ UNCHANGED <<call, wpc, i_ready, i_done, i_reaped, sem_avail, exit_thread,
                 slot, spuVars>>

(* do_samples_finish: a voice that was silent in the update has its capture *)
(* buffer cleared if it is marked dirty, and the update is written out.    *)
Emit(item) ==
  LET clear == CaptureVoice \in item.silent /\ decode_dirty
  IN /\ decode_buf' = IF clear THEN "clear" ELSE decode_buf
     /\ decode_dirty' = (decode_dirty /\ ~clear)
     /\ pS' = item.decode_pos

(* Fault: the newest mixed item is written out, not the oldest. *)
FinishNewest ==
  LET item == slot[Slot(i_done - 1)]
  IN /\ pc = "finish"
     /\ Emit(item)
     /\ slot' = [slot EXCEPT ![Slot(i_done - 1)].mixed = FALSE]
     /\ i_reaped' = i_reaped + 1
     /\ pc' = "sync"
     /\ UNCHANGED <<call, wpc, i_ready, i_done, sem_avail, sem_done,
                    exit_thread, iUseThread, dwNewChannel, dwChannelOn, rvb,
                    decode_pos>>

Finish ==
  LET item == slot[Slot(i_reaped)]
  IN /\ pc = "finish"
     /\ Emit(item)
     /\ slot' = [slot EXCEPT ![Slot(i_reaped)].mixed = FALSE]
     /\ i_reaped' = i_reaped + 1
     /\ pc' = "sync"
     /\ UNCHANGED <<call, wpc, i_ready, i_done, sem_avail, sem_done,
                    exit_thread, iUseThread, dwNewChannel, dwChannelOn, rvb,
                    decode_pos>>

(* The rest of do_samples up to the mixing: return if too little time has  *)
(* passed, recompute the reverb offsets (REVERBPrep) if they are dirty.    *)
NothingToMix ==
  /\ pc = "mix" /\ call.diff = "short"
  /\ pc' = AfterCall(call)
  /\ UNCHANGED <<call, wpc, ringVars, spuVars>>

ReverbPrep ==
  /\ pc = "mix" /\ call.diff = "enough"
  /\ rvb' = IF rvb.dirty THEN [rvb EXCEPT !.dirty = FALSE, !.StartAddr = rvb.reg]
            ELSE rvb
  /\ pc' = IF call.do_direct \/ ~iUseThread THEN "direct" ELSE "fill"
  /\ UNCHANGED <<call, wpc, ringVars, iUseThread, dwNewChannel, dwChannelOn,
                 decode_dirty, decode_buf, decode_pos, pS>>

(* Voices whose envelope ends during the update are switched off. *)
StartAndEnd(on) ==
  /\ dwNewChannel' = {}
  /\ \E ended \in SUBSET on : dwChannelOn' = on \ ended

(* do_channels and do_samples_finish on the emulator thread. *)
MixDirect ==
  LET on == dwNewChannel \cup dwChannelOn
      captured == CaptureVoice \in on
      clear == CaptureVoice \in call.silent /\ decode_dirty
  IN /\ pc = "direct"
     /\ StartAndEnd(on)
     /\ decode_buf' = IF captured THEN "samples"
                      ELSE IF clear THEN "clear" ELSE decode_buf
     /\ decode_dirty' = (captured \/ (decode_dirty /\ ~clear))
     /\ decode_pos' = decode_pos + 1
     /\ pS' = decode_pos + 1
     /\ pc' = AfterCall(call)
     /\ UNCHANGED <<call, wpc, ringVars, iUseThread, rvb>>

(* queue_channel_work. *)
Fill ==
  LET on == dwNewChannel \cup dwChannelOn
  IN /\ pc = "fill"
     /\ slot' = [slot EXCEPT ![Slot(i_ready)] =
                   [decode_pos |-> decode_pos + 1, channels_on |-> on,
                    silent |-> call.silent, rvb_addr |-> rvb.StartAddr,
                    mixed |-> FALSE]]
     /\ StartAndEnd(on)
     /\ decode_dirty' = (decode_dirty \/ CaptureVoice \in on)
     /\ i_ready' = i_ready + 1
     /\ sem_avail' = sem_avail + 1
     /\ decode_pos' = decode_pos + 1
     /\ pc' = AfterCall(call)
     /\ UNCHANGED <<call, wpc, i_done, i_reaped, sem_done, exit_thread,
                    iUseThread, rvb, decode_buf, pS>>

(* SPUwriteRegister after its do_samples: key on, key off (which only       *)
(* withdraws a voice that has not started), or a reverb register.          *)
WriteRegister ==
  /\ pc = "reg" /\ pc' = "idle"
  /\ \/ \E v \in Voices : dwNewChannel' = dwNewChannel \cup {v} /\ UNCHANGED rvb
     \/ \E v \in Voices : dwNewChannel' = dwNewChannel \ {v} /\ UNCHANGED rvb
     \/ \E r \in BOOLEAN : /\ rvb' = [rvb EXCEPT !.reg = r, !.dirty = TRUE]
                           /\ UNCHANGED dwNewChannel
  /\ UNCHANGED <<call, wpc, ringVars, iUseThread, dwChannelOn, decode_dirty,
                 decode_buf, decode_pos, pS>>

(* A DMA transfer, or saving the state, copies SPU memory. *)
CopySpuMemory ==
  /\ pc = "mem" /\ pc' = "idle"
  /\ UNCHANGED <<call, wpc, ringVars, spuVars>>

(* Loading a state replaces SPU memory and the registers. *)
LoadState ==
  /\ pc = "load" /\ pc' = "idle"
  /\ dwNewChannel' = {} /\ dwChannelOn' = {}
  /\ \E r \in BOOLEAN : rvb' = [rvb EXCEPT !.reg = r, !.dirty = TRUE]
  /\ decode_buf' \in {"clear", "samples"}
  /\ UNCHANGED <<call, wpc, ringVars, iUseThread, decode_dirty, decode_pos, pS>>

(* The menu changes the "Threaded SPU" option between two calls. *)
ToggleThread ==
  /\ MayToggle
  /\ pc = "idle"
  /\ iUseThread' = ~iUseThread
  /\ UNCHANGED <<pc, call, wpc, ringVars, dwNewChannel, dwChannelOn, rvb,
                 decode_dirty, decode_buf, decode_pos, pS>>

(* exit_spu_thread: wake the worker to leave, join it, free the ring. *)
BeginExit ==
  /\ pc = "idle" /\ pc' = "join"
  /\ exit_thread' = TRUE
  /\ sem_avail' = sem_avail + 1
  /\ UNCHANGED <<call, wpc, i_ready, i_done, i_reaped, sem_done, slot, spuVars>>

Join ==
  /\ pc = "join" /\ wpc = "exited"
  /\ pc' = "closed"
  /\ UNCHANGED <<call, wpc, ringVars, spuVars>>

-----------------------------------------------------------------------------
(* The worker thread.                                                      *)

(* sem_wait(sem_avail), then leave or start on the next item. *)
Take ==
  /\ wpc = "wait" /\ sem_avail > 0
  /\ sem_avail' = sem_avail - 1
  /\ wpc' = IF exit_thread THEN "exited" ELSE "work"
  /\ UNCHANGED <<pc, call, i_ready, i_done, i_reaped, sem_done, exit_thread,
                 slot, spuVars>>

(* do_channel_work mixes the item and fills the capture buffer. *)
DoChannelWork ==
  LET item == slot[Slot(i_done)]
  IN /\ wpc = "work" /\ wpc' = "count"
     /\ slot' = [slot EXCEPT ![Slot(i_done)].mixed = TRUE]
     /\ decode_buf' = IF CaptureVoice \in item.channels_on THEN "samples"
                      ELSE decode_buf
     /\ UNCHANGED <<pc, call, i_ready, i_done, i_reaped, sem_avail, sem_done,
                    exit_thread, iUseThread, dwNewChannel, dwChannelOn, rvb,
                    decode_dirty, decode_pos, pS>>

CountDone ==
  /\ wpc = "count" /\ wpc' = "post"
  /\ i_done' = i_done + 1
  /\ UNCHANGED <<pc, call, i_ready, i_reaped, sem_avail, sem_done, exit_thread,
                 slot, spuVars>>

(* Fault: a mixed item is counted but not posted. *)
PostDoneLost ==
  /\ wpc = "post" /\ wpc' = "wait"
  /\ UNCHANGED <<pc, call, ringVars, spuVars>>

PostDone ==
  /\ wpc = "post" /\ wpc' = "wait"
  /\ sem_done' = sem_done + 1
  /\ UNCHANGED <<pc, call, i_ready, i_done, i_reaped, sem_avail, exit_thread,
                 slot, spuVars>>

-----------------------------------------------------------------------------
Caller ==
  \E caller \in Callers, diff \in {"short", "enough", "desync"} :
    BeginCall(caller, diff)

(* The steps of a call in progress, which the emulator thread goes on with. *)
InCall ==
  \/ SyncTest \/ SyncWait \/ Finish \/ NothingToMix \/ ReverbPrep \/ MixDirect
  \/ Fill \/ WriteRegister \/ CopySpuMemory \/ LoadState \/ Join

Worker == Take \/ DoChannelWork \/ CountDone \/ PostDone

(* Nothing more happens once the SPU is shut down. *)
Closed == pc = "closed" /\ UNCHANGED vars

Next == Caller \/ InCall \/ ToggleThread \/ BeginExit \/ Worker \/ Closed

Spec == Init /\ [][Next]_vars

(* Both threads are scheduled; nobody has to make calls. *)
FairSpec == Spec /\ WF_vars(InCall) /\ WF_vars(Worker)

-----------------------------------------------------------------------------
(* Properties.                                                             *)

WorkerBusy == wpc \in {"work", "count"}
InFlight == i_done .. i_ready - 1

(* The emulator thread never touches a slot the worker is mixing: neither  *)
(* the one it fills nor the one it plays (the ring of four items).         *)
NoSlotClash ==
  WorkerBusy =>
    /\ pc = "fill" => Slot(i_ready) # Slot(i_done)
    /\ pc = "finish" => Slot(i_reaped) # Slot(i_done)

(* Only a mixed item is written to the output: the counting of the two     *)
(* semaphores never lets do_samples_finish read a half mixed SSumLR.       *)
PlaysMixedItems == pc = "finish" => slot[Slot(i_reaped)].mixed

(* While the emulator thread mixes by itself because it had to, the worker *)
(* does not mix: both use the sample buffers SB, ChanBuf and RVB.          *)
DirectAlone == pc = "direct" /\ call.do_direct => ~WorkerBusy

(* The reverb offsets are recomputed only while no item that uses the      *)
(* reverb work area is being mixed or waits to be.                         *)
ReverbPrepAlone ==
  pc = "mix" /\ rvb.dirty =>
    \A i \in InFlight : ~slot[Slot(i)].rvb_addr

(* A DMA transfer, a saved state or a loaded one sees SPU memory with no   *)
(* mixing in progress, unless the call found the clocks out of step.       *)
SpuMemoryAlone ==
  pc \in {"mem", "load"} /\ call.diff # "desync" => i_done = i_ready

(* The emulator thread does alone what it must do alone. *)
MixesAlone == DirectAlone /\ ReverbPrepAlone /\ SpuMemoryAlone

(* Every update reaches the output once, and in order unless the option    *)
(* has been switched off, and at most Slots are owed: the ring implements  *)
(* the queue of SpuQueue.                                                  *)
Owed == [k \in 1 .. i_ready - i_reaped |-> slot[Slot(i_reaped + k - 1)].decode_pos]

Queue == INSTANCE SpuQueue
  WITH Capacity <- Slots, threaded <- iUseThread, requested <- decode_pos, owed <- Owed, played <- pS

QueueSpec == Queue!Spec

(* A call of do_samples always returns, however it waits for the worker,   *)
(* and closing the SPU always gets the worker to leave.                    *)
EveryCallReturns ==
  /\ pc \notin {"idle", "join", "closed"} ~> pc = "idle"
  /\ pc = "join" ~> pc = "closed"

(* "must clear silent channel decode buffers" (do_samples_finish): with    *)
(* nothing in flight and the voice silent in the last update played, its   *)
(* capture buffer holds no samples.                                        *)
SilentVoiceCleared ==
  LET last == slot[Slot(i_reaped - 1)]
  IN pc = "idle" /\ i_reaped = i_ready /\ i_reaped > 0 /\ pS = last.decode_pos
       /\ CaptureVoice \in last.silent
     => decode_buf = "clear"

-----------------------------------------------------------------------------
(* The inductive invariant.  The two semaphores count: sem_avail the items *)
(* filled and not taken (and the shutdown's extra post), sem_done those    *)
(* mixed and posted and not yet waited for.                                *)
One(b) == IF b THEN 1 ELSE 0

Counting ==
  /\ i_reaped + One(pc = "finish") + sem_done + One(wpc = "post") = i_done
  /\ i_done + One(WorkerBusy) + sem_avail
       = i_ready + One(exit_thread /\ wpc # "exited")
  /\ WorkerBusy => i_done < i_ready
  /\ exit_thread <=> pc \in {"join", "closed"}
  /\ wpc = "exited" => exit_thread
  /\ exit_thread /\ wpc # "exited" => sem_avail > 0

Capacity ==
  /\ i_ready - i_reaped <= Slots
  /\ pc \in {"mix", "direct", "fill"} => i_ready - i_reaped < Slots

Mixed ==
  /\ \A i \in i_reaped .. i_done - 1 : slot[Slot(i)].mixed
  /\ wpc = "count" => slot[Slot(i_done)].mixed

(* A forced call has emptied the ring by the time it mixes. *)
Forced ==
  /\ call.do_direct => call.force
  /\ pc \in {"mem", "load"} => call.do_direct
  /\ pc \in {"sync", "finish", "mix", "direct", "fill"} =>
       /\ call.diff # "desync"
       /\ call.caller \in {"mem", "load"} => call.do_direct
  /\ pc \in {"mix", "direct", "fill"} /\ call.force => i_ready = i_reaped
  /\ pc = "fill" => ~call.do_direct
  /\ pc \in {"mem", "load"} /\ call.diff # "desync" => i_ready = i_reaped

(* Items that use the reverb area exist only while StartAddr is set, and a *)
(* call that is going to change it is forced.                              *)
Reverb ==
  /\ \A i \in i_reaped .. i_ready - 1 : slot[Slot(i)].rvb_addr => rvb.StartAddr
  /\ pc \in {"sync", "finish", "mix"} /\ rvb.dirty /\ rvb.StartAddr => call.force

IInv == TypeOK /\ Counting /\ Capacity /\ Mixed /\ Forced /\ Reverb
=============================================================================

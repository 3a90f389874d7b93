------------------------------ MODULE Session ------------------------------
(***************************************************************************)
(* A session of the AutoBleem frontend: how keys, the autosave timer, the  *)
(* power button and the temperature watch share the one pending action     *)
(* (emu_action), how a reset waits for the memory card and for a disc that *)
(* is being changed, the ring of snapshots taken while autosave is on, and *)
(* the resume point and filename.txt that are left on the way out.         *)
(* The core runs between two calls of irq_test; one call is one step, with *)
(* the handlers that concern the session in the order irq_test runs them.  *)
(* A disc stands for its image's path, label and id; different discs have  *)
(* different ids.  Real time is left out: the two second interval of       *)
(* emu_sync_state may be found to have passed at any call.                 *)
(***************************************************************************)
EXTENDS Naturals, Sequences, SequencesExt

CONSTANTS
  Discs,      \* the images there are
  NoDisc,     \* an empty CdromId, and a file that does not exist
  Count,      \* AUTO_SAVE_TO_FILE_COUNT
  Blocking,   \* intervals without snapshots at the start: BLOCKING_TIME / 2
  Players     \* the sessions that may take place, each a record of
              \*   discs: the images the player may insert
              \*   keys: the actions bound to keys the player presses
              \*   menu: what the player does in the menu
              \*   alarms: which of "power", the button, and "hot", the
              \*     temperature watch, may act
              \*   patient: the player changes discs only once the ring holds
              \*     one disc
              \*   exitdir: whether AB_EXIT_DIR is set

ASSUME SessionAssumption ==
  /\ NoDisc \notin Discs
  /\ Count \in Nat \ {0} /\ Blocking \in Nat
  /\ \A p \in Players :
       /\ p.discs \subseteq Discs /\ {p.patient, p.exitdir} \subseteq BOOLEAN
       /\ p.keys \subseteq {"menu", "cd_change", "reset", "load", "other"}
       /\ p.menu \subseteq {"autosave", "load", "swap", "next", "restart", "exit"}
       /\ p.alarms \subseteq {"power", "hot"}

Actions == {"none", "sync", "power_off", "menu", "cd_change", "reset", "load", "other"}
Slots == 0..Count-1
Files == Discs \cup {NoDisc}

VARIABLES
  player,   \* which of Players it is
  pc,       \* where the frontend is: "run" (in psxCpu->Execute), "left" (just
            \* out of it), "menu", "exit" (past the main loop), "done"
  slot,     \* emu_action, emu_action_old, stop
  quit,     \* g_emu_want_quit
  card,     \* memcardFlag, memcardFlagOld, memcardResetFlag, and `calm': the
            \* intervals since the guest last used the card, counted up to 2
  hold,     \* holdResetEvent
  disc,     \* the image inserted, CdromId, its _old, isUnknownCdrom, and
            \* whether the drive still has to look at the new disc
  auto,     \* OPT_AUTOSAVE, gBuffInitialized, blocking_count, resume_play,
            \* time_to_sync_state
  ring,     \* gFilledNum, gLastCount, stateid, and `order': the slots filled
            \* since the ring was last emptied, oldest first
  alarms,   \* power_off_flg and is_high_temperature, set by other threads
  out       \* filename.txt, and the resume point: its name, the disc it was
            \* taken from, how calm the card was

vars == <<player, pc, slot, quit, card, hold, disc, auto, ring, alarms, out>>

Cards == [flag : BOOLEAN, old : BOOLEAN, reset : BOOLEAN, calm : 0..2]
Rings == [filled : 0..Count, last : Slots, stateid : [Slots -> Files], order : Seq(Slots)]
Points == [name : Discs, content : Files, calm : 0..2]

TypeOK ==
  /\ player \in Players
  /\ pc \in {"run", "left", "menu", "exit", "done"}
  /\ slot \in [action : Actions, old : Actions, stop : BOOLEAN]
  /\ quit \in BOOLEAN /\ hold \in BOOLEAN
  /\ card \in Cards
  /\ disc \in [inserted : Discs, id : Files, old : Discs, unknown : BOOLEAN, lid : BOOLEAN]
  /\ auto \in [on : BOOLEAN, buf : {"not", "yes", "off"}, blocking : 0..Blocking,
               resume_play : BOOLEAN, sync : BOOLEAN]
  /\ ring \in Rings
  /\ alarms \subseteq player.alarms
  /\ out.filename \in Files /\ out.point \subseteq Points

(* The game has been started from disc d, possibly from a resume point.    *)
Init ==
  /\ player \in Players
  /\ \E d \in player.discs, on, resumed \in BOOLEAN :
       /\ pc = "run" /\ quit = FALSE /\ hold = FALSE /\ alarms = {}
       /\ slot = [action |-> "none", old |-> "none", stop |-> FALSE]
       /\ card = [flag |-> FALSE, old |-> FALSE, reset |-> FALSE, calm |-> 2]
       /\ disc = [inserted |-> d, id |-> d, old |-> d, unknown |-> FALSE, lid |-> FALSE]
       /\ auto = [on |-> on, buf |-> "not", blocking |-> 0, resume_play |-> resumed, sync |-> FALSE]
       /\ ring = [filled |-> 0, last |-> 0, stateid |-> [i \in Slots |-> NoDisc], order |-> <<>>]
       /\ out = [filename |-> IF player.exitdir THEN NoDisc ELSE d, point |-> {}]

-----------------------------------------------------------------------------
(* emu_set_action *)
SetAction(s, a) ==
  [action |-> a,
   old    |-> IF a = "none" THEN "none" ELSE s.old,
   stop   |-> s.stop \/ (a # "none" /\ a # s.old)]

When(c, s, a) == IF c THEN SetAction(s, a) ELSE s

(* Fault: a key that is held hides the power button. *)
UpdateInputKeyFirst(s, key) ==
  LET pressed == SetAction(s, key)
      synced  == When(auto.sync /\ key # "cd_change", pressed, "sync")
      powered == When("power" \in alarms /\ key = "none", synced, "power_off")
  IN  When("hot" \in alarms, powered, "reset")

(* update_input, on every vblank: the key's action, then those that override it. *)
UpdateInput(s, key) ==
  LET pressed == SetAction(s, key)
      synced  == When(auto.sync /\ key # "cd_change", pressed, "sync")
      powered == When("power" \in alarms, synced, "power_off")
  IN  When("hot" \in alarms, powered, "reset")

(* CheckCdrom, once it has found the disc's executable. *)
Identified == [disc EXCEPT !.id = disc.inserted, !.unknown = FALSE, !.lid = FALSE,
                           !.old = IF auto.on THEN @ ELSE disc.inserted]

(* CheckCdrom when it cannot read the disc, before or after it has cleared CdromId. *)
Unidentified == {[disc EXCEPT !.lid = FALSE], [disc EXCEPT !.lid = FALSE, !.id = NoDisc]}

(* Fault: only the current interval counts. *)
CardQuietNow == ~card.flag

(* A reset waits until two intervals have passed in which the card was not used. *)
CardQuiet == ~card.flag /\ ~card.old

EmptyRing == [ring EXCEPT !.filled = 0, !.last = 0, !.order = <<>>]
Blocked == auto.on /\ ~auto.resume_play /\ auto.blocking < Blocking

(* emu_sync_state, at the end of irq_test; s is the action left by its handlers. *)
SyncState(s, elapsed) ==
  /\ ring' = IF auto.buf = (IF auto.on THEN "not" ELSE "yes") THEN EmptyRing ELSE ring
  /\ auto' = [auto EXCEPT
       !.buf = IF auto.on THEN "yes" ELSE IF @ = "yes" THEN "off" ELSE @,
       !.blocking = IF elapsed /\ Blocked THEN @ + 1 ELSE @,
       !.sync = @ \/ (elapsed /\ auto.on /\ ~Blocked /\ ~card.flag)]
  /\ LET shifts == elapsed /\ ~Blocked
         fires  == shifts /\ CardQuiet /\ card.reset
     IN /\ slot' = When(fires, s, "reset")
        /\ card' = [flag  |-> card.flag /\ ~shifts,
                    old   |-> IF shifts THEN card.flag ELSE card.old,
                    reset |-> card.reset /\ ~fires,
                    calm  |-> IF elapsed /\ card.calm < 2 THEN card.calm + 1 ELSE card.calm]

(* The drive looks at a new disc once, and finds it, or fails to; a drive   *)
(* the guest has stopped meanwhile does not look at all (cdrom.c:839).     *)
LidEvent(s, t) ==
  \/ disc' = disc /\ hold' = hold /\ t = s
  \/ /\ disc.lid
     /\ disc' = Identified /\ hold' = FALSE /\ t = When(hold, s, "reset")
  \/ /\ disc.lid
     /\ disc' \in Unidentified /\ hold' = hold /\ t = s

(* irq_test: a vblank with a key, or none; the disc; the timer.  Called from *)
(* gen_interupt at the end of a block it is followed by the test of stop,   *)
(* called for a write of the status register (pcsx_mtc0) it is not.         *)
IrqTest(vblank, key, elapsed, tested) ==
  /\ pc = "run"
  /\ LET s == IF vblank THEN UpdateInput(slot, key) ELSE slot IN
     \E t \in {s, SetAction(s, "reset")} : LidEvent(s, t) /\ SyncState(t, elapsed)
  /\ pc' = IF tested /\ slot'.stop THEN "left" ELSE "run"
  /\ UNCHANGED <<player, quit, alarms, out>>

Frame(key) == \E elapsed \in BOOLEAN : IrqTest(TRUE, key, elapsed, TRUE)
OtherEvent == \E elapsed \in BOOLEAN : IrqTest(FALSE, "none", elapsed, TRUE)
StatusWrite ==
  \E vblank, elapsed \in BOOLEAN, key \in player.keys \cup {"none"} :
    IrqTest(vblank, key, elapsed, FALSE)

(* sioWrite8: the guest addresses a frame of the memory card. *)
UseCard ==
  /\ pc = "run"
  /\ card' = [card EXCEPT !.flag = TRUE, !.calm = 0]
  /\ UNCHANGED <<player, pc, slot, quit, hold, disc, auto, ring, alarms, out>>

-----------------------------------------------------------------------------
(* Fault: the newest slot instead of the next one. *)
OldIndexNewest == IF ring.filled < Count THEN 0 ELSE (ring.last + Count - 1) % Count

(* SaveStateWork: with autosave on the resume point is a snapshot of the    *)
(* ring, if it has one that may be used.                                   *)
OldIndex == IF ring.filled < Count THEN 0 ELSE ring.last
HasPoint == auto.on => ring.filled = Count \/ (ring.filled > 0 /\ ~auto.resume_play)

(* get_gameid_filename, and the disc make_file_name writes, if it does. *)
PointName == IF ~auto.on /\ disc.id # NoDisc THEN disc.id ELSE disc.old
FileName(d) == IF d.id # NoDisc \/ auto.on
               THEN IF auto.on THEN d.old ELSE d.id
               ELSE out.filename

Point == [name |-> PointName, calm |-> card.calm,
          content |-> IF auto.on THEN ring.stateid[OldIndex] ELSE disc.id]

(* SACTION_RESET_EVENT of do_emu_action: hold the reset until the new disc  *)
(* is known, or put it off until the card is quiet, or save the resume     *)
(* point and filename.txt (or remove it, if saving failed) and quit.       *)
ResetEvent ==
  /\ hold' = (hold \/ (~auto.on /\ disc.unknown))
  /\ \/ ~CardQuiet
        /\ card' = [card EXCEPT !.reset = TRUE] /\ UNCHANGED <<quit, out>>
     \/ /\ CardQuiet /\ hold'
        /\ UNCHANGED <<card, quit, out>>
     \/ /\ CardQuiet /\ ~hold'
        /\ \/ HasPoint /\ out' = [filename |-> FileName(disc), point |-> {Point}]
           \/ out' = [out EXCEPT !.filename = NoDisc]
        /\ quit' = TRUE /\ card' = card

(* Fault: the slot being filled is taken for the oldest. *)
OldestAfterLast == IF ring.filled < Count - 1 THEN 0 ELSE ring.last

(* SetCdromId: the oldest snapshot once this one has been counted. *)
OldestAfter == IF ring.filled < Count - 1 THEN 0 ELSE (ring.last + 1) % Count

(* AutoSaveState and emu_sync_state2: fill the next slot; the _old disc     *)
(* follows when the snapshot that is now the oldest is of the disc in the  *)
(* drive.                                                                  *)
Snapshot ==
  LET stateid == [ring.stateid EXCEPT ![ring.last] = IF disc.id # NoDisc THEN disc.id ELSE disc.old]
  IN /\ disc' = [disc EXCEPT !.old = IF stateid[OldestAfter] = disc.id THEN disc.id ELSE @]
     /\ ring' = [filled |-> IF ring.filled < Count THEN ring.filled + 1 ELSE Count,
                 last |-> (ring.last + 1) % Count, stateid |-> stateid,
                 order |-> Append(RemoveFirst(ring.order, ring.last), ring.last)]

(* The player changes discs: swap_cd_image, which may fail once the image   *)
(* has been chosen, and swap_cd_multidisk.                                 *)
Settled == \A i \in Slots : ring.filled = 0 \/ (ring.filled = Count /\ ring.stateid[i] = disc.id)

SwapImage(opened) ==
  \E d \in player.discs :
    /\ player.patient => Settled
    /\ disc' = [disc EXCEPT !.inserted = d, !.id = NoDisc, !.unknown = TRUE,
                            !.lid = @ \/ opened]

NextDisc(opened) == disc' = [disc EXCEPT !.id = NoDisc, !.lid = @ \/ opened]

(* LoadState; on failure nothing has changed.  The drive is what it was    *)
(* when the state was saved, looking at a new disc or not.                 *)
LoadState ==
  /\ auto' = [auto EXCEPT !.resume_play = TRUE]
  /\ ring' = IF auto.on THEN EmptyRing ELSE ring
  /\ \E lid \in BOOLEAN : disc' = [disc EXCEPT !.lid = lid]

(* do_emu_action and the main loop around it, for an action a: emu_action_old *)
(* remembers it, and the loop goes on unless the action ended it.           *)
Do(a) == pc = "left" /\ slot.action = a
Return == /\ pc' = IF quit' THEN "exit" ELSE "run"
          /\ slot' = [action |-> IF quit' THEN slot.action ELSE "none",
                      old |-> slot.action, stop |-> quit']

DoNothing ==
  /\ pc = "left" /\ slot.action \in {"none", "cd_change", "load", "other"}
  /\ pc' = "run"
  /\ slot' = [action |-> "none", stop |-> FALSE,
              old |-> IF slot.action = "none" THEN slot.old ELSE slot.action]
  /\ UNCHANGED <<player, quit, card, hold, disc, auto, ring, alarms, out>>

DoSync ==
  /\ Do("sync") /\ Snapshot /\ auto' = [auto EXCEPT !.sync = FALSE]
  /\ UNCHANGED <<player, quit, card, hold, alarms, out>> /\ Return

DoReset ==
  /\ Do("reset") /\ ResetEvent
  /\ UNCHANGED <<player, disc, auto, ring, alarms>> /\ Return

(* power_off removes filename.txt. *)
DoPowerOff ==
  /\ Do("power_off") /\ quit' = TRUE /\ out' = [out EXCEPT !.filename = NoDisc]
  /\ UNCHANGED <<player, card, hold, disc, auto, ring, alarms>> /\ Return

DoChangeDisc ==
  /\ Do("cd_change") /\ \E opened \in BOOLEAN : SwapImage(opened)
  /\ UNCHANGED <<player, quit, card, hold, auto, ring, alarms, out>> /\ Return

DoLoad ==
  /\ Do("load") /\ LoadState
  /\ UNCHANGED <<player, quit, card, hold, alarms, out>> /\ Return

EnterMenu ==
  /\ Do("menu") /\ pc' = "menu"
  /\ slot' = [slot EXCEPT !.old = slot.action]
  /\ UNCHANGED <<player, quit, card, hold, disc, auto, ring, alarms, out>>

-----------------------------------------------------------------------------
(* In the menu.  Once the power button has been pressed no key is read any  *)
(* more (in_update_kc_async), so nothing can be chosen.                    *)
InMenu(op) == pc = "menu" /\ "power" \notin alarms /\ op \in player.menu

ToggleAutosave ==
  /\ InMenu("autosave") /\ auto' = [auto EXCEPT !.on = ~@]
  /\ UNCHANGED <<player, pc, slot, quit, card, hold, disc, ring, alarms, out>>

Resume == pc' = "run" /\ slot' = [slot EXCEPT !.action = "none", !.stop = FALSE]

MenuLoad ==
  /\ InMenu("load") /\ LoadState /\ Resume
  /\ UNCHANGED <<player, quit, card, hold, alarms, out>>

(* A disc that could not be opened leaves the player in the menu. *)
MenuSwap ==
  /\ \/ InMenu("swap") /\ SwapImage(TRUE) /\ Resume
     \/ InMenu("swap") /\ SwapImage(FALSE) /\ UNCHANGED <<pc, slot>>
     \/ InMenu("next") /\ NextDisc(TRUE) /\ Resume
     \/ InMenu("next") /\ NextDisc(FALSE) /\ UNCHANGED <<pc, slot>>
  /\ UNCHANGED <<player, quit, card, hold, auto, ring, alarms, out>>

(* "Reset game": the disc is looked at, and filename.txt written, at once.  *)
(* A held reset becomes the pending action, which the main loop clears.    *)
MenuRestart ==
  /\ InMenu("restart") /\ Resume
  /\ \/ disc' = Identified /\ hold' = FALSE /\ out' = [out EXCEPT !.filename = FileName(disc')]
     \/ disc' \in Unidentified /\ UNCHANGED <<hold, out>>
  /\ UNCHANGED <<player, quit, card, auto, ring, alarms>>

LeaveMenu ==
  /\ pc = "menu" /\ "power" \notin alarms
  /\ Resume
  /\ UNCHANGED <<player, quit, card, hold, disc, auto, ring, alarms, out>>

MenuExit ==
  /\ InMenu("exit") /\ quit' = TRUE /\ pc' = "exit"
  /\ slot' = [slot EXCEPT !.stop = TRUE]
  /\ UNCHANGED <<player, card, hold, disc, auto, ring, alarms, out>>

(* "Saving state on exit": the main loop is left, do_emu_action once more. *)
SaveOnExit ==
  /\ pc = "exit" /\ pc' = "done"
  /\ slot' = [slot EXCEPT !.action = "reset", !.old = "reset"]
  /\ ResetEvent
  /\ UNCHANGED <<player, disc, auto, ring, alarms>>

(* power_manage and watch_cpu_temperature, each once. *)
Alarm(a) ==
  /\ a \notin alarms /\ alarms' = alarms \cup {a}
  /\ UNCHANGED <<player, pc, slot, quit, card, hold, disc, auto, ring, out>>

KeyOrNone == player.keys \cup {"none"}
DoAction == DoNothing \/ DoSync \/ DoReset \/ DoPowerOff \/ DoChangeDisc \/ DoLoad \/ EnterMenu
Menu == ToggleAutosave \/ MenuLoad \/ MenuSwap \/ MenuRestart \/ LeaveMenu \/ MenuExit
Run == (\E key \in KeyOrNone : Frame(key)) \/ OtherEvent \/ StatusWrite \/ UseCard

Next == Run \/ DoAction \/ Menu \/ SaveOnExit \/ \E a \in player.alarms : Alarm(a)

Spec == Init /\ [][Next]_vars

(* Frames keep coming while the core runs, time passes, and the main loop   *)
(* goes on.  Nothing is assumed of the player or the guest.                *)
Fairness ==
  /\ WF_vars(\E key \in KeyOrNone : Frame(key))
  /\ SF_vars(\E key \in KeyOrNone : IrqTest(TRUE, key, TRUE, TRUE))
  /\ WF_vars(DoAction) /\ WF_vars(SaveOnExit)

FairSpec == Spec /\ Fairness

-----------------------------------------------------------------------------
(* The resume point saved with autosave on is the oldest snapshot there is: *)
(* the counters of the ring always lead SaveStateWork to it, whatever       *)
(* emptied the ring and however often it went round.                       *)
OldestServed ==
  /\ Len(ring.order) = ring.filled
  /\ ring.filled > 0 => OldIndex = Head(ring.order)

(* A resume point is only saved on the way out when the guest has left the *)
(* memory card alone for two intervals, however the reset was put off.      *)
SaveAfterQuiet == \A p \in out.point : p.calm = 2

(* A reset is held only while the disc is unknown; what makes the disc      *)
(* known also lets the reset go.                                           *)
HeldForDisc == hold => disc.unknown

(* With AB_EXIT_DIR, filename.txt means a session that ended cleanly: a     *)
(* resume point was saved, under the name it gives, of the disc it gives.   *)
CleanExit ==
  player.exitdir /\ out.filename # NoDisc =>
    \E p \in out.point : p.name = out.filename /\ p.content = out.filename

(* The power button ends the session, unless overheating takes over, and    *)
(* overheating does once the card is left alone and unless the drive never  *)
(* finds the new disc: neither is hidden by the other actions that set the  *)
(* one emu_action, nor lost when its reset is put off.                      *)
PowerServed == "power" \in alarms ~> quit \/ "hot" \in alarms
HotServed ==
  <>[]~card.flag /\ []<>~disc.unknown /\ []<>(pc # "menu") =>
    ("hot" \in alarms ~> quit)

AlarmsServed == PowerServed /\ HotServed
=============================================================================

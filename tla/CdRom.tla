------------------------------- MODULE CdRom -------------------------------
(***************************************************************************)
(* The CD-ROM controller of libpcsxcore/cdrom.c: the guest writes commands *)
(* and acknowledges interrupt causes, four events (command, read, play or  *)
(* seek, lid) fire later, and the frontend opens and closes the lid, saves *)
(* and loads the state.  The controller reports one cause at a time in     *)
(* Stat; whatever happens while one is unacknowledged has to wait.         *)
(* Cycle counts are not modelled: an armed event may fire at any time, in  *)
(* any order, so the delays some titles are given make no difference; the  *)
(* other patches for single titles are left out.  The guest acknowledges a *)
(* cause whole and masks all causes or none.                               *)
(***************************************************************************)
EXTENDS Integers

CONSTANT
  Guests      \* the kinds of program that may be running, each a record of
              \*   commands: those it writes
              \*   modes: those it selects with Setmode
              \*   may: a subset of Freedoms

(* "read_fails": the image may fail to deliver a sector; "mask": the guest  *)
(* masks the controller's interrupt (Reg2); "open": the lid is opened;     *)
(* "save": the state is saved and loaded, and reset; "hurry": the guest    *)
(* does not wait for an answer before it goes on.                          *)
Freedoms == {"read_fails", "mask", "open", "save", "hurry"}

Second == [Standby |-> "Standby2", Stop |-> "Stop2", Pause |-> "Pause2",
           Init |-> "Init2", ReadT |-> "ReadT2", ID |-> "ID2",
           ReadToc |-> "ReadToc2"]

(* "Mute" stands for the commands that only answer and touch nothing the   *)
(* model has (Demute, Setfilter, GetlocL, GetlocP, GetQ), "Getmode" for    *)
(* those of them that also answer while the drive is busy (Test), "GetTN"  *)
(* for those that may report a disc error (GetTD), "Forward" for Backward  *)
(* too, and "Undefined" for every number that is no command.               *)
CommandKinds ==
  DOMAIN Second \cup {"Sync", "Nop", "Setloc", "Play", "Forward", "Mute",
                      "Setmode", "Getmode", "GetTN", "Seek", "Reset", "Read",
                      "Undefined"}

SecondKinds == {Second[c] : c \in DOMAIN Second}


Causes == {"DataReady", "Complete", "Acknowledge", "DataEnd", "DiskError"}
EventBits == {"CDR", "CDREAD", "CDRPLAY", "CDRLID"}
StatusBits == {"PLAY", "SEEK", "READ", "SHELLOPEN", "ROTATING"}
Modes == {"STRSND", "REPORT", "AUTOPAUSE", "CDDA"}

ASSUME GuestsAssumption ==
  \A g \in Guests : g.commands \subseteq CommandKinds
                     /\ g.modes \subseteq SUBSET Modes /\ g.may \subseteq Freedoms

DriveStates == {"STANDBY", "LID_OPEN", "RESCAN_CD", "PREPARE_CD", "STOPPED"}

VARIABLES
  guest,      \* which of Guests is running
  cdr,        \* struct cdrStruct, with two fields more: `armed', its bits of
              \* psxRegs.interrupt, and `audio', whether the image plays CDDA
  lid,        \* what the image reports: "open" or "closed"
  saved,      \* the saved state, if there is one
  announced,  \* whether the CD bit of the interrupt status register (0x1070)
              \* has been raised for the cause in Stat
  wanted      \* what the guest last wrote: "read", or "stop" (Pause, Init)

vars == <<guest, cdr, lid, saved, announced, wanted>>

Drive ==
  [Stat : Causes \cup {"NoIntr"}, Irq : (CommandKinds \ {"Sync"}) \cup SecondKinds \cup {"none"},
   IrqRepeated : BOOLEAN, busy : BOOLEAN, ResultReady : BOOLEAN,
   Result : CommandKinds \cup SecondKinds \cup {"none", "sector", "seek", "report",
                                               "notready"},
   Reg2 : BOOLEAN, StatP : SUBSET StatusBits, DriveState : DriveStates,
   Reading : BOOLEAN, Play : BOOLEAN, Seeked : {"PENDING", "DONE"},
   Mode : SUBSET Modes, TrackChanged : BOOLEAN,
   armed : SUBSET EventBits, audio : BOOLEAN]

TypeOK ==
  /\ guest \in Guests
  /\ cdr \in Drive
  /\ lid \in {"open", "closed"}
  /\ saved \subseteq [cdr : Drive, announced : BOOLEAN, wanted : {"read", "stop"}]
  /\ announced \in BOOLEAN /\ wanted \in {"read", "stop"}

(* cdrReset, and the CDR_stop that SysReset adds; no event is armed. *)
ResetDrive ==
  [Stat |-> "NoIntr", Irq |-> "none", IrqRepeated |-> FALSE, busy |-> FALSE,
   ResultReady |-> FALSE, Result |-> "none", Reg2 |-> TRUE,
   StatP |-> {"ROTATING"}, DriveState |-> "STANDBY", Reading |-> FALSE,
   Play |-> FALSE, Seeked |-> "PENDING", Mode |-> {}, TrackChanged |-> FALSE,
   armed |-> {}, audio |-> FALSE]

Init ==
  /\ guest \in Guests
  /\ cdr = ResetDrive
  /\ lid = "closed" /\ saved = {}
  /\ announced = FALSE /\ wanted = "stop"

-----------------------------------------------------------------------------
(* Helpers of the handlers: from a drive to a drive.                       *)

Arm(c, e) == [c EXCEPT !.armed = @ \cup {e}]

(* Fault: only the flag is cleared, the events stay. *)
StopReadingForgets(c) == [c EXCEPT !.StatP = @ \ {"READ", "SEEK"}]

StopReading(c) ==
  [c EXCEPT !.Reading = FALSE,
            !.armed = IF c.Reading THEN @ \ {"CDREAD"} ELSE @,
            !.StatP = @ \ {"READ", "SEEK"}]

(* The same from a handler of the event loop: the recompiling core puts    *)
(* the read event's bit back when the loop is done (see EventSched), the   *)
(* interpreter does not.                                                   *)
StopReadingInHandler(c) ==
  {StopReading(c), [StopReading(c) EXCEPT !.armed = c.armed]}

StopCdda(c) ==
  IF c.Play
    THEN [c EXCEPT !.audio = FALSE, !.StatP = @ \ {"PLAY"}, !.Play = FALSE]
    ELSE c

Answer(c, result, cause) ==
  [c EXCEPT !.Result = result, !.ResultReady = TRUE, !.Stat = cause]

(* Fault: the second response is dropped. *)
AddIrqQueueOnce(c, i) ==
  IF i \in SecondKinds THEN c
  ELSE Arm([c EXCEPT !.Irq = IF i = "Sync" THEN "none" ELSE i], "CDR")

(* A command already waiting, or its second response, is only repeated;    *)
(* any other is overridden.  CdlSync has number 0, which means none.       *)
AddIrqQueue(c, i) ==
  IF c.Irq # "none" /\ (i = c.Irq \/ (i \in DOMAIN Second /\ Second[i] = c.Irq))
    THEN Arm([c EXCEPT !.IrqRepeated = TRUE], "CDR")
    ELSE Arm([c EXCEPT !.Irq = IF i = "Sync" THEN "none" ELSE i], "CDR")

(* setIrq: the cause is announced if the guest has not masked it. *)
SetIrq(c) ==
  announced' = (announced \/ (c.Stat # "NoIntr" /\ c.Reg2))

-----------------------------------------------------------------------------
(* cdrInterrupt: the command event.                                        *)

StartsRotating == {"Play", "Standby", "Init", "ReadT", "Seek", "Reset",
                   "ReadToc", "Read"}
NoBusyError == {"Nop", "Init", "Setmode", "Getmode", "Reset", "ReadToc",
                "ReadToc2"}
NotReady == {"LID_OPEN", "RESCAN_CD", "PREPARE_CD"}

DoPlay(c) ==
  LET stopped == StopCdda(c)
  IN Arm([stopped EXCEPT !.Seeked = "DONE", !.TrackChanged = FALSE, !.audio = TRUE,
                         !.StatP = (@ \ {"SEEK"}) \cup {"PLAY"}, !.Play = TRUE],
         "CDRPLAY")

DoRead(c) ==
  Arm([c EXCEPT !.Reading = TRUE,
                !.StatP = IF c.Seeked = "DONE" THEN (@ \ {"SEEK"}) \cup {"READ"}
                          ELSE (@ \ {"READ"}) \cup {"SEEK"}],
      "CDREAD")

(* What command i does to a drive that has acknowledged it: the outcomes.  *)
Execute(c, i) ==
  CASE i = "Nop" ->
         {IF c.DriveState = "LID_OPEN" THEN c
          ELSE [c EXCEPT !.StatP = @ \ {"SHELLOPEN"}]}
    [] i = "Play" -> {DoPlay(c)}
    [] i = "Forward" -> {[c EXCEPT !.Stat = "Complete"]}
    [] i = "Standby" ->
         IF c.DriveState = "STOPPED" THEN {AddIrqQueue(c, "Standby2")}
         ELSE {[c EXCEPT !.Stat = "DiskError"]}
    [] i = "Stop" ->
         {AddIrqQueue([d EXCEPT !.DriveState = "STOPPED"], "Stop2") :
            d \in StopReadingInHandler(StopCdda(c))}
    [] i = "Stop2" ->
         {[c EXCEPT !.StatP = @ \ {"ROTATING"}, !.Stat = "Complete"]}
    [] i = "Pause" -> {[AddIrqQueue(c, "Pause2") EXCEPT !.busy = TRUE]}
    [] i = "Pause2" -> {[c EXCEPT !.StatP = @ \ {"READ"}, !.Stat = "Complete"]}
    [] i \in {"Init", "ReadT", "ID", "ReadToc"} -> {AddIrqQueue(c, Second[i])}
    [] i \in {"Standby2", "Init2", "ReadT2", "ID2", "ReadToc2"} ->
         {[c EXCEPT !.Stat = "Complete"]}
    [] i = "GetTN" -> {c, [c EXCEPT !.Stat = "DiskError"]}
    [] i = "Seek" ->
         {Arm([d EXCEPT !.StatP = @ \cup {"SEEK"}, !.Seeked = "PENDING"], "CDRPLAY") :
            d \in StopReadingInHandler(StopCdda(c))}
    [] i = "Reset" ->
         {Arm([c EXCEPT !.StatP = @ \cup {"SHELLOPEN"}, !.DriveState = "RESCAN_CD"],
              "CDRLID")}
    [] i = "Read" ->
         (* an audio track in CDDA mode is played *)
         {DoRead(c)} \cup (IF "CDDA" \in c.Mode THEN {DoPlay(c)} ELSE {})
    [] i = "Undefined" -> {[c EXCEPT !.Stat = "DiskError"]}
    [] OTHER -> {c}

(* A stopped drive starts to rotate; one that is opening or scanning the   *)
(* disc answers with an error, whatever the command has done.              *)
Settle(c, i) ==
  LET d == IF c.DriveState = "STOPPED" /\ i \in StartsRotating
             THEN [c EXCEPT !.DriveState = "STANDBY", !.StatP = @ \cup {"ROTATING"}]
             ELSE c
  IN IF i \notin NoBusyError /\ d.DriveState \in NotReady
       THEN Answer(d, "notready", "DiskError")
       ELSE d

(* Fault: an event that finds a cause unacknowledged is not armed again. *)
RescheduleNot(e) ==
  /\ cdr' = [cdr EXCEPT !.armed = @ \ {e}]
  /\ UNCHANGED announced

Reschedule(e) ==
  /\ cdr' = Arm(cdr, e)
  /\ UNCHANGED announced

cdrInterrupt ==
  LET i == IF cdr.Irq = "none" THEN "Sync" ELSE cdr.Irq
      c == [Answer(cdr, i, "Acknowledge") EXCEPT
              !.busy = FALSE, !.IrqRepeated = FALSE, !.armed = @ \ {"CDR"}]
  IN /\ "CDR" \in cdr.armed
     /\ \/ cdr.Stat # "NoIntr" /\ Reschedule("CDR")
        (* a repeated command only acknowledges the first time, if the      *)
        (* cycle counter is still below the command's delay                *)
        \/ /\ cdr.Stat = "NoIntr" /\ cdr.IrqRepeated
           /\ cdr' = Arm(c, "CDR") /\ SetIrq(cdr')
        \/ /\ cdr.Stat = "NoIntr"
           /\ \E d \in Execute([c EXCEPT !.Irq = "none"], i) : cdr' = Settle(d, i)
           /\ SetIrq(cdr')
     /\ UNCHANGED <<guest, lid, saved, wanted>>

-----------------------------------------------------------------------------
(* The read event. *)

(* Fault: a cause still unacknowledged does not hold back the sector. *)
MustWaitForCommand(c) == c.Irq # "none"

MustWait(c) == c.Irq # "none" \/ c.Stat # "NoIntr"

Sector(c) ==
  Arm([c EXCEPT !.Result = "sector", !.ResultReady = TRUE, !.Seeked = "DONE",
                !.StatP = (@ \cup {"READ", "ROTATING"}) \ {"SEEK"}],
      "CDREAD")

cdrReadInterrupt ==
  LET c == [cdr EXCEPT !.armed = @ \ {"CDREAD"}]
  IN /\ "CDREAD" \in cdr.armed
     /\ \/ /\ ~cdr.Reading /\ cdr' = c /\ UNCHANGED announced
        \/ cdr.Reading /\ MustWait(cdr) /\ Reschedule("CDREAD")
        (* the error is left in Stat without raising the interrupt *)
        \/ /\ cdr.Reading /\ ~MustWait(cdr) /\ "read_fails" \in guest.may
           /\ cdr' = [Sector(c) EXCEPT !.Stat = "DiskError"]
           /\ UNCHANGED announced
        \/ /\ cdr.Reading /\ ~MustWait(cdr)
           /\ cdr' = [Sector(c) EXCEPT !.Stat = "DataReady"]
           /\ SetIrq(cdr')
        (* an ADPCM sector goes to the SPU and is not reported *)
        \/ /\ cdr.Reading /\ ~MustWait(cdr) /\ "STRSND" \in cdr.Mode
           /\ cdr' = Sector(c) /\ UNCHANGED announced
     /\ UNCHANGED <<guest, lid, saved, wanted>>

-----------------------------------------------------------------------------
(* The play event, which also completes seeks.  (Reading a track's subcode *)
(* for the read event can change TrackChanged too: it is anything already.) *)

SeekDone(c) ==
  LET d == [c EXCEPT !.Result = "seek", !.ResultReady = TRUE, !.Seeked = "DONE",
                     !.StatP = (@ \cup {"ROTATING"}) \ {"SEEK"}, !.TrackChanged = FALSE]
  IN IF c.Irq = "none" THEN [d EXCEPT !.Stat = "Complete"] ELSE d

(* At the end of the disc playing stops and counts as a change of track.   *)
EndOfDisc(c) == [StopCdda(c) EXCEPT !.TrackChanged = TRUE]

Autopause(c) ==
  IF c.Irq # "none" \/ c.Stat # "NoIntr" THEN c
  ELSE IF "AUTOPAUSE" \in c.Mode /\ c.TrackChanged
    THEN StopCdda([c EXCEPT !.Stat = "DataEnd"])
  ELSE IF "REPORT" \in c.Mode THEN Answer(c, "report", "DataReady")
  ELSE c

PlayOn(c) ==
  IF ~c.Play THEN {c}
  ELSE LET after == {Autopause(c), Autopause(EndOfDisc(c))}
       IN {d \in after : ~d.Play} \cup
            {Arm([d EXCEPT !.TrackChanged = changed], "CDRPLAY") :
               d \in {x \in after : x.Play}, changed \in BOOLEAN}

cdrPlayInterrupt ==
  LET c == [cdr EXCEPT !.armed = @ \ {"CDRPLAY"}]
  IN /\ "CDRPLAY" \in cdr.armed
     /\ IF cdr.Seeked = "PENDING" /\ cdr.Stat # "NoIntr"
          THEN Reschedule("CDRPLAY")
          ELSE /\ cdr' \in PlayOn(IF cdr.Seeked = "PENDING" THEN SeekDone(c) ELSE c)
               /\ IF cdr'.Stat # cdr.Stat THEN SetIrq(cdr')
                  ELSE UNCHANGED announced
     /\ UNCHANGED <<guest, lid, saved, wanted>>

-----------------------------------------------------------------------------
(* The lid event: cdrLidSeekInterrupt, from the event loop or the frontend. *)

(* Fault: a lid found open is not looked at again. *)
RecheckOnce(c, open) ==
  IF "ROTATING" \in c.StatP THEN Arm([c EXCEPT !.StatP = @ \ {"ROTATING"}], "CDRLID")
  ELSE IF ~open THEN Arm([c EXCEPT !.DriveState = "RESCAN_CD"], "CDRLID")
  ELSE c

(* The guest has been shown the open lid: the disc stops, and then the lid *)
(* has to close.                                                           *)
Recheck(c, open) ==
  Arm(IF "ROTATING" \in c.StatP THEN [c EXCEPT !.StatP = @ \ {"ROTATING"}]
      ELSE IF ~open THEN [c EXCEPT !.DriveState = "RESCAN_CD"]
      ELSE c, "CDRLID")

LidSeek(c, open, inHandler) ==
  CASE c.DriveState \in {"STANDBY", "STOPPED"} ->
         LET d == [c EXCEPT !.StatP = @ \ {"SEEK"}]
         IN {IF open
               THEN Arm([StopCdda(d) EXCEPT !.DriveState = "LID_OPEN"], "CDRLID")
               ELSE d}
    [] c.DriveState = "LID_OPEN" /\ "SHELLOPEN" \notin c.StatP ->
         {Arm([d EXCEPT !.StatP = @ \cup {"SHELLOPEN"}], "CDRLID") :
            d \in IF inHandler THEN StopReadingInHandler(c) ELSE {StopReading(c)}}
    [] c.DriveState = "LID_OPEN" /\ "SHELLOPEN" \in c.StatP ->
         {Recheck(c, open)}
    [] c.DriveState = "RESCAN_CD" ->
         {Arm([c EXCEPT !.StatP = @ \cup {"ROTATING"}, !.DriveState = "PREPARE_CD"],
              "CDRLID")}
    [] c.DriveState = "PREPARE_CD" ->
         {Arm([c EXCEPT !.StatP = @ \cup {"SEEK"}, !.DriveState = "STANDBY"], "CDRLID")}

cdrLidSeekInterrupt ==
  /\ "CDRLID" \in cdr.armed
  /\ cdr' \in LidSeek([cdr EXCEPT !.armed = @ \ {"CDRLID"}], lid = "open", TRUE)
  /\ UNCHANGED <<guest, lid, saved, announced, wanted>>

(* The frontend inserts another image: the lid counts as open for a while. *)
LidInterrupt ==
  /\ "open" \in guest.may
  /\ lid' = "open"
  /\ cdr' \in LidSeek(StopCdda(cdr), TRUE, FALSE)
  /\ UNCHANGED <<guest, saved, announced, wanted>>

CloseLid ==
  /\ lid = "open" /\ lid' = "closed"
  /\ UNCHANGED <<guest, cdr, saved, announced, wanted>>

-----------------------------------------------------------------------------
(* The guest.                                                              *)

(* What writing a command does at once, before it is executed. *)
Prepare(c, i) ==
  CASE i = "Setloc" -> {c, [c EXCEPT !.Seeked = "PENDING"]}
    [] i \in {"Read", "Pause"} -> {StopReading(StopCdda(c))}
    [] i \in {"Reset", "Init"} ->
         {StopReading(StopCdda([c EXCEPT !.Seeked = "DONE"]))}
    [] i = "Setmode" ->
         {IF "CDDA" \in mode THEN [c EXCEPT !.Mode = mode]
          ELSE StopCdda([c EXCEPT !.Mode = mode]) : mode \in guest.modes}
    [] OTHER -> {c}

WriteCommand(i) ==
  /\ "hurry" \notin guest.may => cdr.Irq = "none" /\ "CDR" \notin cdr.armed /\ cdr.Stat = "NoIntr"
  /\ cdr' \in Prepare(AddIrqQueue([cdr EXCEPT !.ResultReady = FALSE, !.busy = TRUE], i),
                      i)
  /\ wanted' = IF i = "Read" THEN "read"
               ELSE IF i \in {"Pause", "Init", "Reset"} THEN "stop" ELSE wanted
  /\ UNCHANGED <<guest, lid, saved, announced>>

(* Write3: the guest acknowledges the cause it was interrupted for. *)
Acknowledge ==
  /\ cdr.Stat # "NoIntr"
  /\ cdr' = [cdr EXCEPT !.Stat = "NoIntr"]
  /\ announced' = FALSE
  /\ UNCHANGED <<guest, lid, saved, wanted>>

(* Read1, to the last byte of the result. *)
ReadResult ==
  /\ cdr.ResultReady
  /\ cdr' = [cdr EXCEPT !.ResultReady = FALSE]
  /\ UNCHANGED <<guest, lid, saved, announced, wanted>>

(* Fault: unmasking does not look for a cause that is already there. *)
WriteReg2Silent ==
  /\ "mask" \in guest.may
  /\ \E b \in BOOLEAN : cdr' = [cdr EXCEPT !.Reg2 = b]
  /\ UNCHANGED <<guest, announced, lid, saved, wanted>>

(* Write2: the guest masks or unmasks the interrupt. *)
WriteReg2 ==
  /\ "mask" \in guest.may
  /\ \E b \in BOOLEAN : cdr' = [cdr EXCEPT !.Reg2 = b]
  /\ SetIrq(cdr')
  /\ UNCHANGED <<guest, lid, saved, wanted>>

-----------------------------------------------------------------------------
(* The frontend: saving, loading and resetting. *)

Save ==
  /\ "save" \in guest.may
  /\ saved' = {[cdr |-> cdr, announced |-> announced, wanted |-> wanted]}
  /\ UNCHANGED <<guest, cdr, lid, announced, wanted>>

(* Fault: CDDA that was playing goes on playing. *)
RestoreKeepsAudio(c) == [c EXCEPT !.audio = cdr.audio \/ c.Play]

(* cdrFreeze: audio is stopped, and started again where the state has it.  *)
Restore(c) == [c EXCEPT !.audio = c.Play]

Load ==
  /\ "save" \in guest.may
  /\ \E s \in saved :
       /\ cdr' = Restore(s.cdr)
       /\ announced' = s.announced /\ wanted' = s.wanted
  /\ UNCHANGED <<guest, lid, saved>>

SysReset ==
  /\ "save" \in guest.may
  /\ cdr' = ResetDrive
  /\ announced' = FALSE /\ wanted' = "stop"
  /\ UNCHANGED <<guest, lid, saved>>

-----------------------------------------------------------------------------
Events == cdrInterrupt \/ cdrReadInterrupt \/ cdrPlayInterrupt \/ cdrLidSeekInterrupt

Guest ==
  \/ \E i \in guest.commands : WriteCommand(i)
  \/ Acknowledge \/ ReadResult \/ WriteReg2

Frontend == LidInterrupt \/ CloseLid \/ Save \/ Load \/ SysReset

Next == Events \/ Guest \/ Frontend

Spec == Init /\ [][Next]_vars

(* The events fire, and the guest acknowledges what it is interrupted for. *)
FairSpec ==
  /\ Spec
  /\ WF_vars(cdr.Stat = "NoIntr" /\ cdrInterrupt)
  /\ WF_vars(cdrLidSeekInterrupt)
  /\ WF_vars(announced /\ Acknowledge)

-----------------------------------------------------------------------------
(* Properties.                                                             *)

Forgets == Load \/ SysReset

(* A cause is never replaced, and its result not overwritten, before the   *)
(* guest has acknowledged it, whichever events and commands come between.  *)
ResponseKept ==
  [][cdr.Stat # "NoIntr" /\ ~Forgets =>
       \/ cdr'.Stat = "NoIntr"
       \/ cdr'.Stat = cdr.Stat /\ cdr'.Result = cdr.Result]_vars

(* Whatever is under way has its event armed, so it goes on: a command, a  *)
(* read, a track being played, and a disc change.                          *)
NothingStalls ==
  /\ cdr.Irq # "none" \/ cdr.busy => "CDR" \in cdr.armed
  /\ cdr.Reading => "CDREAD" \in cdr.armed
  /\ cdr.Play => "CDRPLAY" \in cdr.armed
  /\ cdr.DriveState \in NotReady => "CDRLID" \in cdr.armed

(* Once the guest has written a pause, an initialisation or a reset, it is *)
(* given no sector before it asks again, although the read event may still *)
(* be armed and a read may still be in the queue.                          *)
ReadsWhenAsked ==
  [][/\ cdr.Stat = "NoIntr" /\ cdr'.Stat \in {"DataReady", "DiskError"}
     /\ cdr'.Result = "sector" /\ ~Forgets
     => wanted = "read"]_vars

(* The image plays audio exactly while the controller is playing.          *)
AudioFollowsPlay == cdr.audio = cdr.Play

(* Every cause the guest has not masked is announced by an interrupt,      *)
(* except a sector that could not be read.                                 *)
CausesAnnounced ==
  cdr.Stat # "NoIntr" /\ cdr.Reg2 =>
    announced \/ (cdr.Stat = "DiskError" /\ cdr.Result = "sector")

(* A guest that waits for its answers gets them: every command leaves the  *)
(* queue, the busy bit goes away, and a command with a second response     *)
(* completes or fails.                                                     *)
CommandsAnswered ==
  LET Waits == guest.may \cap {"hurry", "mask", "save"} = {}
  IN /\ Waits /\ (cdr.Irq # "none" \/ cdr.busy) ~> cdr.Irq = "none" /\ ~cdr.busy
     /\ \A c \in DOMAIN Second :
          Waits /\ cdr.Irq = c ~> cdr.Stat \in {"Complete", "DiskError"}

(* Once the lid stays closed, and the guest neither reads nor plays nor     *)
(* seeks nor resets the drive, it gets ready again.  (A sector that arrives *)
(* while the lid event waits for the disc to stop sets it rotating again.)  *)
DriveRecovers ==
  LET Quiet == /\ lid = "closed" /\ cdr.Irq # "Reset"
               /\ cdr.armed \cap {"CDREAD", "CDRPLAY"} = {}
  IN guest.may \cap {"mask", "save"} = {} /\ <>[]Quiet =>
       (cdr.DriveState \in NotReady ~> cdr.DriveState \notin NotReady)
=============================================================================

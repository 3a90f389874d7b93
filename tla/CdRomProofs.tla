----------------------------- MODULE CdRomProofs -----------------------------
(***************************************************************************)
(* Proofs about CdRom, for every set of guests: no response is lost or     *)
(* uninvited, and nothing that is under way is left without its event.     *)
(***************************************************************************)
EXTENDS CdRom, TLAPS

(* What holds of a drive, at any time and in a saved state: a read, a track *)
(* being played and a disc change have their events armed, and so does a   *)
(* command.                                                                *)
Moving(c) ==
  /\ c \in Drive /\ c.audio = c.Play
  /\ c.Reading => "CDREAD" \in c.armed
  /\ c.Play => "CDRPLAY" \in c.armed
  /\ c.DriveState \in NotReady => "CDRLID" \in c.armed

Commanded(c) == c.Irq # "none" \/ c.busy => "CDR" \in c.armed

(* A cause that is not masked has been announced, and sectors are read only *)
(* for a guest that wants them.                                            *)
Told(c, told) ==
  c.Stat # "NoIntr" /\ c.Reg2 => told \/ (c.Stat = "DiskError" /\ c.Result = "sector")

Wanted(c, want) == c.Reading \/ c.Irq = "Read" => want = "read"

Sound(c, told, want) == Moving(c) /\ Commanded(c) /\ Told(c, told) /\ Wanted(c, want)

SavedStates == [cdr : Drive, announced : BOOLEAN, wanted : {"read", "stop"}]

CdInv ==
  /\ guest \in Guests /\ lid \in {"open", "closed"}
  /\ announced \in BOOLEAN /\ wanted \in {"read", "stop"}
  /\ Sound(cdr, announced, wanted)
  /\ saved \subseteq SavedStates
  /\ \A s \in saved : Sound(s.cdr, s.announced, s.wanted)

(* A step that keeps the response in Stat, or has none to lose.            *)
Replaces(c, d) == d.Stat = "NoIntr" \/ (d.Stat = c.Stat /\ d.Result = c.Result)

Replied ==
  /\ cdr.Stat # "NoIntr" => Replaces(cdr, cdr')
  /\ cdr.Stat = "NoIntr" /\ cdr'.Stat \in {"DataReady", "DiskError"} /\ cdr'.Result = "sector"
       => wanted = "read"

(* What a helper leaves alone. *)
Kept(c, d) ==
  /\ d.Stat = c.Stat /\ d.Result = c.Result /\ d.Reg2 = c.Reg2
  /\ d.Irq = c.Irq /\ d.busy = c.busy
  /\ "CDR" \in c.armed => "CDR" \in d.armed
  /\ d.Reading => c.Reading

-----------------------------------------------------------------------------
(* The names of the commands and of their second responses. *)
LEMMA Kinds ==
  /\ DOMAIN Second = {"Standby", "Stop", "Pause", "Init", "ReadT", "ID", "ReadToc"}
  /\ SecondKinds = {"Standby2", "Stop2", "Pause2", "Init2", "ReadT2", "ID2", "ReadToc2"}
  /\ "Read" \notin SecondKinds /\ "none" \notin SecondKinds /\ "none" \notin CommandKinds
  /\ \A i \in DOMAIN Second : Second[i] \in SecondKinds
<1>1. DOMAIN Second = {"Standby", "Stop", "Pause", "Init", "ReadT", "ID", "ReadToc"}
  BY DEF Second
<1>2. SecondKinds = {"Standby2", "Stop2", "Pause2", "Init2", "ReadT2", "ID2", "ReadToc2"}
  BY <1>1 DEF SecondKinds, Second
<1>3. \A i \in DOMAIN Second : Second[i] \in SecondKinds
  BY DEF SecondKinds
<1> QED BY <1>1, <1>2, <1>3 DEF CommandKinds

Results == CommandKinds \cup SecondKinds \cup {"none", "sector", "seek", "report", "notready"}

LEMMA StopReadingMoves ==
  ASSUME NEW c, Moving(c)
  PROVE  Moving(StopReading(c)) /\ Kept(c, StopReading(c)) /\ ~StopReading(c).Reading
  BY DEF StopReading, Moving, Drive, Kept, EventBits

LEMMA StopInHandlerMoves ==
  ASSUME NEW c, Moving(c), NEW d \in StopReadingInHandler(c)
  PROVE  Moving(d) /\ Kept(c, d) /\ ~d.Reading
<1>1. CASE d = StopReading(c)
  BY <1>1, StopReadingMoves
<1>2. CASE d = [StopReading(c) EXCEPT !.armed = c.armed]
  BY <1>2 DEF StopReading, Moving, Drive, Kept, EventBits
<1> QED BY <1>1, <1>2 DEF StopReadingInHandler

LEMMA StopCddaMoves ==
  ASSUME NEW c, Moving(c)
  PROVE  Moving(StopCdda(c)) /\ Kept(c, StopCdda(c)) /\ ~StopCdda(c).Play
         /\ StopCdda(c).Reading = c.Reading
<1>1. CASE ~c.Play
  BY <1>1 DEF StopCdda, Moving, Kept
<1>2. CASE c.Play
  <2>1. StopCdda(c) = [c EXCEPT !.audio = FALSE, !.StatP = @ \ {"PLAY"}, !.Play = FALSE]
    BY <1>2 DEF StopCdda
  <2>2. c \in Drive
    BY DEF Moving
  <2>3. StopCdda(c) \in Drive
    BY <2>1, <2>2 DEF Drive
  <2>4. /\ StopCdda(c).audio = FALSE /\ StopCdda(c).Play = FALSE
        /\ StopCdda(c).Stat = c.Stat /\ StopCdda(c).Result = c.Result
        /\ StopCdda(c).Reg2 = c.Reg2 /\ StopCdda(c).Irq = c.Irq /\ StopCdda(c).busy = c.busy
        /\ StopCdda(c).armed = c.armed /\ StopCdda(c).Reading = c.Reading
        /\ StopCdda(c).DriveState = c.DriveState
    BY <2>1, <2>2 DEF Drive
  <2> QED BY <2>3, <2>4 DEF Moving, Kept
<1> QED BY <1>1, <1>2

(* What a command in the queue is. *)
Queued(c, d, i) ==
  /\ Moving(d) /\ "CDR" \in d.armed
  /\ d.Stat = c.Stat /\ d.Result = c.Result /\ d.Reg2 = c.Reg2 /\ d.Reading = c.Reading
  /\ d.Irq = "Read" => i = "Read"

LEMMA AddIrqQueueMoves ==
  ASSUME NEW c, Moving(c), NEW i \in CommandKinds \cup SecondKinds
  PROVE  Queued(c, AddIrqQueue(c, i), i)
<1> DEFINE d == AddIrqQueue(c, i)
           repeated == c.Irq # "none" /\ (i = c.Irq \/ (i \in DOMAIN Second /\ Second[i] = c.Irq))
           irq == IF i = "Sync" THEN "none" ELSE i
<1>1. irq \in (CommandKinds \ {"Sync"}) \cup SecondKinds \cup {"none"} /\ (irq = "Read" => i = "Read")
  OBVIOUS
<1>2. c \in Drive /\ "CDR" \in EventBits
  BY DEF Moving, EventBits
<1>3. CASE repeated
  <2>1. d = [c EXCEPT !.IrqRepeated = TRUE, !.armed = c.armed \cup {"CDR"}]
    BY <1>2, <1>3 DEF AddIrqQueue, Arm, Drive
  <2>2. c.Irq = "Read" => i = "Read"
    BY <1>3, Kinds
  <2> HIDE DEF d, repeated
  <2>3. d \in Drive
    BY <1>2, <2>1 DEF Drive
  <2>4. /\ d.Irq = c.Irq /\ d.armed = c.armed \cup {"CDR"} /\ d.Stat = c.Stat
        /\ d.Result = c.Result /\ d.Reg2 = c.Reg2 /\ d.Reading = c.Reading
        /\ d.audio = c.audio /\ d.Play = c.Play /\ d.DriveState = c.DriveState
    BY <1>2, <2>1 DEF Drive
  <2> QED BY <2>2, <2>3, <2>4 DEF Moving, Queued, d
<1>4. CASE ~repeated
  <2> HIDE DEF irq
  <2>1. d = [c EXCEPT !.Irq = irq, !.armed = c.armed \cup {"CDR"}]
    BY <1>2, <1>4 DEF AddIrqQueue, Arm, Drive, irq
  <2> HIDE DEF d, repeated
  <2>3. d \in Drive
    BY <1>1, <1>2, <2>1 DEF Drive
  <2>4. /\ d.Irq = irq /\ d.armed = c.armed \cup {"CDR"} /\ d.Stat = c.Stat
        /\ d.Result = c.Result /\ d.Reg2 = c.Reg2 /\ d.Reading = c.Reading
        /\ d.audio = c.audio /\ d.Play = c.Play /\ d.DriveState = c.DriveState
    BY <1>2, <2>1 DEF Drive
  <2> QED BY <1>1, <2>3, <2>4 DEF Moving, Queued, d
<1> QED BY <1>3, <1>4

-----------------------------------------------------------------------------
(* The command event.                                                      *)
LEMMA DoPlayMoves ==
  ASSUME NEW c, Moving(c)
  PROVE  LET d == DoPlay(c) IN
         Moving(d) /\ d.Irq = c.Irq /\ d.busy = c.busy /\ d.Reg2 = c.Reg2 /\ d.Result = c.Result
         /\ d.Stat = c.Stat /\ d.Reading = c.Reading /\ ("CDR" \in c.armed => "CDR" \in d.armed)
<1> DEFINE s == StopCdda(c)
           d == DoPlay(c)
<1>1. s \in Drive /\ Moving(s) /\ Kept(c, s) /\ s.Reading = c.Reading
  BY StopCddaMoves DEF Moving
<1>2. d = [s EXCEPT !.Seeked = "DONE", !.TrackChanged = FALSE, !.audio = TRUE,
                    !.StatP = (@ \ {"SEEK"}) \cup {"PLAY"}, !.Play = TRUE,
                    !.armed = s.armed \cup {"CDRPLAY"}]
  BY <1>1 DEF DoPlay, Arm, Drive
<1> HIDE DEF s, d
<1>3. d \in Drive
  BY <1>1, <1>2 DEF Drive, StatusBits, EventBits
<1>4. /\ d.Irq = s.Irq /\ d.busy = s.busy /\ d.Reg2 = s.Reg2 /\ d.Result = s.Result
      /\ d.Stat = s.Stat /\ d.Reading = s.Reading /\ d.armed = s.armed \cup {"CDRPLAY"}
      /\ d.audio = TRUE /\ d.Play = TRUE /\ d.DriveState = s.DriveState
  BY <1>1, <1>2 DEF Drive
<1>5. Moving(d)
  BY <1>1, <1>3, <1>4 DEF Moving
<1> QED BY <1>1, <1>4, <1>5 DEF Kept, d

LEMMA DoReadMoves ==
  ASSUME NEW c, Moving(c)
  PROVE  LET d == DoRead(c) IN
         Moving(d) /\ d.Irq = c.Irq /\ d.busy = c.busy /\ d.Reg2 = c.Reg2 /\ d.Result = c.Result
         /\ d.Stat = c.Stat /\ ("CDR" \in c.armed => "CDR" \in d.armed)
<1> DEFINE d == DoRead(c)
           statp == IF c.Seeked = "DONE" THEN (c.StatP \ {"SEEK"}) \cup {"READ"}
                    ELSE (c.StatP \ {"READ"}) \cup {"SEEK"}
<1>1. c \in Drive
  BY DEF Moving
<1>2. statp \in SUBSET StatusBits
  BY <1>1 DEF Drive, StatusBits
<1>3. d = [c EXCEPT !.Reading = TRUE, !.StatP = statp, !.armed = c.armed \cup {"CDREAD"}]
  BY <1>1 DEF DoRead, Arm, Drive
<1> HIDE DEF d, statp
<1>4. d \in Drive
  BY <1>1, <1>2, <1>3 DEF Drive, EventBits
<1>5. /\ d.Irq = c.Irq /\ d.busy = c.busy /\ d.Reg2 = c.Reg2 /\ d.Result = c.Result
      /\ d.Stat = c.Stat /\ d.armed = c.armed \cup {"CDREAD"}
      /\ d.audio = c.audio /\ d.Play = c.Play /\ d.DriveState = c.DriveState
  BY <1>1, <1>3 DEF Drive
<1>6. Moving(d)
  BY <1>4, <1>5 DEF Moving
<1> QED BY <1>5, <1>6 DEF d

(* What a command that is carried out leaves, c being the drive before it. *)
Executed(c, d, i) ==
  /\ Moving(d) /\ Commanded(d) /\ d.Reg2 = c.Reg2 /\ d.Result = c.Result /\ d.Stat \in Causes
  /\ d.Irq # "Read" /\ (d.Reading => c.Reading \/ i = "Read")

LEMMA QueuedIsExecuted ==
  ASSUME NEW c, Moving(c), c.Stat \in Causes, NEW j \in SecondKinds, NEW i
  PROVE  Executed(c, AddIrqQueue(c, j), i)
<1>1. Queued(c, AddIrqQueue(c, j), j) /\ j # "Read"
  BY AddIrqQueueMoves, Kinds
<1> QED BY <1>1 DEF Queued, Executed, Commanded

LEMMA ExecuteMoves ==
  ASSUME NEW c, Moving(c), c.Stat = "Acknowledge", c.Irq = "none", ~c.busy,
         NEW i \in CommandKinds \cup SecondKinds, NEW d \in Execute(c, i)
  PROVE  Executed(c, d, i)
<1>1. c \in Drive /\ c.Stat \in Causes /\ c.audio = c.Play
      /\ "DiskError" \in Causes /\ "Complete" \in Causes
  BY DEF Moving, Causes
<1>2. Executed(c, c, i)
  BY <1>1 DEF Executed, Commanded
<1>3. ASSUME NEW cause \in Causes PROVE Executed(c, [c EXCEPT !.Stat = cause], i)
  <2> DEFINE e == [c EXCEPT !.Stat = cause]
  <2>1. e \in Drive
    BY <1>1 DEF Drive
  <2>2. /\ e.Stat = cause /\ e.Irq = c.Irq /\ e.busy = c.busy /\ e.Reg2 = c.Reg2
        /\ e.Result = c.Result /\ e.Reading = c.Reading /\ e.armed = c.armed
        /\ e.audio = c.audio /\ e.Play = c.Play /\ e.DriveState = c.DriveState
    BY <1>1 DEF Drive
  <2> HIDE DEF e
  <2>3. Moving(e)
    BY <2>1, <2>2 DEF Moving
  <2>4. Executed(c, e, i)
    BY <2>2, <2>3 DEF Executed, Commanded
  <2> QED BY <2>4 DEF e
<1>4. ASSUME NEW status \in SUBSET StatusBits, NEW cause \in Causes
      PROVE  Executed(c, [c EXCEPT !.StatP = status, !.Stat = cause], i)
  <2> DEFINE e == [c EXCEPT !.StatP = status, !.Stat = cause]
  <2>1. e \in Drive
    BY <1>1 DEF Drive
  <2>2. /\ e.Stat = cause /\ e.Irq = c.Irq /\ e.busy = c.busy /\ e.Reg2 = c.Reg2
        /\ e.Result = c.Result /\ e.Reading = c.Reading /\ e.armed = c.armed
        /\ e.audio = c.audio /\ e.Play = c.Play /\ e.DriveState = c.DriveState
    BY <1>1 DEF Drive
  <2> HIDE DEF e
  <2>3. Moving(e)
    BY <2>1, <2>2 DEF Moving
  <2>4. Executed(c, e, i)
    BY <2>2, <2>3 DEF Executed, Commanded
  <2> QED BY <2>4 DEF e
<1>5. CASE i = "Nop"
  <2>1. CASE d = c
    BY <1>2, <2>1
  <2>2. CASE d = [c EXCEPT !.StatP = c.StatP \ {"SHELLOPEN"}]
    <3>1. d = [c EXCEPT !.StatP = c.StatP \ {"SHELLOPEN"}, !.Stat = c.Stat]
      BY <1>1, <2>2 DEF Drive
    <3>2. c.StatP \ {"SHELLOPEN"} \in SUBSET StatusBits
      BY <1>1 DEF Drive
    <3> QED BY <1>1, <1>4, <3>1, <3>2
  <2> QED BY <1>5, <2>1, <2>2 DEF Execute
<1>6. CASE i = "Play"
  <2>1. d = DoPlay(c)
    BY <1>6 DEF Execute
  <2>2. /\ Moving(d) /\ d.Irq = c.Irq /\ d.busy = c.busy /\ d.Reg2 = c.Reg2
        /\ d.Result = c.Result /\ d.Stat = c.Stat /\ d.Reading = c.Reading
    BY <2>1, DoPlayMoves
  <2> QED BY <1>1, <2>2 DEF Executed, Commanded
<1>7. CASE i \in {"Forward", "Standby2", "Init2", "ReadT2", "ID2", "ReadToc2", "Undefined"}
  <2>1. d = [c EXCEPT !.Stat = "Complete"] \/ d = [c EXCEPT !.Stat = "DiskError"]
    BY <1>7 DEF Execute
  <2> QED BY <1>1, <1>3, <2>1
<1>8. CASE i = "Standby"
  <2>1. d = AddIrqQueue(c, "Standby2") \/ d = [c EXCEPT !.Stat = "DiskError"]
    BY <1>8 DEF Execute
  <2>2. Executed(c, AddIrqQueue(c, "Standby2"), i)
    BY <1>1, QueuedIsExecuted, Kinds
  <2> QED BY <1>1, <1>3, <2>1, <2>2
<1>9. CASE i = "Stop"
  <2>1. PICK s \in StopReadingInHandler(StopCdda(c)) :
          d = AddIrqQueue([s EXCEPT !.DriveState = "STOPPED"], "Stop2")
    BY <1>9 DEF Execute
  <2>2. Moving(StopCdda(c)) /\ Kept(c, StopCdda(c))
    BY StopCddaMoves
  <2>3. Moving(s) /\ Kept(StopCdda(c), s) /\ ~s.Reading
    BY <2>1, <2>2, StopInHandlerMoves
  <2> DEFINE e == [s EXCEPT !.DriveState = "STOPPED"]
  <2>4. e \in Drive
    BY <2>3 DEF Drive, Moving, DriveStates
  <2>5. /\ e.Stat = s.Stat /\ e.Reg2 = s.Reg2 /\ e.Result = s.Result /\ e.Reading = s.Reading
        /\ e.armed = s.armed /\ e.audio = s.audio /\ e.Play = s.Play /\ e.DriveState = "STOPPED"
    BY <2>3 DEF Drive, Moving
  <2> HIDE DEF e
  <2>6. Moving(e)
    BY <2>3, <2>4, <2>5 DEF Moving, NotReady
  <2>7. Queued(e, AddIrqQueue(e, "Stop2"), "Stop2")
    BY <2>6, AddIrqQueueMoves, Kinds
  <2>8. d = AddIrqQueue(e, "Stop2")
    BY <2>1 DEF e
  <2> QED BY <1>1, <2>2, <2>3, <2>5, <2>7, <2>8 DEF Kept, Queued, Executed, Commanded
<1>10. CASE i = "Stop2" \/ i = "Pause2"
  <2>1. PICK bit \in StatusBits : d = [c EXCEPT !.StatP = c.StatP \ {bit}, !.Stat = "Complete"]
    BY <1>10 DEF Execute, StatusBits
  <2>2. c.StatP \ {bit} \in SUBSET StatusBits
    BY <1>1 DEF Drive
  <2> QED BY <1>1, <1>4, <2>1, <2>2
<1>11. CASE i = "Pause"
  <2> DEFINE e == AddIrqQueue(c, "Pause2")
  <2>1. d = [e EXCEPT !.busy = TRUE]
    BY <1>11 DEF Execute
  <2>2. Queued(c, e, "Pause2")
    BY AddIrqQueueMoves, Kinds
  <2> HIDE DEF e
  <2>3. e \in Drive
    BY <2>2 DEF Queued, Moving
  <2>4. d \in Drive
    BY <2>1, <2>3 DEF Drive
  <2>5. /\ d.Stat = e.Stat /\ d.Reg2 = e.Reg2 /\ d.Result = e.Result /\ d.Reading = e.Reading
        /\ d.armed = e.armed /\ d.audio = e.audio /\ d.Play = e.Play /\ d.Irq = e.Irq
        /\ d.DriveState = e.DriveState
    BY <2>1, <2>3 DEF Drive
  <2>6. Moving(d)
    BY <2>2, <2>4, <2>5 DEF Moving, Queued
  <2> QED BY <1>1, <2>2, <2>5, <2>6 DEF Queued, Executed, Commanded
<1>12. CASE i \in {"Init", "ReadT", "ID", "ReadToc"}
  <2>1. d = AddIrqQueue(c, Second[i]) /\ Second[i] \in SecondKinds
    BY <1>12, Kinds DEF Execute
  <2> QED BY <1>1, <2>1, QueuedIsExecuted
<1>13. CASE i = "GetTN"
  <2>1. d = c \/ d = [c EXCEPT !.Stat = "DiskError"]
    BY <1>13 DEF Execute
  <2> QED BY <1>1, <1>2, <1>3, <2>1
<1>14. CASE i = "Seek"
  <2>1. PICK s \in StopReadingInHandler(StopCdda(c)) :
          d = Arm([s EXCEPT !.StatP = @ \cup {"SEEK"}, !.Seeked = "PENDING"], "CDRPLAY")
    BY <1>14 DEF Execute
  <2>2. Moving(StopCdda(c)) /\ Kept(c, StopCdda(c))
    BY StopCddaMoves
  <2>3. s \in Drive /\ Moving(s) /\ Kept(StopCdda(c), s) /\ ~s.Reading
    BY <2>1, <2>2, StopInHandlerMoves DEF Moving
  <2>4. d = [s EXCEPT !.StatP = s.StatP \cup {"SEEK"}, !.Seeked = "PENDING",
                      !.armed = s.armed \cup {"CDRPLAY"}]
    BY <2>1, <2>3 DEF Arm, Drive
  <2>5. d \in Drive
    BY <2>3, <2>4 DEF Drive, StatusBits, EventBits
  <2>6. /\ d.Stat = s.Stat /\ d.Reg2 = s.Reg2 /\ d.Result = s.Result /\ d.Reading = s.Reading
        /\ d.armed = s.armed \cup {"CDRPLAY"} /\ d.audio = s.audio /\ d.Play = s.Play
        /\ d.Irq = s.Irq /\ d.busy = s.busy /\ d.DriveState = s.DriveState
    BY <2>3, <2>4 DEF Drive
  <2>7. Moving(d)
    BY <2>3, <2>5, <2>6 DEF Moving
  <2> QED BY <1>1, <2>2, <2>3, <2>6, <2>7 DEF Kept, Executed, Commanded
<1>15. CASE i = "Reset"
  <2>1. d = [c EXCEPT !.StatP = c.StatP \cup {"SHELLOPEN"}, !.DriveState = "RESCAN_CD",
                      !.armed = c.armed \cup {"CDRLID"}]
    BY <1>1, <1>15 DEF Execute, Arm, Drive
  <2>2. d \in Drive
    BY <1>1, <2>1 DEF Drive, StatusBits, EventBits, DriveStates
  <2>3. /\ d.Stat = c.Stat /\ d.Reg2 = c.Reg2 /\ d.Result = c.Result /\ d.Reading = c.Reading
        /\ d.armed = c.armed \cup {"CDRLID"} /\ d.audio = c.audio /\ d.Play = c.Play
        /\ d.Irq = c.Irq /\ d.busy = c.busy
    BY <1>1, <2>1 DEF Drive
  <2>4. Moving(d)
    BY <2>2, <2>3 DEF Moving
  <2> QED BY <1>1, <2>3, <2>4 DEF Executed, Commanded
<1>16. CASE i = "Read"
  <2>1. d = DoRead(c) \/ d = DoPlay(c)
    BY <1>16 DEF Execute
  <2>2. /\ Moving(d) /\ d.Irq = c.Irq /\ d.busy = c.busy /\ d.Reg2 = c.Reg2
        /\ d.Result = c.Result /\ d.Stat = c.Stat
    BY <2>1, DoPlayMoves, DoReadMoves
  <2> QED BY <1>1, <1>16, <2>2 DEF Executed, Commanded
<1>17. CASE i \in {"Sync", "Setloc", "Mute", "Setmode", "Getmode"}
  <2>1. d = c
    BY <1>17 DEF Execute
  <2> QED BY <1>2, <2>1
<1>18. CommandKinds = {"Standby", "Stop", "Pause", "Init", "ReadT", "ID", "ReadToc"} \cup
                      {"Sync", "Nop", "Setloc", "Play", "Forward", "Mute", "Setmode", "Getmode",
                       "GetTN", "Seek", "Reset", "Read", "Undefined"}
  BY Kinds DEF CommandKinds
<1> QED
  BY <1>5, <1>6, <1>7, <1>8, <1>9, <1>10, <1>11, <1>12, <1>13, <1>14, <1>15, <1>16, <1>17, <1>18,
     Kinds

(* A stopped drive turns; one that has no disc answers with an error. *)
LEMMA SettleMoves ==
  ASSUME NEW c, NEW d, NEW i \in CommandKinds \cup SecondKinds, Executed(c, d, i),
         c.Result = i
  PROVE  LET e == Settle(d, i) IN
         /\ Moving(e) /\ Commanded(e) /\ e.Reg2 = c.Reg2 /\ e.Stat \in Causes
         /\ e.Result \in {i, "notready"} /\ e.Irq # "Read"
         /\ (e.Reading => c.Reading \/ i = "Read")
<1> DEFINE t == IF d.DriveState = "STOPPED" /\ i \in StartsRotating
                  THEN [d EXCEPT !.DriveState = "STANDBY", !.StatP = @ \cup {"ROTATING"}]
                  ELSE d
           e == IF i \notin NoBusyError /\ t.DriveState \in NotReady
                  THEN Answer(t, "notready", "DiskError") ELSE t
<1>1. Settle(d, i) = e
  BY DEF Settle
<1>2. d \in Drive /\ Moving(d) /\ Commanded(d)
  BY DEF Executed, Moving
<1>3. Executed(c, t, i)
  <2>1. CASE t = d
    BY <2>1
  <2>2. CASE t = [d EXCEPT !.DriveState = "STANDBY", !.StatP = d.StatP \cup {"ROTATING"}]
    <3> HIDE DEF t
    <3>1. t \in Drive
      BY <1>2, <2>2 DEF Drive, StatusBits, DriveStates
    <3>2. /\ t.Stat = d.Stat /\ t.Reg2 = d.Reg2 /\ t.Result = d.Result /\ t.Reading = d.Reading
          /\ t.armed = d.armed /\ t.audio = d.audio /\ t.Play = d.Play
          /\ t.Irq = d.Irq /\ t.busy = d.busy /\ t.DriveState = "STANDBY"
      BY <1>2, <2>2 DEF Drive
    <3> QED BY <3>1, <3>2 DEF Executed, Moving, Commanded, NotReady
  <2> QED BY <2>1, <2>2
<1> HIDE DEF t
<1>4. CASE e = t
  BY <1>1, <1>3, <1>4 DEF Executed
<1>5. CASE e = Answer(t, "notready", "DiskError")
  <2>1. t \in Drive
    BY <1>3 DEF Executed, Moving
  <2>2. e = [t EXCEPT !.Result = "notready", !.ResultReady = TRUE, !.Stat = "DiskError"]
    BY <1>5 DEF Answer
  <2> HIDE DEF e
  <2>3. e \in Drive
    BY <2>1, <2>2 DEF Drive, Causes
  <2>4. /\ e.Stat = "DiskError" /\ e.Reg2 = t.Reg2 /\ e.Result = "notready"
        /\ e.Reading = t.Reading /\ e.armed = t.armed /\ e.audio = t.audio /\ e.Play = t.Play
        /\ e.Irq = t.Irq /\ e.busy = t.busy /\ e.DriveState = t.DriveState
    BY <2>1, <2>2 DEF Drive
  <2>5. Moving(e) /\ Commanded(e)
    BY <1>3, <2>3, <2>4 DEF Executed, Moving, Commanded
  <2> QED BY <1>1, <1>3, <2>4, <2>5 DEF Executed, Causes
<1> QED BY <1>4, <1>5

-----------------------------------------------------------------------------
(* A step that leaves the saved state alone keeps the invariant if what it  *)
(* leaves is sound.                                                        *)
LEMMA StaysSound ==
  ASSUME CdInv, guest' = guest, lid' \in {"open", "closed"}, saved' = saved,
         announced' \in BOOLEAN, wanted' \in {"read", "stop"}, Sound(cdr', announced', wanted')
  PROVE  CdInv'
  BY DEF CdInv, Sound, Moving, Commanded, Told, Wanted

(* What setIrq announces. *)
LEMMA Announces ==
  ASSUME announced \in BOOLEAN, NEW c, SetIrq(c)
  PROVE  announced' \in BOOLEAN /\ Told(c, announced')
  BY DEF SetIrq, Told

LEMMA Unannounced ==
  ASSUME CdInv, UNCHANGED announced, NEW d, d.Stat = cdr.Stat, d.Result = cdr.Result,
         d.Reg2 = cdr.Reg2
  PROVE  announced' \in BOOLEAN /\ Told(d, announced')
  BY DEF CdInv, Sound, Told

(* An event that has to wait is armed once more. *)
LEMMA Waits ==
  ASSUME CdInv, NEW e \in EventBits, Reschedule(e), UNCHANGED <<guest, lid, saved, wanted>>
  PROVE  CdInv' /\ Replied
<1>1. cdr \in Drive /\ Moving(cdr) /\ Commanded(cdr) /\ Wanted(cdr, wanted)
  BY DEF CdInv, Sound, Moving
<1>2. cdr' = [cdr EXCEPT !.armed = cdr.armed \cup {e}] /\ UNCHANGED announced
  BY <1>1 DEF Reschedule, Arm, Drive
<1>3. cdr' \in Drive
  BY <1>1, <1>2 DEF Drive
<1>4. /\ cdr'.Stat = cdr.Stat /\ cdr'.Reg2 = cdr.Reg2 /\ cdr'.Result = cdr.Result
      /\ cdr'.Reading = cdr.Reading /\ cdr'.armed = cdr.armed \cup {e}
      /\ cdr'.audio = cdr.audio /\ cdr'.Play = cdr.Play /\ cdr'.Irq = cdr.Irq
      /\ cdr'.busy = cdr.busy /\ cdr'.DriveState = cdr.DriveState
  BY <1>1, <1>2 DEF Drive
<1>5. announced' \in BOOLEAN /\ Told(cdr', announced')
  BY <1>2, <1>4, Unannounced
<1>6. Sound(cdr', announced', wanted')
  BY <1>1, <1>3, <1>4, <1>5 DEF Moving, Commanded, Wanted, Sound
<1>7. CdInv'
  BY <1>5, <1>6, StaysSound DEF CdInv
<1> QED BY <1>4, <1>7 DEF Replied, Replaces

LEMMA StepCommand == CdInv /\ cdrInterrupt => CdInv' /\ Replied
<1> SUFFICES ASSUME CdInv, cdrInterrupt PROVE CdInv' /\ Replied
  OBVIOUS
<1> DEFINE i == IF cdr.Irq = "none" THEN "Sync" ELSE cdr.Irq
           c == [Answer(cdr, i, "Acknowledge") EXCEPT
                   !.busy = FALSE, !.IrqRepeated = FALSE, !.armed = @ \ {"CDR"}]
           b == [c EXCEPT !.Irq = "none"]
<1>1. cdr \in Drive /\ Moving(cdr) /\ Commanded(cdr) /\ Wanted(cdr, wanted)
      /\ announced \in BOOLEAN /\ wanted \in {"read", "stop"} /\ "CDR" \in EventBits
      /\ lid \in {"open", "closed"}
  BY DEF CdInv, Sound, Moving, EventBits
<1>2. UNCHANGED <<guest, lid, saved, wanted>>
  BY DEF cdrInterrupt
<1>3. i \in CommandKinds \cup SecondKinds /\ (i = "Read" => cdr.Irq = "Read")
      /\ i # "sector" /\ i # "none"
  <2>1. cdr.Irq \in (CommandKinds \ {"Sync"}) \cup SecondKinds \cup {"none"}
    BY <1>1 DEF Drive
  <2>2. "sector" \notin CommandKinds \cup SecondKinds /\ "Sync" \in CommandKinds
    BY Kinds DEF CommandKinds
  <2> QED BY <2>1, <2>2, Kinds
<1>4. CASE cdr.Stat # "NoIntr" /\ Reschedule("CDR")
  BY <1>1, <1>2, <1>4, Waits
<1>5. c = [cdr EXCEPT !.Result = i, !.ResultReady = TRUE, !.Stat = "Acknowledge", !.busy = FALSE,
                      !.IrqRepeated = FALSE, !.armed = cdr.armed \ {"CDR"}]
  <2> HIDE DEF i
  <2> QED BY <1>1 DEF Answer, Drive
<1>6. ASSUME cdr.Stat = "NoIntr", cdr' = Arm(c, "CDR"), SetIrq(cdr')
      PROVE  CdInv' /\ Replied
  <2> HIDE DEF i
  <2>1. cdr' = [cdr EXCEPT !.Result = i, !.ResultReady = TRUE, !.Stat = "Acknowledge",
                           !.busy = FALSE, !.IrqRepeated = FALSE,
                           !.armed = (cdr.armed \ {"CDR"}) \cup {"CDR"}]
    BY <1>1, <1>5, <1>6 DEF Arm, Drive
  <2>2. cdr' \in Drive
    BY <1>1, <1>3, <2>1 DEF Drive, Causes
  <2>3. /\ cdr'.Stat = "Acknowledge" /\ cdr'.Reg2 = cdr.Reg2
        /\ cdr'.Reading = cdr.Reading /\ cdr'.armed = (cdr.armed \ {"CDR"}) \cup {"CDR"}
        /\ cdr'.audio = cdr.audio /\ cdr'.Play = cdr.Play /\ cdr'.Irq = cdr.Irq
        /\ cdr'.DriveState = cdr.DriveState
    BY <1>1, <2>1 DEF Drive
  <2>4. announced' \in BOOLEAN /\ Told(cdr', announced')
    BY <1>1, <1>6, Announces
  <2>5. Sound(cdr', announced', wanted')
    BY <1>1, <1>2, <2>2, <2>3, <2>4 DEF Moving, Commanded, Wanted, Sound
  <2>6. CdInv'
    BY <1>1, <1>2, <2>4, <2>5, StaysSound
  <2> QED BY <1>6, <2>3, <2>6 DEF Replied
<1>7. ASSUME cdr.Stat = "NoIntr", NEW d \in Execute(b, i), cdr' = Settle(d, i), SetIrq(cdr')
      PROVE  CdInv' /\ Replied
  <2>1. b = [cdr EXCEPT !.Result = i, !.ResultReady = TRUE, !.Stat = "Acknowledge", !.busy = FALSE,
                        !.IrqRepeated = FALSE, !.armed = cdr.armed \ {"CDR"}, !.Irq = "none"]
    <3> HIDE DEF i
    <3> QED BY <1>1, <1>5 DEF Drive
  <2> HIDE DEF i, b
  <2>2. b \in Drive
    BY <1>1, <1>3, <2>1 DEF Drive, Causes
  <2>3. /\ b.Stat = "Acknowledge" /\ b.Reg2 = cdr.Reg2 /\ b.Reading = cdr.Reading
        /\ b.armed = cdr.armed \ {"CDR"} /\ b.Result = i /\ b.audio = cdr.audio
        /\ b.Play = cdr.Play /\ b.Irq = "none" /\ b.busy = FALSE /\ b.DriveState = cdr.DriveState
    BY <1>1, <2>1 DEF Drive
  <2>4. Moving(b)
    BY <1>1, <2>2, <2>3 DEF Moving
  <2>5. Executed(b, d, i)
    BY <1>3, <1>7, <2>3, <2>4, ExecuteMoves
  <2>6. /\ Moving(cdr') /\ Commanded(cdr') /\ cdr'.Result \in {i, "notready"}
        /\ cdr'.Irq # "Read" /\ (cdr'.Reading => b.Reading \/ i = "Read")
    BY <1>3, <1>7, <2>3, <2>5, SettleMoves
  <2>7. announced' \in BOOLEAN /\ Told(cdr', announced')
    BY <1>1, <1>7, Announces
  <2>8. Wanted(cdr', wanted')
    BY <1>1, <1>2, <1>3, <2>3, <2>6 DEF Wanted
  <2>9. CdInv'
    BY <1>1, <1>2, <2>6, <2>7, <2>8, StaysSound DEF Sound
  <2> QED BY <1>3, <1>7, <2>6, <2>9 DEF Replied
<1> QED BY <1>4, <1>6, <1>7 DEF cdrInterrupt

(* The read event: a sector is delivered only where nothing waits. *)
LEMMA StepSector == CdInv /\ cdrReadInterrupt => CdInv' /\ Replied
<1> SUFFICES ASSUME CdInv, cdrReadInterrupt PROVE CdInv' /\ Replied
  OBVIOUS
<1> DEFINE c == [cdr EXCEPT !.armed = @ \ {"CDREAD"}]
<1>1. cdr \in Drive /\ Moving(cdr) /\ Commanded(cdr) /\ Wanted(cdr, wanted)
      /\ announced \in BOOLEAN /\ wanted \in {"read", "stop"} /\ "CDREAD" \in EventBits
      /\ lid \in {"open", "closed"}
  BY DEF CdInv, Sound, Moving, EventBits
<1>2. UNCHANGED <<guest, lid, saved, wanted>>
  BY DEF cdrReadInterrupt
<1>3. CASE ~cdr.Reading /\ cdr' = c /\ UNCHANGED announced
  <2>1. cdr' \in Drive
    BY <1>1, <1>3 DEF Drive
  <2>2. /\ cdr'.Stat = cdr.Stat /\ cdr'.Reg2 = cdr.Reg2 /\ cdr'.Result = cdr.Result
        /\ cdr'.Reading = cdr.Reading /\ cdr'.armed = cdr.armed \ {"CDREAD"}
        /\ cdr'.audio = cdr.audio /\ cdr'.Play = cdr.Play /\ cdr'.Irq = cdr.Irq
        /\ cdr'.busy = cdr.busy /\ cdr'.DriveState = cdr.DriveState
    BY <1>1, <1>3 DEF Drive
  <2>3. announced' \in BOOLEAN /\ Told(cdr', announced')
    BY <1>3, <2>2, Unannounced
  <2>4. Sound(cdr', announced', wanted')
    BY <1>1, <1>2, <1>3, <2>1, <2>2, <2>3 DEF Moving, Commanded, Wanted, Sound
  <2>5. CdInv'
    BY <1>1, <1>2, <2>3, <2>4, StaysSound
  <2> QED BY <2>2, <2>5 DEF Replied, Replaces
<1>4. CASE cdr.Reading /\ MustWait(cdr) /\ Reschedule("CDREAD")
  BY <1>1, <1>2, <1>4, Waits
<1> DEFINE statp == (cdr.StatP \cup {"READ", "ROTATING"}) \ {"SEEK"}
           armed == (cdr.armed \ {"CDREAD"}) \cup {"CDREAD"}
           sector(stat) ==
             [cdr EXCEPT !.Result = "sector", !.ResultReady = TRUE, !.Seeked = "DONE",
                         !.StatP = statp, !.armed = armed, !.Stat = stat]
<1>5. statp \in SUBSET StatusBits /\ armed \in SUBSET EventBits /\ "CDREAD" \in armed
      /\ ("CDR" \in cdr.armed => "CDR" \in armed)
      /\ ("CDRPLAY" \in cdr.armed => "CDRPLAY" \in armed)
      /\ ("CDRLID" \in cdr.armed => "CDRLID" \in armed)
  BY <1>1 DEF Drive, StatusBits
<1>6. Sector(c) = [cdr EXCEPT !.Result = "sector", !.ResultReady = TRUE, !.Seeked = "DONE",
                              !.StatP = statp, !.armed = armed]
  BY <1>1 DEF Sector, Arm, Drive
<1> HIDE DEF statp, armed
<1>7. ASSUME cdr.Reading, ~MustWait(cdr), NEW stat \in {"NoIntr", "DiskError", "DataReady"},
             cdr' = sector(stat), (stat # "DataReady" /\ UNCHANGED announced) \/ SetIrq(cdr')
      PROVE  CdInv' /\ Replied
  <2>1. stat \in Causes \cup {"NoIntr"}
    BY DEF Causes
  <2>2. cdr' \in Drive
    BY <1>1, <1>5, <1>7, <2>1 DEF Drive
  <2>4. /\ cdr'.Stat = stat /\ cdr'.Reg2 = cdr.Reg2 /\ cdr'.Result = "sector"
        /\ cdr'.Reading = cdr.Reading /\ cdr'.armed = armed
        /\ cdr'.audio = cdr.audio /\ cdr'.Play = cdr.Play /\ cdr'.Irq = cdr.Irq
        /\ cdr'.busy = cdr.busy /\ cdr'.DriveState = cdr.DriveState
    BY <1>1, <1>7 DEF Drive
  <2>5. announced' \in BOOLEAN /\ Told(cdr', announced')
    <3>1. CASE SetIrq(cdr')
      BY <1>1, <3>1, Announces
    <3>2. CASE stat # "DataReady" /\ UNCHANGED announced
      BY <1>1, <2>4, <3>2 DEF Told
    <3> QED BY <1>7, <3>1, <3>2
  <2>6. Sound(cdr', announced', wanted')
    BY <1>1, <1>2, <1>5, <2>2, <2>4, <2>5 DEF Moving, Commanded, Wanted, Sound
  <2>7. CdInv'
    BY <1>1, <1>2, <2>5, <2>6, StaysSound
  <2>8. wanted = "read" /\ cdr.Stat = "NoIntr"
    BY <1>1, <1>7 DEF Wanted, MustWait
  <2> QED BY <2>7, <2>8 DEF Replied
<1>8. ASSUME NEW stat PROVE [Sector(c) EXCEPT !.Stat = stat] = sector(stat)
  BY <1>1, <1>6 DEF Drive
<1>9. cdr.Stat = "NoIntr" => Sector(c) = sector("NoIntr")
  <2>1. Sector(c) \in Drive /\ Sector(c).Stat = cdr.Stat
    <3>1. cdr \in Drive /\ statp \in SUBSET StatusBits /\ armed \in SUBSET EventBits
      BY <1>1, <1>5
    <3> DEFINE read == [cdr EXCEPT !.Result = "sector", !.ResultReady = TRUE, !.Seeked = "DONE"]
    <3>2. read \in Drive /\ read.Stat = cdr.Stat
      BY <3>1 DEF Drive
    <3>3. Sector(c) = [read EXCEPT !.StatP = statp, !.armed = armed]
      BY <3>1, <1>6 DEF Drive
    <3> HIDE DEF read
    <3> QED BY <3>1, <3>2, <3>3 DEF Drive
  <2> HIDE DEF sector, c
  <2>2. Sector(c) = [Sector(c) EXCEPT !.Stat = Sector(c).Stat]
    BY <2>1 DEF Drive
  <2> QED BY <1>8, <2>1, <2>2
<1>10. ASSUME cdr.Reading, ~MustWait(cdr), cdr' = Sector(c), UNCHANGED announced
       PROVE  CdInv' /\ Replied
  <2>1. cdr.Stat = "NoIntr"
    BY <1>10 DEF MustWait
  <2> HIDE DEF sector, c
  <2> QED BY <1>7, <1>9, <1>10, <2>1
<1> HIDE DEF c, sector
<1>11. ASSUME cdr.Reading, ~MustWait(cdr), cdr' = [Sector(c) EXCEPT !.Stat = "DiskError"],
              UNCHANGED announced
       PROVE  CdInv' /\ Replied
  BY <1>7, <1>8, <1>11
<1>12. ASSUME cdr.Reading, ~MustWait(cdr), cdr' = [Sector(c) EXCEPT !.Stat = "DataReady"],
              SetIrq(cdr')
       PROVE  CdInv' /\ Replied
  BY <1>7, <1>8, <1>12
<1> QED BY <1>3, <1>4, <1>10, <1>11, <1>12 DEF cdrReadInterrupt, c
-----------------------------------------------------------------------------
(* The play event, with the seeks it completes.                            *)

(* What each of its helpers may make of the drive c: d, in which the event  *)
(* itself need not be armed yet.                                           *)
Answers(c, d) ==
  \/ d.Stat = c.Stat /\ (c.Stat # "NoIntr" => d.Result = c.Result)
  \/ /\ c.Stat = "NoIntr" /\ d.Stat \in Causes
     /\ ~(d.Stat \in {"DataReady", "DiskError"} /\ d.Result = "sector")

Goes(c, d) ==
  /\ d \in Drive /\ d.audio = d.Play
  /\ d.Reading => "CDREAD" \in d.armed
  /\ d.DriveState \in NotReady => "CDRLID" \in d.armed
  /\ Commanded(d)
  /\ d.Reg2 = c.Reg2 /\ d.Irq = c.Irq /\ d.Reading = c.Reading
  /\ Answers(c, d)

LEMMA StopCddaGoes ==
  ASSUME NEW c, NEW d, Goes(c, d)
  PROVE  Goes(c, StopCdda(d))
<1> DEFINE e == StopCdda(d)
<1>1. CASE ~d.Play
  BY <1>1 DEF StopCdda
<1>2. CASE d.Play
  <2>1. e = [d EXCEPT !.audio = FALSE, !.StatP = @ \ {"PLAY"}, !.Play = FALSE]
    BY <1>2 DEF StopCdda
  <2> HIDE DEF e
  <2>2. e \in Drive
    BY <2>1 DEF Goes, Drive
  <2>3. /\ e.audio = FALSE /\ e.Play = FALSE /\ e.Stat = d.Stat /\ e.Result = d.Result
        /\ e.Reg2 = d.Reg2 /\ e.Irq = d.Irq /\ e.busy = d.busy /\ e.armed = d.armed
        /\ e.Reading = d.Reading /\ e.DriveState = d.DriveState
    BY <2>1 DEF Goes, Drive
  <2>4. Goes(c, e)
    BY <2>2, <2>3 DEF Goes, Answers, Commanded
  <2> QED BY <2>4 DEF e
<1> QED BY <1>1, <1>2

LEMMA TrackGoes ==
  ASSUME NEW c, NEW d, Goes(c, d), NEW changed \in BOOLEAN
  PROVE  Goes(c, [d EXCEPT !.TrackChanged = changed])
<1> DEFINE e == [d EXCEPT !.TrackChanged = changed]
<1>1. e \in Drive
  BY DEF Goes, Drive
<1>2. /\ e.audio = d.audio /\ e.Play = d.Play /\ e.Stat = d.Stat /\ e.Result = d.Result
      /\ e.Reg2 = d.Reg2 /\ e.Irq = d.Irq /\ e.busy = d.busy /\ e.armed = d.armed
      /\ e.Reading = d.Reading /\ e.DriveState = d.DriveState
  BY DEF Goes, Drive
<1> HIDE DEF e
<1>3. Goes(c, e)
  BY <1>1, <1>2 DEF Goes, Answers, Commanded
<1> QED BY <1>3 DEF e

(* A response the play event may give, where none waits. *)
LEMMA ReportGoes ==
  ASSUME NEW c, NEW d, Goes(c, d), d.Stat = "NoIntr", NEW e,
         e \in Drive, e.audio = d.audio, e.Play = d.Play, e.Reg2 = d.Reg2, e.Irq = d.Irq,
         e.busy = d.busy, e.armed = d.armed, e.Reading = d.Reading,
         e.DriveState = d.DriveState,
         e.Stat \in {"Complete", "DataEnd"} \/ (e.Stat = "DataReady" /\ e.Result = "report")
         \/ e.Stat = "NoIntr"
  PROVE  Goes(c, e)
<1>1. c.Stat = "NoIntr"
  BY DEF Goes, Answers, Causes
<1>2. Answers(c, e)
  BY <1>1 DEF Answers, Causes
<1> QED BY <1>2 DEF Goes, Commanded

LEMMA AutopauseGoes ==
  ASSUME NEW c, NEW d, Goes(c, d)
  PROVE  Goes(c, Autopause(d))
<1> DEFINE e == [d EXCEPT !.Stat = "DataEnd"]
           r == Answer(d, "report", "DataReady")
<1>1. CASE Autopause(d) = d
  BY <1>1
<1>2. CASE d.Stat = "NoIntr" /\ Autopause(d) = StopCdda(e)
  <2>1. e \in Drive
    BY DEF Goes, Drive, Causes
  <2>2. /\ e.audio = d.audio /\ e.Play = d.Play /\ e.Stat = "DataEnd"
        /\ e.Reg2 = d.Reg2 /\ e.Irq = d.Irq /\ e.busy = d.busy /\ e.armed = d.armed
        /\ e.Reading = d.Reading /\ e.DriveState = d.DriveState
    BY DEF Goes, Drive
  <2> HIDE DEF e
  <2>3. Goes(c, e)
    BY <1>2, <2>1, <2>2, ReportGoes
  <2> QED BY <1>2, <2>3, StopCddaGoes
<1>3. CASE d.Stat = "NoIntr" /\ Autopause(d) = r
  <2>1. r = [d EXCEPT !.Result = "report", !.ResultReady = TRUE, !.Stat = "DataReady"]
    BY DEF Answer
  <2> HIDE DEF r
  <2>2. r \in Drive
    BY <2>1 DEF Goes, Drive, Causes
  <2>3. /\ r.audio = d.audio /\ r.Play = d.Play /\ r.Stat = "DataReady" /\ r.Result = "report"
        /\ r.Reg2 = d.Reg2 /\ r.Irq = d.Irq /\ r.busy = d.busy /\ r.armed = d.armed
        /\ r.Reading = d.Reading /\ r.DriveState = d.DriveState
    BY <2>1 DEF Goes, Drive
  <2> QED BY <1>3, <2>2, <2>3, ReportGoes
<1> HIDE DEF e, r
<1> QED BY <1>1, <1>2, <1>3 DEF Autopause, e, r

LEMMA SeekDoneGoes ==
  ASSUME NEW c, NEW d, Goes(c, d), d.Stat = "NoIntr"
  PROVE  Goes(c, SeekDone(d))
<1> DEFINE statp == (d.StatP \cup {"ROTATING"}) \ {"SEEK"}
           e(stat) == [d EXCEPT !.Result = "seek", !.ResultReady = TRUE, !.Seeked = "DONE",
                                !.StatP = statp, !.TrackChanged = FALSE, !.Stat = stat]
<1>1. statp \in SUBSET StatusBits
  BY DEF Goes, Drive, StatusBits
<1>2. SeekDone(d) = e("Complete") \/ SeekDone(d) = e("NoIntr")
  <2>1. d = [d EXCEPT !.Stat = "NoIntr"]
    BY DEF Goes, Drive
  <2>2. CASE d.Irq = "none"
    BY <2>2 DEF SeekDone, Goes, Drive
  <2>3. CASE d.Irq # "none"
    <3> DEFINE f == [d EXCEPT !.Result = "seek", !.ResultReady = TRUE, !.Seeked = "DONE",
                              !.StatP = statp, !.TrackChanged = FALSE]
    <3>1. SeekDone(d) = f
      BY <2>3 DEF SeekDone
    <3> HIDE DEF statp
    <3>2. f \in Drive /\ f.Stat = "NoIntr"
      BY <1>1 DEF Goes, Drive
    <3>3. e("NoIntr") = [f EXCEPT !.Stat = "NoIntr"]
      BY DEF Goes, Drive
    <3> HIDE DEF f, e
    <3>4. f = [f EXCEPT !.Stat = "NoIntr"]
      BY <3>2 DEF Drive
    <3> QED BY <3>1, <3>3, <3>4
  <2> QED BY <2>2, <2>3
<1> HIDE DEF statp
<1>3. ASSUME NEW stat \in {"Complete", "NoIntr"} PROVE Goes(c, e(stat))
  <2> DEFINE f == e(stat)
  <2>1. f \in Drive
    BY <1>1 DEF Goes, Drive, Causes
  <2>2. /\ f.audio = d.audio /\ f.Play = d.Play /\ f.Stat = stat
        /\ f.Reg2 = d.Reg2 /\ f.Irq = d.Irq /\ f.busy = d.busy /\ f.armed = d.armed
        /\ f.Reading = d.Reading /\ f.DriveState = d.DriveState
    BY DEF Goes, Drive
  <2> HIDE DEF e
  <2> QED BY <2>1, <2>2, ReportGoes
<1> HIDE DEF e
<1> QED BY <1>2, <1>3

LEMMA PlayOnGoes ==
  ASSUME NEW c, NEW d, Goes(c, d), NEW e \in PlayOn(d)
  PROVE  Goes(c, e) /\ (e.Play => "CDRPLAY" \in e.armed)
<1> DEFINE after == {Autopause(d), Autopause(EndOfDisc(d))}
<1>1. ASSUME NEW x \in after PROVE Goes(c, x)
  <2>1. Goes(c, StopCdda(d))
    BY StopCddaGoes
  <2>2. Goes(c, EndOfDisc(d))
    BY <2>1, TrackGoes DEF EndOfDisc
  <2> QED BY <2>2, AutopauseGoes
<1>2. CASE ~d.Play
  BY <1>2 DEF PlayOn
<1>3. ASSUME NEW x \in after, NEW changed \in BOOLEAN,
             e = Arm([x EXCEPT !.TrackChanged = changed], "CDRPLAY")
      PROVE  Goes(c, e) /\ "CDRPLAY" \in e.armed
  <2> DEFINE y == [x EXCEPT !.TrackChanged = changed]
  <2>1. Goes(c, y)
    BY <1>1, TrackGoes
  <2>2. e = [y EXCEPT !.armed = @ \cup {"CDRPLAY"}]
    BY <1>3 DEF Arm
  <2> HIDE DEF y
  <2>3. e \in Drive
    BY <2>1, <2>2 DEF Goes, Drive, EventBits
  <2>4. /\ e.audio = y.audio /\ e.Play = y.Play /\ e.Stat = y.Stat /\ e.Result = y.Result
        /\ e.Reg2 = y.Reg2 /\ e.Irq = y.Irq /\ e.busy = y.busy
        /\ e.armed = y.armed \cup {"CDRPLAY"}
        /\ e.Reading = y.Reading /\ e.DriveState = y.DriveState
    BY <2>1, <2>2 DEF Goes, Drive
  <2> QED BY <2>1, <2>3, <2>4 DEF Goes, Answers, Commanded
<1>4. CASE d.Play
  <2>1. \/ e \in after /\ ~e.Play
        \/ \E x \in after, changed \in BOOLEAN :
             e = Arm([x EXCEPT !.TrackChanged = changed], "CDRPLAY")
    BY <1>4 DEF PlayOn
  <2> HIDE DEF after
  <2> QED BY <1>1, <1>3, <2>1
<1> QED BY <1>2, <1>4

LEMMA StepPlay == CdInv /\ cdrPlayInterrupt => CdInv' /\ Replied
<1> SUFFICES ASSUME CdInv, cdrPlayInterrupt PROVE CdInv' /\ Replied
  OBVIOUS
<1> DEFINE c == [cdr EXCEPT !.armed = @ \ {"CDRPLAY"}]
           b == IF cdr.Seeked = "PENDING" THEN SeekDone(c) ELSE c
<1>1. cdr \in Drive /\ Moving(cdr) /\ Commanded(cdr) /\ Wanted(cdr, wanted)
      /\ announced \in BOOLEAN /\ wanted \in {"read", "stop"} /\ "CDRPLAY" \in EventBits
      /\ lid \in {"open", "closed"}
  BY DEF CdInv, Sound, Moving, EventBits
<1>2. UNCHANGED <<guest, lid, saved, wanted>>
  BY DEF cdrPlayInterrupt
<1>3. CASE Reschedule("CDRPLAY")
  BY <1>1, <1>2, <1>3, Waits
<1>4. ASSUME cdr.Seeked = "PENDING" => cdr.Stat = "NoIntr", cdr' \in PlayOn(b),
             IF cdr'.Stat # cdr.Stat THEN SetIrq(cdr') ELSE UNCHANGED announced
      PROVE  CdInv' /\ Replied
  <2>1. c \in Drive
    BY <1>1 DEF Drive
  <2>2. /\ c.audio = cdr.audio /\ c.Play = cdr.Play /\ c.Stat = cdr.Stat /\ c.Result = cdr.Result
        /\ c.Reg2 = cdr.Reg2 /\ c.Irq = cdr.Irq /\ c.busy = cdr.busy
        /\ c.armed = cdr.armed \ {"CDRPLAY"}
        /\ c.Reading = cdr.Reading /\ c.DriveState = cdr.DriveState
    BY <1>1 DEF Drive
  <2> HIDE DEF c
  <2>3. Goes(cdr, c)
    BY <1>1, <2>1, <2>2 DEF Goes, Answers, Moving, Commanded
  <2>4. Goes(cdr, b)
    BY <1>4, <2>2, <2>3, SeekDoneGoes
  <2> HIDE DEF b
  <2>5. Goes(cdr, cdr') /\ (cdr'.Play => "CDRPLAY" \in cdr'.armed)
    BY <1>4, <2>4, PlayOnGoes
  <2>6. announced' \in BOOLEAN /\ Told(cdr', announced')
    <3>1. CASE SetIrq(cdr')
      BY <1>1, <3>1, Announces
    <3>2. CASE cdr'.Stat = cdr.Stat /\ UNCHANGED announced
      <4>1. CASE cdr.Stat = "NoIntr"
        BY <1>1, <3>2, <4>1 DEF Told
      <4>2. CASE cdr.Stat # "NoIntr"
        BY <2>5, <3>2, <4>2, Unannounced DEF Goes, Answers
      <4> QED BY <4>1, <4>2
    <3> QED BY <1>4, <3>1, <3>2
  <2>7. Sound(cdr', announced', wanted')
    BY <1>1, <1>2, <2>5, <2>6 DEF Goes, Moving, Wanted, Sound
  <2>8. CdInv'
    BY <1>1, <1>2, <2>6, <2>7, StaysSound
  <2>9. Answers(cdr, cdr')
    BY <2>5 DEF Goes
  <2> QED BY <2>8, <2>9 DEF Answers, Replied, Replaces
<1> HIDE DEF b
<1> QED BY <1>3, <1>4 DEF cdrPlayInterrupt, b
-----------------------------------------------------------------------------
(* The lid event, and the frontend's own call of it.                       *)

(* A drive in which the lid event need not be armed. *)
Running(c) ==
  /\ c \in Drive /\ c.audio = c.Play
  /\ c.Reading => "CDREAD" \in c.armed
  /\ c.Play => "CDRPLAY" \in c.armed

LEMMA StopReadingRuns ==
  ASSUME NEW c, Running(c), NEW d \in StopReadingInHandler(c) \cup {StopReading(c)}
  PROVE  Running(d) /\ Kept(c, d)
<1>1. CASE d = StopReading(c)
  BY <1>1 DEF StopReading, Running, Drive, Kept, EventBits
<1>2. CASE d = [StopReading(c) EXCEPT !.armed = c.armed]
  BY <1>2 DEF StopReading, Running, Drive, Kept, EventBits
<1> QED BY <1>1, <1>2 DEF StopReadingInHandler

LEMMA LidArms ==
  ASSUME NEW c, Running(c), NEW status \in SUBSET StatusBits, NEW state \in DriveStates,
         NEW d, d = Arm([c EXCEPT !.StatP = status, !.DriveState = state], "CDRLID")
  PROVE  Moving(d) /\ Kept(c, d)
<1>1. d = [c EXCEPT !.StatP = status, !.DriveState = state, !.armed = c.armed \cup {"CDRLID"}]
  BY DEF Running, Arm, Drive
<1>2. d \in Drive
  <2>1. c \in Drive /\ c.armed \cup {"CDRLID"} \in SUBSET EventBits
    BY DEF Running, Drive, EventBits
  <2> QED BY <1>1, <2>1 DEF Drive
<1>3. /\ d.audio = c.audio /\ d.Play = c.Play /\ d.Stat = c.Stat /\ d.Result = c.Result
      /\ d.Reg2 = c.Reg2 /\ d.Irq = c.Irq /\ d.busy = c.busy
      /\ d.armed = c.armed \cup {"CDRLID"} /\ d.Reading = c.Reading
  BY <1>1 DEF Running, Drive
<1> QED BY <1>2, <1>3 DEF Running, Moving, Kept

LEMMA KeptTwice ==
  ASSUME NEW c, NEW d, NEW e, Kept(c, d), Kept(d, e)
  PROVE  Kept(c, e)
  BY DEF Kept

LEMMA LidSeekMoves ==
  ASSUME NEW c, Running(c), NEW open, NEW inHandler \in BOOLEAN,
         NEW d \in LidSeek(c, open, inHandler)
  PROVE  Moving(d) /\ Kept(c, d)
<1>1. c \in Drive /\ c.StatP \in SUBSET StatusBits /\ c.DriveState \in DriveStates
      /\ "RESCAN_CD" \in DriveStates /\ "LID_OPEN" \in DriveStates
      /\ "PREPARE_CD" \in DriveStates /\ "STANDBY" \in DriveStates
      /\ c.StatP \cup {"ROTATING"} \in SUBSET StatusBits
      /\ c.StatP \cup {"SEEK"} \in SUBSET StatusBits
  BY DEF Running, Drive, DriveStates, StatusBits
<1>2. CASE c.DriveState \in {"STANDBY", "STOPPED"}
  <2> DEFINE b == [c EXCEPT !.StatP = @ \ {"SEEK"}]
  <2>1. b \in Drive
    BY <1>1 DEF Drive
  <2>2. /\ b.audio = c.audio /\ b.Play = c.Play /\ b.Stat = c.Stat /\ b.Result = c.Result
        /\ b.Reg2 = c.Reg2 /\ b.Irq = c.Irq /\ b.busy = c.busy /\ b.armed = c.armed
        /\ b.Reading = c.Reading /\ b.DriveState = c.DriveState
    BY <1>1 DEF Drive
  <2>3. d = b \/ d = Arm([StopCdda(b) EXCEPT !.DriveState = "LID_OPEN"], "CDRLID")
    BY <1>2 DEF LidSeek
  <2> HIDE DEF b
  <2>4. Moving(b) /\ Kept(c, b)
    BY <1>2, <2>1, <2>2 DEF Running, Moving, Kept, NotReady
  <2>5. CASE d = Arm([StopCdda(b) EXCEPT !.DriveState = "LID_OPEN"], "CDRLID")
    <3> DEFINE s == StopCdda(b)
    <3>1. Moving(s) /\ Kept(b, s)
      BY <2>4, StopCddaMoves
    <3> HIDE DEF s
    <3>2. s \in Drive /\ s.StatP \in SUBSET StatusBits /\ Running(s)
      BY <3>1 DEF Moving, Running, Drive
    <3>3. [s EXCEPT !.DriveState = "LID_OPEN"]
            = [s EXCEPT !.StatP = s.StatP, !.DriveState = "LID_OPEN"]
      BY <3>2 DEF Drive
    <3>4. d = Arm([s EXCEPT !.StatP = s.StatP, !.DriveState = "LID_OPEN"], "CDRLID")
      BY <2>5, <3>3 DEF s
    <3>5. Moving(d) /\ Kept(s, d)
      BY <1>1, <3>2, <3>4, LidArms
    <3> QED BY <2>4, <3>1, <3>5, KeptTwice
  <2> QED BY <2>3, <2>4, <2>5
<1>3. CASE c.DriveState = "LID_OPEN" /\ "SHELLOPEN" \notin c.StatP
  <2>1. PICK s \in StopReadingInHandler(c) \cup {StopReading(c)} :
          d = Arm([s EXCEPT !.StatP = @ \cup {"SHELLOPEN"}], "CDRLID")
    BY <1>3 DEF LidSeek
  <2>2. Running(s) /\ Kept(c, s)
    BY <2>1, StopReadingRuns
  <2>3. s \in Drive /\ s.StatP \cup {"SHELLOPEN"} \in SUBSET StatusBits /\ s.DriveState \in DriveStates
    BY <2>2 DEF Running, Drive, StatusBits
  <2>4. [s EXCEPT !.StatP = @ \cup {"SHELLOPEN"}]
          = [s EXCEPT !.StatP = s.StatP \cup {"SHELLOPEN"}, !.DriveState = s.DriveState]
    BY <2>3 DEF Drive
  <2>5. Moving(d) /\ Kept(s, d)
    BY <2>1, <2>2, <2>3, <2>4, LidArms
  <2> QED BY <2>2, <2>5, KeptTwice
<1>4. CASE c.DriveState = "LID_OPEN" /\ "SHELLOPEN" \in c.StatP
  <2>1. d = Recheck(c, open)
    BY <1>4 DEF LidSeek
  <2>2. PICK status \in SUBSET StatusBits, state \in DriveStates :
          d = Arm([c EXCEPT !.StatP = status, !.DriveState = state], "CDRLID")
    <3>1. CASE "ROTATING" \in c.StatP
      <4>1. [c EXCEPT !.StatP = @ \ {"ROTATING"}]
              = [c EXCEPT !.StatP = c.StatP \ {"ROTATING"}, !.DriveState = c.DriveState]
        BY <1>1 DEF Drive
      <4>2. c.StatP \ {"ROTATING"} \in SUBSET StatusBits
        BY <1>1
      <4> QED BY <1>1, <2>1, <3>1, <4>1, <4>2 DEF Recheck
    <3>2. CASE "ROTATING" \notin c.StatP /\ ~open
      <4>1. [c EXCEPT !.DriveState = "RESCAN_CD"]
              = [c EXCEPT !.StatP = c.StatP, !.DriveState = "RESCAN_CD"]
        BY <1>1 DEF Drive
      <4> QED BY <1>1, <2>1, <3>2, <4>1 DEF Recheck
    <3>3. CASE "ROTATING" \notin c.StatP /\ open
      <4>1. c = [c EXCEPT !.StatP = c.StatP, !.DriveState = c.DriveState]
        BY <1>1 DEF Drive
      <4>2. d = Arm(c, "CDRLID")
        BY <2>1, <3>3 DEF Recheck
      <4> QED BY <1>1, <4>1, <4>2
    <3> QED BY <3>1, <3>2, <3>3
  <2> QED BY <2>2, LidArms
<1>5. CASE c.DriveState = "RESCAN_CD"
  <2>1. d = Arm([c EXCEPT !.StatP = @ \cup {"ROTATING"}, !.DriveState = "PREPARE_CD"], "CDRLID")
    BY <1>5 DEF LidSeek
  <2>2. [c EXCEPT !.StatP = @ \cup {"ROTATING"}, !.DriveState = "PREPARE_CD"]
          = [c EXCEPT !.StatP = c.StatP \cup {"ROTATING"}, !.DriveState = "PREPARE_CD"]
    BY <1>1 DEF Drive
  <2> QED BY <1>1, <2>1, <2>2, LidArms
<1>6. CASE c.DriveState = "PREPARE_CD"
  <2>1. d = Arm([c EXCEPT !.StatP = @ \cup {"SEEK"}, !.DriveState = "STANDBY"], "CDRLID")
    BY <1>6 DEF LidSeek
  <2>2. [c EXCEPT !.StatP = @ \cup {"SEEK"}, !.DriveState = "STANDBY"]
          = [c EXCEPT !.StatP = c.StatP \cup {"SEEK"}, !.DriveState = "STANDBY"]
    BY <1>1 DEF Drive
  <2> QED BY <1>1, <2>1, <2>2, LidArms
<1> QED BY <1>1, <1>2, <1>3, <1>4, <1>5, <1>6 DEF DriveStates

(* A step of which the guest sees nothing. *)
LEMMA UnseenStep ==
  ASSUME CdInv, Moving(cdr'), Kept(cdr, cdr'), guest' = guest, lid' \in {"open", "closed"},
         UNCHANGED <<saved, announced, wanted>>
  PROVE  CdInv' /\ Replied
<1>1. Commanded(cdr) /\ Wanted(cdr, wanted) /\ Told(cdr, announced)
      /\ announced \in BOOLEAN /\ wanted \in {"read", "stop"}
  BY DEF CdInv, Sound
<1>2. Sound(cdr', announced', wanted')
  BY <1>1 DEF Sound, Kept, Commanded, Wanted, Told
<1>3. CdInv'
  BY <1>1, <1>2, StaysSound
<1> QED BY <1>3 DEF Replied, Replaces, Kept

LEMMA StepLid == CdInv /\ cdrLidSeekInterrupt => CdInv' /\ Replied
<1> SUFFICES ASSUME CdInv, cdrLidSeekInterrupt PROVE CdInv' /\ Replied
  OBVIOUS
<1> DEFINE c == [cdr EXCEPT !.armed = @ \ {"CDRLID"}]
<1>1. cdr \in Drive /\ Moving(cdr) /\ lid \in {"open", "closed"}
  BY DEF CdInv, Sound, Moving
<1>2. c \in Drive
  BY <1>1 DEF Drive
<1>3. /\ c.audio = cdr.audio /\ c.Play = cdr.Play /\ c.Stat = cdr.Stat /\ c.Result = cdr.Result
      /\ c.Reg2 = cdr.Reg2 /\ c.Irq = cdr.Irq /\ c.busy = cdr.busy
      /\ c.armed = cdr.armed \ {"CDRLID"} /\ c.Reading = cdr.Reading
  BY <1>1 DEF Drive
<1>4. cdr' \in LidSeek(c, lid = "open", TRUE) /\ UNCHANGED <<guest, lid, saved, announced, wanted>>
  BY DEF cdrLidSeekInterrupt
<1> HIDE DEF c
<1>5. Running(c) /\ Kept(cdr, c)
  BY <1>1, <1>2, <1>3 DEF Running, Moving, Kept
<1>6. Moving(cdr') /\ Kept(c, cdr')
  BY <1>4, <1>5, LidSeekMoves
<1> QED BY <1>1, <1>4, <1>5, <1>6, KeptTwice, UnseenStep

LEMMA StepOpenLid == CdInv /\ LidInterrupt => CdInv' /\ Replied
<1> SUFFICES ASSUME CdInv, LidInterrupt PROVE CdInv' /\ Replied
  OBVIOUS
<1>1. Moving(cdr)
  BY DEF CdInv, Sound
<1>2. cdr' \in LidSeek(StopCdda(cdr), TRUE, FALSE) /\ lid' = "open"
      /\ UNCHANGED <<guest, saved, announced, wanted>>
  BY DEF LidInterrupt
<1>3. Moving(StopCdda(cdr)) /\ Kept(cdr, StopCdda(cdr))
  BY <1>1, StopCddaMoves
<1>4. Running(StopCdda(cdr))
  BY <1>3 DEF Moving, Running
<1>5. Moving(cdr') /\ Kept(StopCdda(cdr), cdr')
  BY <1>2, <1>4, LidSeekMoves
<1> QED BY <1>2, <1>3, <1>5, KeptTwice, UnseenStep

LEMMA StepCloseLid == CdInv /\ CloseLid => CdInv' /\ Replied
<1> SUFFICES ASSUME CdInv, CloseLid PROVE CdInv' /\ Replied
  OBVIOUS
<1>1. Moving(cdr) /\ cdr' = cdr
  BY DEF CdInv, Sound, CloseLid
<1>2. Moving(cdr') /\ Kept(cdr, cdr')
  BY <1>1 DEF Kept
<1> QED BY <1>2, UnseenStep DEF CloseLid
-----------------------------------------------------------------------------
(* The guest.                                                              *)
LEMMA PrepareMoves ==
  ASSUME NEW c, Moving(c), guest \in Guests, NEW i \in CommandKinds, NEW d \in Prepare(c, i)
  PROVE  Moving(d) /\ Kept(c, d) /\ (i \in {"Read", "Pause", "Reset", "Init"} => ~d.Reading)
<1>1. c \in Drive
  BY DEF Moving
<1>2. ASSUME NEW seeked \in {"PENDING", "DONE"}
      PROVE  Moving([c EXCEPT !.Seeked = seeked]) /\ Kept(c, [c EXCEPT !.Seeked = seeked])
  <2> DEFINE b == [c EXCEPT !.Seeked = seeked]
  <2>1. b \in Drive
    BY <1>1 DEF Drive
  <2>2. /\ b.audio = c.audio /\ b.Play = c.Play /\ b.Stat = c.Stat /\ b.Result = c.Result
        /\ b.Reg2 = c.Reg2 /\ b.Irq = c.Irq /\ b.busy = c.busy /\ b.armed = c.armed
        /\ b.Reading = c.Reading /\ b.DriveState = c.DriveState
    BY <1>1 DEF Drive
  <2> HIDE DEF b
  <2>3. Moving(b) /\ Kept(c, b)
    BY <2>1, <2>2 DEF Moving, Kept
  <2> QED BY <2>3 DEF b
<1>3. ASSUME NEW b, Moving(b), Kept(c, b), d = StopReading(StopCdda(b))
      PROVE  Moving(d) /\ Kept(c, d) /\ ~d.Reading
  <2>1. Moving(StopCdda(b)) /\ Kept(b, StopCdda(b))
    BY <1>3, StopCddaMoves
  <2>2. Moving(d) /\ Kept(StopCdda(b), d) /\ ~d.Reading
    BY <1>3, <2>1, StopReadingMoves
  <2> QED BY <1>3, <2>1, <2>2, KeptTwice
<1>4. CASE i = "Setloc"
  <2>1. d = c \/ d = [c EXCEPT !.Seeked = "PENDING"]
    BY <1>4 DEF Prepare
  <2> QED BY <1>2, <1>4, <2>1 DEF Kept
<1>5. CASE i \in {"Read", "Pause"}
  <2>1. d = StopReading(StopCdda(c))
    BY <1>5 DEF Prepare
  <2>2. Kept(c, c)
    BY DEF Kept
  <2> QED BY <1>3, <2>1, <2>2
<1>6. CASE i \in {"Reset", "Init"}
  <2>1. d = StopReading(StopCdda([c EXCEPT !.Seeked = "DONE"]))
    BY <1>6 DEF Prepare
  <2> QED BY <1>2, <1>3, <2>1
<1>7. CASE i = "Setmode"
  <2>1. PICK mode \in guest.modes :
          d = [c EXCEPT !.Mode = mode] \/ d = StopCdda([c EXCEPT !.Mode = mode])
    BY <1>7 DEF Prepare
  <2>2. mode \in SUBSET Modes
    BY GuestsAssumption
  <2> DEFINE b == [c EXCEPT !.Mode = mode]
  <2>3. b \in Drive
    BY <1>1, <2>2 DEF Drive
  <2>4. /\ b.audio = c.audio /\ b.Play = c.Play /\ b.Stat = c.Stat /\ b.Result = c.Result
        /\ b.Reg2 = c.Reg2 /\ b.Irq = c.Irq /\ b.busy = c.busy /\ b.armed = c.armed
        /\ b.Reading = c.Reading /\ b.DriveState = c.DriveState
    BY <1>1 DEF Drive
  <2>5. d = b \/ d = StopCdda(b)
    BY <2>1
  <2> HIDE DEF b
  <2>6. Moving(b) /\ Kept(c, b)
    BY <2>3, <2>4 DEF Moving, Kept
  <2>7. Moving(StopCdda(b)) /\ Kept(b, StopCdda(b))
    BY <2>6, StopCddaMoves
  <2> QED BY <1>7, <2>5, <2>6, <2>7, KeptTwice
<1>8. CASE i \notin {"Setloc", "Read", "Pause", "Reset", "Init", "Setmode"}
  <2>1. d = c
    BY <1>8 DEF Prepare
  <2> QED BY <1>8, <2>1 DEF Kept
<1> QED BY <1>4, <1>5, <1>6, <1>7, <1>8

LEMMA StepWrite ==
  ASSUME CdInv, NEW i \in guest.commands, WriteCommand(i)
  PROVE  CdInv' /\ Replied
<1> DEFINE c == [cdr EXCEPT !.ResultReady = FALSE, !.busy = TRUE]
           q == AddIrqQueue(c, i)
<1>1. /\ cdr \in Drive /\ Moving(cdr) /\ Wanted(cdr, wanted) /\ Told(cdr, announced)
      /\ announced \in BOOLEAN /\ wanted \in {"read", "stop"} /\ guest \in Guests
      /\ lid \in {"open", "closed"}
  BY DEF CdInv, Sound, Moving
<1>2. cdr' \in Prepare(q, i) /\ UNCHANGED <<guest, lid, saved, announced>>
      /\ wanted' = IF i = "Read" THEN "read"
                   ELSE IF i \in {"Pause", "Init", "Reset"} THEN "stop" ELSE wanted
  BY DEF WriteCommand
<1>3. i \in CommandKinds
  BY <1>1, GuestsAssumption
<1>4. c \in Drive
  BY <1>1 DEF Drive
<1>5. /\ c.audio = cdr.audio /\ c.Play = cdr.Play /\ c.Stat = cdr.Stat /\ c.Result = cdr.Result
      /\ c.Reg2 = cdr.Reg2 /\ c.armed = cdr.armed /\ c.Reading = cdr.Reading
      /\ c.DriveState = cdr.DriveState
  BY <1>1 DEF Drive
<1> HIDE DEF c
<1>6. Moving(c)
  BY <1>1, <1>4, <1>5 DEF Moving
<1>7. Queued(c, q, i)
  BY <1>3, <1>6, AddIrqQueueMoves
<1> HIDE DEF q
<1>8. /\ Moving(cdr') /\ Kept(q, cdr')
      /\ (i \in {"Read", "Pause", "Reset", "Init"} => ~cdr'.Reading)
  BY <1>1, <1>2, <1>3, <1>7, PrepareMoves DEF Queued
<1>9. cdr'.Stat = cdr.Stat /\ cdr'.Result = cdr.Result /\ cdr'.Reg2 = cdr.Reg2
      /\ (cdr'.Reading => cdr.Reading) /\ (cdr'.Irq = "Read" => i = "Read")
      /\ "CDR" \in cdr'.armed
  BY <1>5, <1>7, <1>8 DEF Queued, Kept
<1>10. wanted' \in {"read", "stop"} /\ Wanted(cdr', wanted')
  BY <1>1, <1>2, <1>8, <1>9 DEF Wanted
<1>11. Sound(cdr', announced', wanted')
  BY <1>1, <1>2, <1>8, <1>9, <1>10 DEF Sound, Commanded, Told
<1>12. CdInv'
  BY <1>1, <1>2, <1>10, <1>11, StaysSound
<1> QED BY <1>9, <1>12 DEF Replied, Replaces

LEMMA StepRegister == CdInv /\ (Acknowledge \/ ReadResult \/ WriteReg2) => CdInv' /\ Replied
<1> SUFFICES ASSUME CdInv, Acknowledge \/ ReadResult \/ WriteReg2 PROVE CdInv' /\ Replied
  OBVIOUS
<1>1. /\ cdr \in Drive /\ Moving(cdr) /\ Commanded(cdr) /\ Wanted(cdr, wanted)
      /\ Told(cdr, announced) /\ announced \in BOOLEAN /\ wanted \in {"read", "stop"}
      /\ lid \in {"open", "closed"}
  BY DEF CdInv, Sound, Moving
<1>2. CASE Acknowledge
  <2>1. cdr' = [cdr EXCEPT !.Stat = "NoIntr"] /\ announced' = FALSE
        /\ UNCHANGED <<guest, lid, saved, wanted>>
    BY <1>2 DEF Acknowledge
  <2>2. cdr' \in Drive
    BY <1>1, <2>1 DEF Drive
  <2>3. /\ cdr'.audio = cdr.audio /\ cdr'.Play = cdr.Play /\ cdr'.Stat = "NoIntr"
        /\ cdr'.Irq = cdr.Irq /\ cdr'.busy = cdr.busy /\ cdr'.armed = cdr.armed
        /\ cdr'.Reading = cdr.Reading /\ cdr'.DriveState = cdr.DriveState
    BY <1>1, <2>1 DEF Drive
  <2>4. Sound(cdr', announced', wanted')
    BY <1>1, <2>1, <2>2, <2>3 DEF Sound, Moving, Commanded, Wanted, Told
  <2>5. CdInv'
    BY <1>1, <2>1, <2>4, StaysSound
  <2> QED BY <2>3, <2>5 DEF Replied, Replaces
<1>3. CASE ReadResult
  <2>1. cdr' = [cdr EXCEPT !.ResultReady = FALSE] /\ UNCHANGED <<guest, lid, saved, announced, wanted>>
    BY <1>3 DEF ReadResult
  <2>2. cdr' \in Drive
    BY <1>1, <2>1 DEF Drive
  <2>3. /\ cdr'.audio = cdr.audio /\ cdr'.Play = cdr.Play /\ cdr'.Stat = cdr.Stat
        /\ cdr'.Result = cdr.Result /\ cdr'.Reg2 = cdr.Reg2
        /\ cdr'.Irq = cdr.Irq /\ cdr'.busy = cdr.busy /\ cdr'.armed = cdr.armed
        /\ cdr'.Reading = cdr.Reading /\ cdr'.DriveState = cdr.DriveState
    BY <1>1, <2>1 DEF Drive
  <2>4. Moving(cdr') /\ Kept(cdr, cdr')
    BY <1>1, <2>2, <2>3 DEF Moving, Kept
  <2> QED BY <1>1, <2>1, <2>4, UnseenStep
<1>4. CASE WriteReg2
  <2>1. PICK b \in BOOLEAN : cdr' = [cdr EXCEPT !.Reg2 = b]
    BY <1>4 DEF WriteReg2
  <2>2. SetIrq(cdr') /\ UNCHANGED <<guest, lid, saved, wanted>>
    BY <1>4 DEF WriteReg2
  <2>3. cdr' \in Drive
    BY <1>1, <2>1 DEF Drive
  <2>4. /\ cdr'.audio = cdr.audio /\ cdr'.Play = cdr.Play /\ cdr'.Stat = cdr.Stat
        /\ cdr'.Result = cdr.Result
        /\ cdr'.Irq = cdr.Irq /\ cdr'.busy = cdr.busy /\ cdr'.armed = cdr.armed
        /\ cdr'.Reading = cdr.Reading /\ cdr'.DriveState = cdr.DriveState
    BY <1>1, <2>1 DEF Drive
  <2>5. announced' \in BOOLEAN /\ Told(cdr', announced')
    BY <1>1, <2>2, Announces
  <2>6. Sound(cdr', announced', wanted')
    BY <1>1, <2>2, <2>3, <2>4, <2>5 DEF Sound, Moving, Commanded, Wanted
  <2>7. CdInv'
    BY <1>1, <2>2, <2>5, <2>6, StaysSound
  <2> QED BY <2>4, <2>7 DEF Replied, Replaces
<1> QED BY <1>2, <1>3, <1>4

-----------------------------------------------------------------------------
(* Saving, loading and resetting. *)
LEMMA StepSave == CdInv /\ Save => CdInv' /\ Replied
<1> SUFFICES ASSUME CdInv, Save PROVE CdInv' /\ Replied
  OBVIOUS
<1>1. UNCHANGED <<guest, cdr, lid, announced, wanted>>
  BY DEF Save
<1> DEFINE s == [cdr |-> cdr, announced |-> announced, wanted |-> wanted]
<1>2. saved' = {s}
  BY DEF Save
<1>3. s \in SavedStates /\ Sound(s.cdr, s.announced, s.wanted)
  BY DEF CdInv, Sound, Moving, SavedStates
<1>4. saved' \subseteq SavedStates /\ \A t \in saved' : Sound(t.cdr, t.announced, t.wanted)
  BY <1>2, <1>3
<1>5. CdInv'
  BY <1>1, <1>4 DEF CdInv, Sound, Moving, Commanded, Told, Wanted
<1> QED BY <1>1, <1>5 DEF Replied, Replaces

LEMMA StepLoad == CdInv /\ Load => CdInv'
<1> SUFFICES ASSUME CdInv, Load PROVE CdInv'
  OBVIOUS
<1>1. PICK s \in saved : cdr' = Restore(s.cdr) /\ announced' = s.announced /\ wanted' = s.wanted
  BY DEF Load
<1>2. UNCHANGED <<guest, lid, saved>>
  BY DEF Load
<1>3. Sound(s.cdr, s.announced, s.wanted) /\ s \in SavedStates
  BY DEF CdInv
<1>4. s.cdr \in Drive /\ s.cdr.audio = s.cdr.Play
      /\ s.announced \in BOOLEAN /\ s.wanted \in {"read", "stop"}
  BY <1>3 DEF Sound, Moving, SavedStates
<1>5. cdr' = s.cdr
  BY <1>1, <1>4 DEF Restore, Drive
<1>6. Sound(cdr', announced', wanted')
  BY <1>1, <1>3, <1>5
<1> QED BY <1>1, <1>2, <1>4, <1>6, StaysSound DEF CdInv

LEMMA ResetIsSound == Sound(ResetDrive, FALSE, "stop")
<1>1. ResetDrive \in Drive
  BY DEF ResetDrive, Drive, StatusBits, DriveStates
<1>2. "STANDBY" \notin NotReady
  BY DEF NotReady
<1> QED BY <1>1, <1>2 DEF Sound, Moving, Commanded, Told, Wanted, ResetDrive

LEMMA StepReset == CdInv /\ SysReset => CdInv'
<1> SUFFICES ASSUME CdInv, SysReset PROVE CdInv'
  OBVIOUS
<1>1. cdr' = ResetDrive /\ announced' = FALSE /\ wanted' = "stop" /\ UNCHANGED <<guest, lid, saved>>
  BY DEF SysReset
<1>2. Sound(cdr', announced', wanted')
  BY <1>1, ResetIsSound
<1> QED BY <1>1, <1>2, StaysSound DEF CdInv

-----------------------------------------------------------------------------
(* The theorems.                                                           *)
LEMMA InitSound == Init => CdInv
<1> SUFFICES ASSUME Init PROVE CdInv
  OBVIOUS
<1> QED BY ResetIsSound DEF Init, CdInv, SavedStates

LEMMA StepSound == CdInv /\ Next => CdInv' /\ (Replied \/ Forgets)
<1> SUFFICES ASSUME CdInv, Next PROVE CdInv' /\ (Replied \/ Forgets)
  OBVIOUS
<1>1. CASE Events
  BY <1>1, StepCommand, StepSector, StepPlay, StepLid DEF Events
<1>2. CASE Guest
  BY <1>2, StepWrite, StepRegister DEF Guest
<1>3. CASE Frontend
  BY <1>3, StepOpenLid, StepCloseLid, StepSave, StepLoad, StepReset DEF Frontend, Forgets
<1> QED BY <1>1, <1>2, <1>3 DEF Next

LEMMA StutterSound == CdInv /\ UNCHANGED vars => CdInv'
  BY DEF CdInv, Sound, Moving, Commanded, Told, Wanted, vars

(* The invariant holds in every reachable state. *)
LEMMA AlwaysSound == Spec => []CdInv
<1>1. CdInv /\ [Next]_vars => CdInv'
  BY StepSound, StutterSound
<1> QED BY <1>1, InitSound, PTL DEF Spec

(* Every variable keeps its type. *)
THEOREM DriveTypeOK == Spec => []TypeOK
<1>1. CdInv => TypeOK
  BY DEF CdInv, Sound, Moving, TypeOK, SavedStates
<1> QED BY <1>1, AlwaysSound, PTL

(* Whatever is under way has its event armed: a command, a read, a track    *)
(* being played, a disc change; in every interleaving of the four events,  *)
(* the guest and the frontend.                                             *)
THEOREM NothingEverStalls == Spec => []NothingStalls
<1>1. CdInv => NothingStalls
  BY DEF CdInv, Sound, Moving, Commanded, NothingStalls
<1> QED BY <1>1, AlwaysSound, PTL

(* The image plays audio exactly while the controller is playing, also     *)
(* after a state is loaded.                                                *)
THEOREM AudioAlwaysFollows == Spec => []AudioFollowsPlay
<1>1. CdInv => AudioFollowsPlay
  BY DEF CdInv, Sound, Moving, AudioFollowsPlay
<1> QED BY <1>1, AlwaysSound, PTL

(* No cause the guest has not masked waits without having been announced,  *)
(* except a sector that could not be read.                                 *)
THEOREM AlwaysAnnounced == Spec => []CausesAnnounced
<1>1. CdInv => CausesAnnounced
  BY DEF CdInv, Sound, Told, CausesAnnounced
<1> QED BY <1>1, AlwaysSound, PTL

(* No event and no command replaces a response the guest has not           *)
(* acknowledged.                                                           *)
THEOREM ResponsesKept == Spec => ResponseKept
<1>1. CdInv /\ [Next]_vars =>
        [cdr.Stat # "NoIntr" /\ ~Forgets =>
           \/ cdr'.Stat = "NoIntr"
           \/ cdr'.Stat = cdr.Stat /\ cdr'.Result = cdr.Result]_vars
  BY StepSound DEF Replied, Replaces
<1> QED BY <1>1, AlwaysSound, PTL DEF Spec, ResponseKept

(* No sector reaches a guest that has asked for the reading to stop.       *)
THEOREM SectorsWanted == Spec => ReadsWhenAsked
<1>1. CdInv /\ [Next]_vars =>
        [/\ cdr.Stat = "NoIntr" /\ cdr'.Stat \in {"DataReady", "DiskError"}
         /\ cdr'.Result = "sector" /\ ~Forgets
         => wanted = "read"]_vars
  BY StepSound DEF Replied
<1> QED BY <1>1, AlwaysSound, PTL DEF Spec, ReadsWhenAsked
=============================================================================

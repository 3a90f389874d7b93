-------------------------------- MODULE Sio --------------------------------
(***************************************************************************)
(* The serial port of the pads and memory cards (libpcsxcore/sio.c): the   *)
(* guest's driver selects a slot, sends one byte at a time, is told of the *)
(* answer by an interrupt, reads it and goes on.  A frame written to a     *)
(* card is collected in buf and copied to the card when the last answer    *)
(* of the transfer is read.  The driver is the kernel's: it reads one      *)
(* answer for a byte and acknowledges its interrupt before it sends the    *)
(* next, and may drop the transfer at any moment.  Of the bytes it could    *)
(* send, those that mean the same to the port are represented by one; a    *)
(* frame has FrameBytes bytes of one bit.  memcardFlag, set when a frame   *)
(* is addressed, is Session's; netplay (Config.UseNet) is not modelled.    *)
(***************************************************************************)
EXTENDS Naturals, Sequences, FiniteSets

CONSTANTS
  FrameBytes,  \* bytes in a frame: 128
  High, Low,   \* the address bytes the guest sends
  CardSlots,   \* the slots that may hold a card
  Swaps        \* at which values of mcdst the player may change the cards

ASSUME SioAssumption ==
  /\ FrameBytes \in Nat \ {0, 1} /\ High \subseteq 0..255 /\ Low \subseteq 0..255
  /\ High # {} /\ Low # {} /\ Swaps \subseteq 0..5
  /\ CardSlots \subseteq {1, 2}

Slots == {1, 2}
Data == {0, 1}
Frames == High \X Low
Contents == [Frames -> [1..FrameBytes -> Data]]
Blank == [f \in Frames |-> [i \in 1..FrameBytes |-> 0]]

(* The bytes that mean something to the port. *)
StartPad == 1
StartCard == 129
Read == 82
Write == 87
Poll == 66
Dummy == 0

(* What PAD1_poll and PAD2_poll answer: an id with the length of the report *)
(* in its low digit, here one word, and the report.                        *)
PadId == 65
PadByte == 90

VARIABLES
  ctrl,    \* CtrlReg: DTR and the slot selected
  port,    \* padst, mcdst, rdwr, parp, bufcount, adrH, adrL, buf, and of
           \* StatReg RX_RDY (rx) and IRQ (irq)
  armed,   \* the PSXINT_SIO bit of psxRegs.interrupt
  istat,   \* bit 7 of I_STAT
  cards,   \* of each slot McdData, not McdDisable, whether cardh1, cardh2
           \* say that the card is new, and whether the guest was told so
           \* since it was put in
  driver   \* the transfer as the guest's driver sees it: the bytes sent and
           \* the answers read since its first byte, whether an answer is
           \* still to be read, and whether it is one card throughout

vars == <<ctrl, port, armed, istat, cards, driver>>

Byte == 0..255
Positions == 0..FrameBytes + 5

TypeOK ==
  /\ ctrl \in [dtr : BOOLEAN, slot : Slots]
  /\ port \in [padst : 0..2, mcdst : 0..5, rdwr : 0..2, parp : Positions, bufcount : Positions,
               adrH : High, adrL : Low, buf : [Positions -> Byte], rx : BOOLEAN, irq : BOOLEAN]
  /\ armed \in BOOLEAN /\ istat \in BOOLEAN
  /\ cards \in [Slots -> [data : Contents, present : BOOLEAN, new : BOOLEAN, told : BOOLEAN]]
  /\ driver \in [sent : Seq(Byte), got : Seq(Byte), owed : BOOLEAN, kept : BOOLEAN]

NoTransfer == [sent |-> <<>>, got |-> <<>>, owed |-> FALSE, kept |-> TRUE]

Init ==
  /\ ctrl = [dtr |-> FALSE, slot |-> 1]
  /\ \E h \in High, l \in Low :
       port = [padst |-> 0, mcdst |-> 0, rdwr |-> 0, parp |-> 0, bufcount |-> 0,
               adrH |-> h, adrL |-> l, buf |-> [i \in Positions |-> 0], rx |-> FALSE, irq |-> FALSE]
  /\ armed = FALSE /\ istat = FALSE
  /\ \E p \in SUBSET CardSlots :
       cards = [s \in Slots |-> [data |-> Blank, present |-> s \in p, new |-> TRUE, told |-> FALSE]]
  /\ driver = NoTransfer

-----------------------------------------------------------------------------
(* Dropping DTR (sioWriteCtrl16) ends every transfer. *)
Deselect ==
  /\ ctrl.dtr /\ ctrl' = [ctrl EXCEPT !.dtr = FALSE]
  /\ port' = [port EXCEPT !.padst = 0, !.mcdst = 0, !.parp = 0, !.rx = FALSE, !.irq = FALSE]
  /\ armed' = FALSE /\ driver' = NoTransfer
  /\ UNCHANGED <<istat, cards>>

Select(s) ==
  /\ ~ctrl.dtr /\ ctrl' = [dtr |-> TRUE, slot |-> s]
  /\ UNCHANGED <<port, armed, istat, cards, driver>>

(* RESET_ERR, and the guest's write to I_STAT. *)
Acknowledge ==
  /\ ctrl.dtr /\ ~driver.owed /\ port.irq /\ ~istat /\ port' = [port EXCEPT !.irq = FALSE]
  /\ UNCHANGED <<ctrl, armed, istat, cards, driver>>

ClearIstat ==
  /\ istat /\ istat' = FALSE
  /\ UNCHANGED <<ctrl, port, armed, cards, driver>>

(* The interrupt 535 cycles after a byte. *)
sioInterrupt ==
  /\ armed /\ armed' = FALSE
  /\ istat' = (istat \/ ~port.irq)
  /\ port' = [port EXCEPT !.irq = TRUE]
  /\ UNCHANGED <<ctrl, cards, driver>>

-----------------------------------------------------------------------------
(* sioWrite8, by what the port expects.  bytes is put into buf from first;  *)
(* the answer is at parp, and at bufcount the transfer's part ends.        *)
Put(first, bytes) ==
  [i \in Positions |-> IF i \in first..first + Len(bytes) - 1 THEN bytes[i - first + 1]
                       ELSE port.buf[i]]

Checksum(bytes) == Cardinality({i \in DOMAIN bytes : bytes[i] % 2 = 1}) % 2

NoDevice ==
  /\ port' = [port EXCEPT !.rx = TRUE, !.buf = Put(0, <<255>>), !.parp = 0, !.bufcount = 0]
  /\ UNCHANGED <<armed, cards>>

(* Only the second pad may be missing. *)
StartPadTransfer ==
  \/ /\ port' = [port EXCEPT !.rx = TRUE, !.buf = Put(0, <<255>>), !.parp = 0, !.bufcount = 2,
                             !.padst = 1]
     /\ armed' = TRUE /\ UNCHANGED cards
  \/ ctrl.slot = 2 /\ NoDevice

StartCardTransfer ==
  IF ~cards[ctrl.slot].present THEN NoDevice
  ELSE /\ port' = [port EXCEPT !.rx = TRUE, !.parp = 0, !.bufcount = 3, !.mcdst = 1, !.rdwr = 0,
                     !.buf = Put(0, <<255, IF cards[ctrl.slot].new THEN 8 ELSE 0, 90, 93>>)]
       /\ armed' = TRUE /\ UNCHANGED cards

Start(value) ==
  /\ port.padst = 0 /\ port.mcdst = 0
  /\ CASE value = StartPad -> StartPadTransfer
       [] value = StartCard -> StartCardTransfer
       [] OTHER -> NoDevice

PadCommand(value) ==
  /\ port.padst = 1 /\ armed' = TRUE /\ UNCHANGED cards
  /\ port' = IF value # Poll THEN [port EXCEPT !.padst = 0]
             ELSE [port EXCEPT !.padst = 2, !.parp = 1, !.buf = Put(1, <<PadId>>),
                               !.bufcount = 2 + (PadId % 16) * 2]

(* The last byte of the report comes without an interrupt. *)
PadReport ==
  /\ port.padst = 2 /\ UNCHANGED cards
  /\ LET last == port.parp + 1 = port.bufcount IN
     /\ port' = [port EXCEPT !.parp = @ + 1, !.buf = Put(port.parp + 1, <<PadByte>>),
                             !.padst = IF last THEN 0 ELSE 2]
     /\ armed' = (armed \/ ~last)

(* Fault: the bytes after the command are answered without an interrupt. *)
CardCommandSilent(value) ==
  /\ port.mcdst = 1 /\ armed' = (port.rdwr = 0) /\ UNCHANGED cards
  /\ port' = CASE port.rdwr # 0 -> [port EXCEPT !.parp = @ + 1]
               [] port.rdwr = 0 /\ value = Read -> [port EXCEPT !.parp = 1, !.rdwr = 1]
               [] port.rdwr = 0 /\ value = Write -> [port EXCEPT !.parp = 1, !.rdwr = 2]
               [] OTHER -> [port EXCEPT !.parp = 1, !.mcdst = 0]

CardCommand(value) ==
  /\ port.mcdst = 1 /\ armed' = TRUE /\ UNCHANGED cards
  /\ port' = CASE port.rdwr # 0 -> [port EXCEPT !.parp = @ + 1]
               [] port.rdwr = 0 /\ value = Read -> [port EXCEPT !.parp = 1, !.rdwr = 1]
               [] port.rdwr = 0 /\ value = Write -> [port EXCEPT !.parp = 1, !.rdwr = 2]
               [] OTHER -> [port EXCEPT !.parp = 1, !.mcdst = 0]

Address(value) ==
  /\ armed' = TRUE /\ UNCHANGED cards
  /\ \/ port.mcdst = 2 /\ port' = [port EXCEPT !.adrH = value, !.buf = Put(0, <<0>>),
                                     !.parp = 0, !.bufcount = 1, !.mcdst = 3]
     \/ port.mcdst = 3 /\ port' = [port EXCEPT !.adrL = value, !.buf = Put(0, <<port.adrH>>),
                                     !.parp = 0, !.bufcount = 1, !.mcdst = 4]

Frame == <<port.adrH, port.adrL>>
Addressed == Frame \o cards[ctrl.slot].data[Frame]

(* Fault: the checksum is of the data alone. *)
FirstByteDataSum(value) ==
  /\ port.mcdst = 4 /\ armed' = TRUE /\ UNCHANGED cards
  /\ port' = IF port.rdwr = 1
             THEN [port EXCEPT !.parp = 0, !.mcdst = 5, !.bufcount = FrameBytes + 5,
                     !.buf = Put(0, <<92, 93>> \o Addressed
                                      \o <<Checksum(cards[ctrl.slot].data[Frame]), 71>>)]
             ELSE [port EXCEPT !.parp = 0, !.mcdst = 5, !.bufcount = FrameBytes + 3,
                     !.buf = [Put(0, <<port.adrL, value>>) EXCEPT
                                ![FrameBytes+1] = 92, ![FrameBytes+2] = 93, ![FrameBytes+3] = 71]]

(* A frame is fetched; or the first byte of one to be written has come. *)
FirstByte(value) ==
  /\ port.mcdst = 4 /\ armed' = TRUE /\ UNCHANGED cards
  /\ port' = IF port.rdwr = 1
             THEN [port EXCEPT !.parp = 0, !.mcdst = 5, !.bufcount = FrameBytes + 5,
                     !.buf = Put(0, <<92, 93>> \o Addressed \o <<Checksum(Addressed), 71>>)]
             ELSE [port EXCEPT !.parp = 0, !.mcdst = 5, !.bufcount = FrameBytes + 3,
                     !.buf = [Put(0, <<port.adrL, value>>) EXCEPT
                                ![FrameBytes+1] = 92, ![FrameBytes+2] = 93, ![FrameBytes+3] = 71]]

NextByte(value) ==
  /\ port.mcdst = 5 /\ armed' = TRUE
  /\ LET n == port.parp + 1 IN
     /\ port' = [port EXCEPT !.parp = n,
                   !.buf = IF port.rdwr = 2 /\ n < FrameBytes THEN Put(n + 1, <<value>>) ELSE @]
     /\ cards' = IF n = (IF port.rdwr = 1 THEN FrameBytes + 4 ELSE FrameBytes + 1)
                 THEN [cards EXCEPT ![ctrl.slot].new = FALSE] ELSE cards

(* The bytes a driver sends next. *)
Offers ==
  CASE port.padst = 1 -> {Poll, Dummy}
    [] port.padst = 2 -> {Dummy}
    [] port.padst = 0 ->
         CASE port.mcdst = 0 -> {StartPad, StartCard, Dummy}
           [] port.mcdst = 1 -> IF port.rdwr = 0 THEN {Read, Write, Dummy} ELSE {Dummy}
           [] port.mcdst = 2 -> High
           [] port.mcdst = 3 -> Low
           [] port.mcdst = 4 -> IF port.rdwr = 2 THEN Data ELSE {Dummy}
           [] port.mcdst = 5 -> IF port.rdwr = 2 /\ port.parp + 1 < FrameBytes THEN Data ELSE {Dummy}

sioWrite8(value) ==
  /\ ctrl.dtr /\ ~driver.owed /\ ~port.irq /\ ~istat
  /\ \/ Start(value) \/ PadCommand(value) \/ PadReport
     \/ port.padst = 0 /\ (CardCommand(value) \/ Address(value) \/ FirstByte(value) \/ NextByte(value))
  /\ driver' = IF port.padst = 0 /\ port.mcdst = 0
               THEN [sent |-> <<value>>, got |-> <<>>, owed |-> TRUE, kept |-> TRUE]
               ELSE [driver EXCEPT !.sent = Append(@, value), !.owed = TRUE]
  /\ UNCHANGED <<ctrl, istat>>

-----------------------------------------------------------------------------
(* Fault: copied from the start of buf. *)
WrittenFromStart ==
  [cards[ctrl.slot].data EXCEPT ![Frame] = [i \in 1..FrameBytes |-> port.buf[i - 1]]]

Written == [cards[ctrl.slot].data EXCEPT ![Frame] = [i \in 1..FrameBytes |-> port.buf[i]]]

(* sioRead8.  The driver waits for the interrupt, but where none comes: for *)
(* the last byte of a pad's report, and without a device.                  *)
sioRead8 ==
  /\ ctrl.dtr /\ driver.owed /\ (port.irq \/ (~armed /\ port.mcdst = 0))
  /\ LET last == port.rx /\ port.parp = port.bufcount
         ret == IF port.rx THEN port.buf[port.parp] ELSE 0
     IN /\ port' = [port EXCEPT
                      !.rx = (@ /\ ~last) \/ (last /\ port.mcdst = 1),
                      !.padst = IF last /\ @ = 2 THEN 0 ELSE @,
                      !.mcdst = CASE last /\ @ = 5 -> 0 [] last /\ @ = 1 -> 2 [] OTHER -> @]
        /\ driver' = [driver EXCEPT !.got = Append(@, ret), !.owed = FALSE]
        /\ cards' = [cards EXCEPT
             ![ctrl.slot].data = IF last /\ port.mcdst = 5 /\ port.rdwr = 2 THEN Written ELSE @,
             ![ctrl.slot].told = @ \/ (port.mcdst = 1 /\ port.parp = 1 /\ ret = 8)]
  /\ UNCHANGED <<ctrl, armed, istat>>

(* Fault: other cards are not marked as new. *)
LoadMcdsUnmarked ==
  /\ port.mcdst \in Swaps
  /\ \E p \in SUBSET CardSlots :
       cards' = [s \in Slots |-> [data |-> Blank, present |-> s \in p,
                                 new |-> cards[s].new, told |-> FALSE]]
  /\ driver' = [driver EXCEPT !.kept = FALSE]
  /\ UNCHANGED <<ctrl, port, armed, istat>>

(* LoadMcds, from the menu. *)
LoadMcds ==
  /\ port.mcdst \in Swaps
  /\ \E p \in SUBSET CardSlots :
       cards' = [s \in Slots |-> [data |-> Blank, present |-> s \in p, new |-> TRUE, told |-> FALSE]]
  /\ driver' = [driver EXCEPT !.kept = FALSE]
  /\ UNCHANGED <<ctrl, port, armed, istat>>

Next ==
  \/ Deselect \/ (\E s \in Slots : Select(s)) \/ Acknowledge \/ ClearIstat
  \/ sioInterrupt \/ (\E value \in Offers : sioWrite8(value)) \/ sioRead8 \/ LoadMcds

Spec == Init /\ [][Next]_vars

(* Events run while the guest does, and the driver goes on with a transfer  *)
(* it does not drop.                                                       *)
Fairness ==
  /\ WF_vars(sioInterrupt)
  /\ WF_vars(ClearIstat) /\ WF_vars(Acknowledge) /\ WF_vars(sioRead8)
  /\ WF_vars(\E value \in Offers : sioWrite8(value))

FairSpec == Spec /\ Fairness

-----------------------------------------------------------------------------
(* What the driver has sent, as the kernel means it. *)
SentFrame == <<driver.sent[5], driver.sent[6]>>
SentData == [i \in 1..FrameBytes |-> driver.sent[6 + i]]
Command(value) == Len(driver.sent) >= 2 /\ driver.sent[1] = StartCard /\ driver.sent[2] = value

(* Nothing but a whole frame ever gets onto a card, at the address and with *)
(* the bytes the guest sent in one transfer to that card, wherever other    *)
(* transfers were dropped.                                                 *)
WritesWhole ==
  [][\A s \in Slots : \A f \in Frames :
       driver'.kept /\ cards'[s].data[f] # cards[s].data[f] =>
         /\ s = ctrl.slot /\ cards[s].present
         /\ Command(Write) /\ Len(driver.sent) = FrameBytes + 10
         /\ f = SentFrame /\ cards'[s].data[f] = SentData]_vars

(* The answers are true: when the last answer of a write says that it went  *)
(* well the frame is on the card; those of a read are the frame addressed,  *)
(* between its address and its checksum; those of a pad its whole report.   *)
AnswersRight ==
  /\ driver.kept /\ Command(Write) /\ Len(driver.got) = FrameBytes + 10 =>
       /\ driver.got[FrameBytes + 10] = 71
       /\ cards[ctrl.slot].data[SentFrame] = SentData
  /\ driver.kept /\ Command(Read) /\ Len(driver.got) = FrameBytes + 12 =>
       SubSeq(driver.got, 3, FrameBytes + 12) =
         <<90, 93, 0, SentFrame[1], 92, 93>> \o SentFrame
           \o cards[ctrl.slot].data[SentFrame]
           \o <<Checksum(SentFrame \o cards[ctrl.slot].data[SentFrame]), 71>>
  /\ Len(driver.got) = 5 /\ driver.sent[1] = StartPad /\ driver.sent[2] = Poll =>
       driver.got = <<255, PadId, PadByte, PadByte, PadByte>>

(* The guest writes to a card only once it has been told that the card is   *)
(* another than before.                                                    *)
ToldBeforeWriting ==
  [][\A s \in Slots :
       cards'[s].data # cards[s].data /\ driver'.sent # <<>> /\ driver.owed /\ ~driver'.owed =>
         cards[s].told]_vars

(* A transfer that the driver does not drop comes to its end: it is never   *)
(* left waiting for an interrupt.                                          *)
TransferEnds == port.padst # 0 \/ port.mcdst # 0 ~> port.padst = 0 /\ port.mcdst = 0
=============================================================================

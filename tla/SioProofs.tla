------------------------------ MODULE SioProofs ------------------------------
(***************************************************************************)
(* Proofs about Sio, for every size of a frame and every set of addresses: *)
(* wherever transfers are dropped and cards changed, only whole frames get  *)
(* onto a card, and the answers the guest reads are true.                   *)
(***************************************************************************)
EXTENDS Sio, SequenceTheorems, FiniteSetTheorems, TLAPS

Sent == Len(driver.sent)
Got == Len(driver.got)

(* An answer is read for every byte sent. *)
Paired ==
  /\ Sent = Got + (IF driver.owed THEN 1 ELSE 0)
  /\ ~ctrl.dtr => driver.sent = <<>> /\ port.padst = 0 /\ port.mcdst = 0

(* The answers of a pad; the last comes when padst is 0 again. *)
Report(i) == CASE i = 1 -> 255 [] i = 2 -> PadId [] OTHER -> PadByte

PadAnswers ==
  /\ driver.sent[1] = StartPad /\ port.mcdst = 0 /\ port.rx /\ Sent <= 5
  /\ port.parp = Sent - 1 /\ port.buf[port.parp] = Report(Sent)
  /\ port.bufcount = IF Sent = 1 THEN 2 ELSE 4
  /\ \A i \in 1..Got : driver.got[i] = Report(i)

PadTransfer ==
  /\ port.padst = 1 => PadAnswers /\ Sent = 1
  /\ port.padst = 2 => PadAnswers /\ Sent \in 2..4
  /\ port.padst = 0 /\ port.mcdst = 0 /\ driver.owed /\ Sent > 2 => PadAnswers /\ Sent = 5

(* A card has been addressed and has not been changed since. *)
CardTransfer ==
  port.mcdst # 0 =>
    /\ ctrl.dtr /\ port.padst = 0 /\ port.rx /\ driver.sent[1] = StartCard
    /\ driver.kept => cards[ctrl.slot].present
    /\ port.rdwr = 1 => driver.sent[2] = Read
    /\ port.rdwr = 2 => driver.sent[2] = Write

(* The command: 90 and 93 follow it. *)
Commanding ==
  port.mcdst = 1 =>
    /\ port.bufcount = 3 /\ port.parp \in 0..3 /\ Sent = port.parp + 1
    /\ port.rdwr = 0 <=> port.parp = 0
    /\ port.parp = 3 => driver.owed
    /\ port.buf[2] = 90 /\ port.buf[3] = 93
    /\ \A i \in 3..Got : driver.got[i] = port.buf[i - 1]

(* The address: a 0 and its high byte come back. *)
Addressing ==
  /\ port.mcdst \in 2..5 => port.rdwr # 0 /\ driver.got[3] = 90 /\ driver.got[4] = 93
  /\ port.mcdst = 2 => Sent = 4 /\ ~driver.owed
  /\ port.mcdst \in 3..4 => port.parp = 0 /\ port.bufcount = 1 /\ Sent = port.mcdst + 2
  /\ port.mcdst = 3 => port.buf[0] = 0 /\ (~driver.owed => driver.got[5] = 0)
  /\ port.mcdst \in 4..5 => driver.got[5] = 0
  /\ port.mcdst \in 3..5 => driver.sent[5] = port.adrH
  /\ port.mcdst = 4 => port.buf[0] = port.adrH /\ (~driver.owed => driver.got[6] = port.adrH)
  /\ port.mcdst \in 4..5 => driver.sent[6] = port.adrL

(* The frame: what has come of one to be written, and all that is sent of  *)
(* one that is read.                                                       *)
ReadAnswer == <<92, 93>> \o Addressed \o <<Checksum(Addressed), 71>>

Framing ==
  port.mcdst = 5 =>
    /\ Sent = port.parp + 7 /\ port.parp <= port.bufcount
    /\ port.parp = port.bufcount => driver.owed
    /\ driver.got[6] = port.adrH
    /\ port.rdwr = 2 =>
         /\ port.bufcount = FrameBytes + 3 /\ port.buf[FrameBytes + 3] = 71
         /\ \A i \in 1..FrameBytes :
              i <= port.parp + 1 => port.buf[i] = driver.sent[6 + i] /\ port.buf[i] \in Data
    /\ port.rdwr = 1 =>
         /\ port.bufcount = FrameBytes + 5
         /\ driver.kept => \A i \in Positions : port.buf[i] = ReadAnswer[i + 1]
         /\ \A i \in 7..Got : driver.got[i] = port.buf[i - 7]

SioInv ==
  /\ TypeOK /\ Paired /\ PadTransfer /\ CardTransfer /\ Commanding /\ Addressing /\ Framing
  /\ AnswersRight

-----------------------------------------------------------------------------
(* The buffer and what is put into it.                                     *)
LEMMA PutKeepsBytes ==
  ASSUME TypeOK, NEW first \in Nat, NEW bytes \in Seq(Byte)
  PROVE  /\ Put(first, bytes) \in [Positions -> Byte]
         /\ \A i \in Positions : i < first => Put(first, bytes)[i] = port.buf[i]
         /\ \A i \in Positions : i >= first + Len(bytes) => Put(first, bytes)[i] = port.buf[i]
         /\ \A i \in 1..Len(bytes) :
              first + i - 1 \in Positions => Put(first, bytes)[first + i - 1] = bytes[i]
<1>1. FrameBytes \in Nat
  BY SioAssumption
<1>2. ASSUME NEW i \in Positions
      PROVE  (IF i \in first..first + Len(bytes) - 1 THEN bytes[i - first + 1]
              ELSE port.buf[i]) \in Byte
  <2>1. CASE i \in first..first + Len(bytes) - 1
    <3>1. i - first + 1 \in 1..Len(bytes)
      BY <1>1, <2>1 DEF Positions
    <3> QED BY <2>1, <3>1
  <2>2. CASE i \notin first..first + Len(bytes) - 1
    BY <2>2 DEF TypeOK
  <2> QED BY <2>1, <2>2
<1>3. Put(first, bytes) \in [Positions -> Byte]
  BY <1>2 DEF Put
<1>4. ASSUME NEW i \in 1..Len(bytes), first + i - 1 \in Positions
      PROVE  Put(first, bytes)[first + i - 1] = bytes[i]
  <2>1. Len(bytes) \in Nat
    OBVIOUS
  <2>2. /\ first + i - 1 \in first..first + Len(bytes) - 1
        /\ (first + i - 1) - first + 1 = i
    BY <2>1
  <2> QED BY <1>4, <2>2 DEF Put
<1>5. Len(bytes) \in Nat
  OBVIOUS
<1>6. \A i \in Positions : i < first => Put(first, bytes)[i] = port.buf[i]
  BY <1>1, <1>5 DEF Put, Positions
<1>7. \A i \in Positions : i >= first + Len(bytes) => Put(first, bytes)[i] = port.buf[i]
  BY <1>1, <1>5 DEF Put, Positions
<1> QED BY <1>3, <1>4, <1>6, <1>7

LEMMA Joined ==
  ASSUME NEW S, NEW s \in Seq(S), NEW t \in Seq(S)
  PROVE  /\ s \o t \in Seq(S) /\ Len(s \o t) = Len(s) + Len(t)
         /\ \A i \in 1..Len(s) : (s \o t)[i] = s[i]
         /\ \A i \in 1..Len(t) : (s \o t)[Len(s) + i] = t[i]
<1>1. Len(s) \in Nat /\ Len(t) \in Nat
  OBVIOUS
<1>2. /\ s \o t \in Seq(S) /\ Len(s \o t) = Len(s) + Len(t)
      /\ \A i \in 1..Len(s) + Len(t) :
           (s \o t)[i] = IF i <= Len(s) THEN s[i] ELSE t[i - Len(s)]
  BY ConcatProperties
<1>3. ASSUME NEW i \in 1..Len(t) PROVE (s \o t)[Len(s) + i] = t[i]
  <2>1. Len(s) + i \in 1..Len(s) + Len(t) /\ ~(Len(s) + i <= Len(s)) /\ (Len(s) + i) - Len(s) = i
    BY <1>1
  <2> QED BY <1>2, <2>1
<1> QED BY <1>1, <1>2, <1>3

(* A parity is a byte. *)
LEMMA ChecksumType == ASSUME NEW bytes \in Seq(Byte) PROVE Checksum(bytes) \in {0, 1}
<1> DEFINE odd == {i \in DOMAIN bytes : bytes[i] % 2 = 1}
<1>1. DOMAIN bytes = 1..Len(bytes) /\ Len(bytes) \in Nat
  OBVIOUS
<1>2. IsFiniteSet(1..Len(bytes))
  BY <1>1, FS_Interval
<1>3. IsFiniteSet(odd)
  BY <1>1, <1>2, FS_Subset
<1>4. Cardinality(odd) \in Nat
  BY <1>3, FS_CardinalityType
<1>5. \A n \in Nat : n % 2 \in {0, 1}
  BY SMT
<1> HIDE DEF odd
<1>6. Cardinality(odd) % 2 \in {0, 1}
  BY <1>4, <1>5
<1> QED BY <1>6 DEF Checksum, odd

(* What is sent of a frame that is read. *)
LEMMA ReadAnswerIs ==
  ASSUME TypeOK
  PROVE  /\ Addressed \in Seq(Byte) /\ ReadAnswer \in Seq(Byte) /\ Len(ReadAnswer) = FrameBytes + 6
         /\ ReadAnswer[1] = 92 /\ ReadAnswer[2] = 93
         /\ ReadAnswer[3] = port.adrH /\ ReadAnswer[4] = port.adrL
         /\ \A i \in 1..FrameBytes : ReadAnswer[4 + i] = cards[ctrl.slot].data[Frame][i]
         /\ ReadAnswer[FrameBytes + 5] = Checksum(Addressed) /\ ReadAnswer[FrameBytes + 6] = 71
<1> DEFINE D == cards[ctrl.slot].data[Frame]
<1>1. FrameBytes \in Nat /\ High \subseteq 0..255 /\ Low \subseteq 0..255
  BY SioAssumption
<1>2. Frame \in Frames /\ Frame \in Seq(Byte) /\ Len(Frame) = 2
      /\ Frame[1] = port.adrH /\ Frame[2] = port.adrL
  <2>1. port.adrH \in High /\ port.adrL \in Low
    BY DEF TypeOK
  <2>2. Frame = <<port.adrH, port.adrL>> /\ port.adrH \in Byte /\ port.adrL \in Byte
    BY <1>1, <2>1 DEF Frame, Byte
  <2> QED BY <2>1, <2>2 DEF Frames
<1>3. D \in [1..FrameBytes -> Data]
  BY <1>2 DEF TypeOK, Contents, Slots
<1>4. D \in Seq(Byte) /\ Len(D) = FrameBytes
  <2> HIDE DEF D
  <2>1. D \in [1..FrameBytes -> Byte]
    BY <1>3 DEF Data, Byte
  <2> QED BY <1>1, <2>1
<1> HIDE DEF D
<1>5. /\ Addressed \in Seq(Byte) /\ Len(Addressed) = FrameBytes + 2
      /\ Addressed[1] = port.adrH /\ Addressed[2] = port.adrL
      /\ \A i \in 1..FrameBytes : Addressed[2 + i] = D[i]
  <2>1. Addressed = Frame \o D
    BY DEF Addressed, D
  <2>2. /\ Addressed \in Seq(Byte) /\ Len(Addressed) = Len(Frame) + Len(D)
        /\ \A i \in 1..Len(Frame) : Addressed[i] = Frame[i]
        /\ \A i \in 1..Len(D) : Addressed[Len(Frame) + i] = D[i]
    <3>1. Frame \in Seq(Byte) /\ D \in Seq(Byte)
      BY <1>2, <1>4
    <3> QED BY <2>1, <3>1, Joined
  <2>3. Len(Frame) = 2 /\ Len(D) = FrameBytes /\ 1 \in 1..2 /\ 2 \in 1..2
    BY <1>2, <1>4
  <2> QED BY <1>1, <1>2, <2>2, <2>3
<1>6. Checksum(Addressed) \in Byte
  BY <1>5, ChecksumType DEF Byte
<1> DEFINE head == <<92, 93>>
           tail == <<Checksum(Addressed), 71>>
<1>7. head \in Seq(Byte) /\ tail \in Seq(Byte) /\ Len(head) = 2 /\ Len(tail) = 2
      /\ head[1] = 92 /\ head[2] = 93 /\ tail[1] = Checksum(Addressed) /\ tail[2] = 71
  BY <1>6 DEF Byte
<1>8. ReadAnswer = (head \o Addressed) \o tail
  BY DEF ReadAnswer
<1> HIDE DEF head, tail
<1>9. /\ head \o Addressed \in Seq(Byte) /\ Len(head \o Addressed) = FrameBytes + 4
      /\ (head \o Addressed)[1] = 92 /\ (head \o Addressed)[2] = 93
      /\ \A i \in 1..FrameBytes + 2 : (head \o Addressed)[2 + i] = Addressed[i]
  <2>1. /\ head \o Addressed \in Seq(Byte)
        /\ Len(head \o Addressed) = Len(head) + Len(Addressed)
        /\ \A i \in 1..Len(head) : (head \o Addressed)[i] = head[i]
        /\ \A i \in 1..Len(Addressed) : (head \o Addressed)[Len(head) + i] = Addressed[i]
    <3>1. head \in Seq(Byte) /\ Addressed \in Seq(Byte)
      BY <1>5, <1>7
    <3> QED BY <3>1, Joined
  <2>2. Len(head) = 2 /\ Len(Addressed) = FrameBytes + 2 /\ 1 \in 1..2 /\ 2 \in 1..2
    BY <1>5, <1>7
  <2> QED BY <1>1, <1>7, <2>1, <2>2
<1>10. /\ ReadAnswer \in Seq(Byte) /\ Len(ReadAnswer) = FrameBytes + 6
       /\ \A i \in 1..FrameBytes + 4 : ReadAnswer[i] = (head \o Addressed)[i]
       /\ ReadAnswer[FrameBytes + 5] = tail[1] /\ ReadAnswer[FrameBytes + 6] = tail[2]
  <2> DEFINE most == head \o Addressed
  <2>1. most \in Seq(Byte) /\ Len(most) = FrameBytes + 4
    BY <1>9
  <2> HIDE DEF most
  <2>2. /\ most \o tail \in Seq(Byte) /\ Len(most \o tail) = Len(most) + Len(tail)
        /\ \A i \in 1..Len(most) : (most \o tail)[i] = most[i]
        /\ \A i \in 1..Len(tail) : (most \o tail)[Len(most) + i] = tail[i]
    <3>1. most \in Seq(Byte) /\ tail \in Seq(Byte)
      BY <1>7, <2>1
    <3> QED BY <3>1, Joined
  <2>3. 1 \in 1..2 /\ 2 \in 1..2 /\ (FrameBytes + 4) + 1 = FrameBytes + 5
        /\ (FrameBytes + 4) + 2 = FrameBytes + 6
    BY <1>1
  <2> QED BY <1>1, <1>7, <1>8, <2>1, <2>2, <2>3 DEF most
<1>11. ASSUME NEW i \in 1..FrameBytes PROVE ReadAnswer[4 + i] = D[i]
  <2>1. 4 + i \in 1..FrameBytes + 4 /\ 2 + i \in 1..FrameBytes + 2 /\ 2 + (2 + i) = 4 + i
    BY <1>1
  <2>2. ReadAnswer[4 + i] = (head \o Addressed)[4 + i]
    BY <1>10, <2>1
  <2>3. (head \o Addressed)[2 + (2 + i)] = Addressed[2 + i]
    BY <1>9, <2>1
  <2>4. Addressed[2 + i] = D[i]
    BY <1>5
  <2> QED BY <2>1, <2>2, <2>3, <2>4
<1>12. /\ ReadAnswer[1] = 92 /\ ReadAnswer[2] = 93
       /\ ReadAnswer[3] = port.adrH /\ ReadAnswer[4] = port.adrL
  <2>1. 1 \in 1..FrameBytes + 4 /\ 2 \in 1..FrameBytes + 4 /\ 2 + 1 \in 1..FrameBytes + 4
        /\ 2 + 2 \in 1..FrameBytes + 4 /\ 1 \in 1..FrameBytes + 2 /\ 2 \in 1..FrameBytes + 2
    BY <1>1
  <2> DEFINE most == head \o Addressed
  <2>2. /\ ReadAnswer[1] = most[1] /\ ReadAnswer[2] = most[2]
        /\ ReadAnswer[2 + 1] = most[2 + 1] /\ ReadAnswer[2 + 2] = most[2 + 2]
    BY <1>10, <2>1
  <2>3. /\ most[1] = 92 /\ most[2] = 93
        /\ most[2 + 1] = Addressed[1] /\ most[2 + 2] = Addressed[2]
    BY <1>9, <2>1
  <2> HIDE DEF most
  <2>4. Addressed[1] = port.adrH /\ Addressed[2] = port.adrL
    BY <1>5
  <2> QED BY <2>2, <2>3, <2>4
<1>13. ReadAnswer[FrameBytes + 5] = Checksum(Addressed) /\ ReadAnswer[FrameBytes + 6] = 71
  BY <1>7, <1>10
<1>14. ReadAnswer \in Seq(Byte) /\ Len(ReadAnswer) = FrameBytes + 6
  BY <1>10
<1> QED BY <1>5, <1>11, <1>12, <1>13, <1>14 DEF D

-----------------------------------------------------------------------------
(* port is a record of these fields, of these types. *)
Port(padst, mcdst, rdwr, parp, bufcount, adrH, adrL, buf, rx, irq) ==
  [padst |-> padst, mcdst |-> mcdst, rdwr |-> rdwr, parp |-> parp, bufcount |-> bufcount,
   adrH |-> adrH, adrL |-> adrL, buf |-> buf, rx |-> rx, irq |-> irq]

Ports == [padst : 0..2, mcdst : 0..5, rdwr : 0..2, parp : Positions, bufcount : Positions,
          adrH : High, adrL : Low, buf : [Positions -> Byte], rx : BOOLEAN, irq : BOOLEAN]

LEMMA PortTyped ==
  ASSUME TypeOK
  PROVE  /\ port = Port(port.padst, port.mcdst, port.rdwr, port.parp, port.bufcount,
                        port.adrH, port.adrL, port.buf, port.rx, port.irq)
         /\ port.padst \in 0..2 /\ port.mcdst \in 0..5 /\ port.rdwr \in 0..2
         /\ port.parp \in Positions /\ port.bufcount \in Positions
         /\ port.adrH \in High /\ port.adrL \in Low
         /\ port.buf \in [Positions -> Byte] /\ port.rx \in BOOLEAN /\ port.irq \in BOOLEAN
<1>1. port \in Ports
  BY DEF TypeOK, Ports
<1> QED BY <1>1 DEF Port, Ports

LEMMA FrameSize == FrameBytes \in Nat \ {0, 1}
  BY SioAssumption

(* AnswersRight is about whole transfers. *)
LEMMA Unanswered ==
  ASSUME Got # 5, Got # FrameBytes + 10, Got # FrameBytes + 12
  PROVE  AnswersRight
  BY DEF AnswersRight, Got

LEMMA SioInit == Init => SioInv
<1> SUFFICES ASSUME Init PROVE SioInv
  OBVIOUS
<1>1. /\ FrameBytes \in Nat \ {0, 1} /\ High \subseteq 0..255 /\ Low \subseteq 0..255
      /\ 0 \in Byte /\ 0 \in Positions
  BY SioAssumption DEF Byte, Positions
<1>2. PICK h \in High, l \in Low :
        port = [padst |-> 0, mcdst |-> 0, rdwr |-> 0, parp |-> 0, bufcount |-> 0,
                adrH |-> h, adrL |-> l, buf |-> [i \in Positions |-> 0], rx |-> FALSE,
                irq |-> FALSE]
  BY DEF Init
<1>3. Blank \in Contents
  BY DEF Blank, Contents, Data
<1>4. cards \in [Slots -> [data : Contents, present : BOOLEAN, new : BOOLEAN, told : BOOLEAN]]
  BY <1>3 DEF Init
<1>5. driver = NoTransfer /\ driver.sent = <<>> /\ driver.got = <<>> /\ ~driver.owed
  BY DEF Init, NoTransfer
<1>6. driver \in [sent : Seq(Byte), got : Seq(Byte), owed : BOOLEAN, kept : BOOLEAN]
  BY <1>5 DEF NoTransfer
<1>7. port \in [padst : 0..2, mcdst : 0..5, rdwr : 0..2, parp : Positions, bufcount : Positions,
               adrH : High, adrL : Low, buf : [Positions -> Byte], rx : BOOLEAN, irq : BOOLEAN]
  BY <1>1, <1>2
<1>8. TypeOK
  BY <1>4, <1>6, <1>7 DEF Init, TypeOK, Slots
<1>9. Sent = 0 /\ Got = 0 /\ port.padst = 0 /\ port.mcdst = 0
  BY <1>2, <1>5 DEF Sent, Got
<1>10. Paired /\ PadTransfer /\ CardTransfer /\ Commanding /\ Addressing /\ Framing
  BY <1>5, <1>9 DEF Paired, PadTransfer, CardTransfer, Commanding, Addressing, Framing
<1>11. AnswersRight
  BY <1>9, FrameSize, Unanswered
<1> QED BY <1>8, <1>10, <1>11 DEF SioInv

(* The answers are about what the driver and the cards hold. *)
LEMMA AnswersKept ==
  ASSUME AnswersRight, driver' = driver, ctrl' = ctrl, cards' = cards
  PROVE  AnswersRight'
<1>1. SentFrame' = SentFrame /\ SentData' = SentData
  BY DEF SentFrame, SentData
<1>2. Command(Write)' = Command(Write) /\ Command(Read)' = Command(Read)
  BY DEF Command
<1>3. cards'[ctrl'.slot].data = cards[ctrl.slot].data
  OBVIOUS
<1>4. /\ driver.kept /\ Command(Write) /\ Len(driver.got) = FrameBytes + 10 =>
           /\ driver.got[FrameBytes + 10] = 71
           /\ cards[ctrl.slot].data[SentFrame] = SentData
      /\ Len(driver.got) = 5 /\ driver.sent[1] = StartPad /\ driver.sent[2] = Poll =>
           driver.got = <<255, PadId, PadByte, PadByte, PadByte>>
  BY DEF AnswersRight
<1>5. driver.kept /\ Command(Read) /\ Len(driver.got) = FrameBytes + 12 =>
        SubSeq(driver.got, 3, FrameBytes + 12) =
          <<90, 93, 0, SentFrame[1], 92, 93>> \o SentFrame
            \o cards[ctrl.slot].data[SentFrame]
            \o <<Checksum(SentFrame \o cards[ctrl.slot].data[SentFrame]), 71>>
  BY DEF AnswersRight
<1>6. /\ driver'.kept /\ Command(Write)' /\ Len(driver'.got) = FrameBytes + 10 =>
           /\ driver'.got[FrameBytes + 10] = 71
           /\ cards'[ctrl'.slot].data[SentFrame'] = SentData'
      /\ Len(driver'.got) = 5 /\ driver'.sent[1] = StartPad /\ driver'.sent[2] = Poll =>
           driver'.got = <<255, PadId, PadByte, PadByte, PadByte>>
  BY <1>1, <1>2, <1>4
<1>7. driver'.kept /\ Command(Read)' /\ Len(driver'.got) = FrameBytes + 12 =>
        SubSeq(driver'.got, 3, FrameBytes + 12) =
          <<90, 93, 0, SentFrame'[1], 92, 93>> \o SentFrame'
            \o cards'[ctrl'.slot].data[SentFrame']
            \o <<Checksum(SentFrame' \o cards'[ctrl'.slot].data[SentFrame']), 71>>
  BY <1>1, <1>2, <1>3, <1>5, Zenon
<1> QED BY <1>6, <1>7, Zenon DEF AnswersRight

(* A step that leaves the transfer alone. *)
LEMMA TransferKept ==
  ASSUME SioInv, TypeOK', driver' = driver, ctrl' = ctrl, cards' = cards,
         port' = [port EXCEPT !.irq = port'.irq]
  PROVE  SioInv'
<1>1. /\ port'.padst = port.padst /\ port'.mcdst = port.mcdst /\ port'.rdwr = port.rdwr
      /\ port'.parp = port.parp /\ port'.bufcount = port.bufcount /\ port'.adrH = port.adrH
      /\ port'.adrL = port.adrL /\ port'.buf = port.buf /\ port'.rx = port.rx
  BY DEF SioInv, TypeOK
<1>2. Sent' = Sent /\ Got' = Got /\ Frame' = Frame /\ Addressed' = Addressed
      /\ ReadAnswer' = ReadAnswer
  BY <1>1 DEF Sent, Got, Frame, Addressed, ReadAnswer, Checksum
<1>3. PadAnswers' <=> PadAnswers
  BY <1>1, <1>2 DEF PadAnswers, Report
<1>4. Paired' /\ PadTransfer' /\ CardTransfer' /\ Commanding' /\ Addressing' /\ Framing'
  BY <1>1, <1>2, <1>3
     DEF SioInv, Paired, PadTransfer, CardTransfer, Commanding, Addressing, Framing
<1>5. AnswersRight'
  BY AnswersKept, Zenon DEF SioInv
<1>6. TypeOK'
  OBVIOUS
<1> QED BY <1>4, <1>5, <1>6, Zenon DEF SioInv

(* When nothing is being transferred only the answers count. *)
LEMMA NothingTransferred ==
  ASSUME TypeOK', Paired', AnswersRight', port'.padst = 0, port'.mcdst = 0,
         driver'.owed => Sent' <= 2
  PROVE  SioInv'
<1>1. Sent' \in Nat
  BY DEF TypeOK, Sent
<1> QED
  BY <1>1 DEF SioInv, PadTransfer, CardTransfer, Commanding, Addressing, Framing

LEMMA StepDeselect == SioInv /\ Deselect => SioInv'
<1> SUFFICES ASSUME SioInv, Deselect PROVE SioInv'
  OBVIOUS
<1>1. 0 \in Positions
  BY FrameSize DEF Positions
<1>2. driver'.sent = <<>> /\ driver'.got = <<>> /\ ~driver'.owed
      /\ driver' \in [sent : Seq(Byte), got : Seq(Byte), owed : BOOLEAN, kept : BOOLEAN]
  BY DEF Deselect, NoTransfer
<1>3. TypeOK'
  <2> TypeOK
    BY DEF SioInv
  <2>1. port' = Port(0, 0, port.rdwr, 0, port.bufcount, port.adrH, port.adrL, port.buf,
                     FALSE, FALSE)
    BY PortTyped DEF Deselect, Port
  <2>2. port' \in Ports
    <3>1. /\ port.rdwr \in 0..2 /\ port.bufcount \in Positions /\ port.adrH \in High
          /\ port.adrL \in Low /\ port.buf \in [Positions -> Byte]
          /\ 0 \in 0..2 /\ 0 \in 0..5 /\ FALSE \in BOOLEAN
      BY PortTyped
    <3> QED BY <1>1, <2>1, <3>1 DEF Port, Ports
  <2> QED BY <1>2, <2>2 DEF Deselect, SioInv, TypeOK, Ports
<1>4. Sent' = 0 /\ Got' = 0 /\ port'.padst = 0 /\ port'.mcdst = 0
  BY <1>2 DEF Sent, Got, Deselect, SioInv, TypeOK
<1>5. Paired'
  BY <1>2, <1>4 DEF Paired
<1>6. Got' # 5 /\ Got' # FrameBytes + 10 /\ Got' # FrameBytes + 12
  BY <1>4, FrameSize
<1>7. AnswersRight'
  BY <1>6 DEF AnswersRight, Got
<1> QED BY <1>3, <1>4, <1>5, <1>7, NothingTransferred

LEMMA StepSelect == ASSUME SioInv, NEW s \in Slots, Select(s) PROVE SioInv'
<1>2. driver.sent = <<>> /\ port.padst = 0 /\ port.mcdst = 0
  BY DEF Select, SioInv, Paired
<1>3. TypeOK'
  BY DEF Select, SioInv, TypeOK, Slots
<1>4. Sent = 0 /\ Got \in Nat /\ Sent' = 0 /\ Got' = Got
  BY <1>2 DEF Sent, Got, Select, SioInv, TypeOK
<1>5. Got = 0 /\ ~driver.owed
  BY <1>4 DEF SioInv, Paired
<1>6. Paired'
  BY <1>2, <1>4, <1>5 DEF Select, Paired
<1>7. Got' # 5 /\ Got' # FrameBytes + 10 /\ Got' # FrameBytes + 12
  BY <1>4, <1>5, FrameSize
<1>8. AnswersRight'
  BY <1>7 DEF AnswersRight, Got
<1> QED BY <1>2, <1>3, <1>4, <1>6, <1>8, NothingTransferred DEF Select

LEMMA StepInterrupts == SioInv /\ (Acknowledge \/ ClearIstat \/ sioInterrupt) => SioInv'
<1> SUFFICES ASSUME SioInv, Acknowledge \/ ClearIstat \/ sioInterrupt PROVE SioInv'
  OBVIOUS
<1>1. driver' = driver /\ ctrl' = ctrl /\ cards' = cards
  BY DEF Acknowledge, ClearIstat, sioInterrupt
<1>2. port' = [port EXCEPT !.irq = port'.irq] /\ TypeOK'
  BY DEF Acknowledge, ClearIstat, sioInterrupt, SioInv, TypeOK
<1> QED BY <1>1, <1>2, TransferKept

(* Other cards: the transfer goes on, but is no longer kept. *)
LEMMA StepLoadMcds == SioInv /\ LoadMcds => SioInv'
<1> SUFFICES ASSUME SioInv, LoadMcds PROVE SioInv'
  OBVIOUS
<1>1. Blank \in Contents
  BY DEF Blank, Contents, Data
<1>2. cards' \in [Slots -> [data : Contents, present : BOOLEAN, new : BOOLEAN, told : BOOLEAN]]
  BY <1>1 DEF LoadMcds
<1>3. /\ driver'.sent = driver.sent /\ driver'.got = driver.got /\ driver'.owed = driver.owed
      /\ ~driver'.kept /\ port' = port /\ ctrl' = ctrl
  BY DEF LoadMcds, SioInv, TypeOK
<1>4. TypeOK'
  BY <1>2, <1>3 DEF LoadMcds, SioInv, TypeOK
<1>5. Sent' = Sent /\ Got' = Got
  BY <1>3 DEF Sent, Got
<1>6. PadAnswers' <=> PadAnswers
  BY <1>3, <1>5 DEF PadAnswers, Report
<1>7. Paired' /\ PadTransfer' /\ CardTransfer' /\ Commanding' /\ Addressing' /\ Framing'
  BY <1>3, <1>5, <1>6
     DEF SioInv, Paired, PadTransfer, CardTransfer, Commanding, Addressing, Framing
<1>8. AnswersRight'
  BY <1>3 DEF SioInv, AnswersRight
<1> QED BY <1>4, <1>7, <1>8 DEF SioInv

-----------------------------------------------------------------------------
(* Bytes sent and answers read, by the driver. *)
Drivers == [sent : Seq(Byte), got : Seq(Byte), owed : BOOLEAN, kept : BOOLEAN]

LEMMA Sending ==
  ASSUME TypeOK, NEW value \in Byte,
         driver' = [driver EXCEPT !.sent = Append(@, value), !.owed = TRUE]
  PROVE  /\ driver' \in Drivers /\ driver'.owed = TRUE /\ driver'.kept = driver.kept
         /\ driver'.got = driver.got /\ Got' = Got /\ Got \in Nat
         /\ Sent \in Nat /\ Sent' = Sent + 1 /\ driver'.sent[Sent + 1] = value
         /\ \A i \in 1..Sent : driver'.sent[i] = driver.sent[i]
<1>1. driver \in Drivers
  BY DEF TypeOK, Drivers
<1>2. driver.sent \in Seq(Byte) /\ driver.got \in Seq(Byte)
      /\ driver = [sent |-> driver.sent, got |-> driver.got, owed |-> driver.owed,
                   kept |-> driver.kept]
      /\ driver.kept \in BOOLEAN
  BY <1>1 DEF Drivers
<1>3. driver' = [sent |-> Append(driver.sent, value), got |-> driver.got, owed |-> TRUE,
                 kept |-> driver.kept]
  BY <1>2
<1>4. /\ Append(driver.sent, value) \in Seq(Byte)
      /\ Len(Append(driver.sent, value)) = Len(driver.sent) + 1
      /\ Append(driver.sent, value)[Len(driver.sent) + 1] = value
      /\ \A i \in 1..Len(driver.sent) : Append(driver.sent, value)[i] = driver.sent[i]
  BY <1>2
<1>5. driver' \in Drivers
  BY <1>2, <1>3, <1>4 DEF Drivers
<1>6. Got \in Nat /\ Sent \in Nat
  BY <1>2 DEF Got, Sent
<1> QED BY <1>3, <1>4, <1>5, <1>6 DEF Sent, Got

LEMMA Starting ==
  ASSUME TypeOK, NEW value \in Byte,
         driver' = [sent |-> <<value>>, got |-> <<>>, owed |-> TRUE, kept |-> TRUE]
  PROVE  /\ driver' \in Drivers /\ driver'.owed = TRUE /\ driver'.kept = TRUE
         /\ driver'.got = <<>> /\ Got' = 0 /\ Sent' = 1 /\ driver'.sent[1] = value
<1>1. <<value>> \in Seq(Byte) /\ <<>> \in Seq(Byte)
  OBVIOUS
<1> QED BY <1>1 DEF Drivers, Sent, Got

LEMMA Reading ==
  ASSUME TypeOK, NEW ret \in Byte,
         driver' = [driver EXCEPT !.got = Append(@, ret), !.owed = FALSE]
  PROVE  /\ driver' \in Drivers /\ driver'.owed = FALSE /\ driver'.kept = driver.kept
         /\ driver'.sent = driver.sent /\ Sent' = Sent /\ Sent \in Nat
         /\ Got \in Nat /\ Got' = Got + 1 /\ driver'.got[Got + 1] = ret
         /\ \A i \in 1..Got : driver'.got[i] = driver.got[i]
<1>1. driver \in Drivers
  BY DEF TypeOK, Drivers
<1>2. driver.sent \in Seq(Byte) /\ driver.got \in Seq(Byte)
      /\ driver = [sent |-> driver.sent, got |-> driver.got, owed |-> driver.owed,
                   kept |-> driver.kept]
      /\ driver.kept \in BOOLEAN
  BY <1>1 DEF Drivers
<1>3. driver' = [sent |-> driver.sent, got |-> Append(driver.got, ret), owed |-> FALSE,
                 kept |-> driver.kept]
  BY <1>2
<1>4. /\ Append(driver.got, ret) \in Seq(Byte)
      /\ Len(Append(driver.got, ret)) = Len(driver.got) + 1
      /\ Append(driver.got, ret)[Len(driver.got) + 1] = ret
      /\ \A i \in 1..Len(driver.got) : Append(driver.got, ret)[i] = driver.got[i]
  BY <1>2
<1>5. driver' \in Drivers
  BY <1>2, <1>3, <1>4 DEF Drivers
<1>6. Got \in Nat /\ Sent \in Nat
  BY <1>2 DEF Got, Sent
<1> QED BY <1>3, <1>4, <1>5, <1>6 DEF Sent, Got

(* What is sent is a byte, and what an address or a frame needs. *)
LEMMA OffersAre ==
  ASSUME TypeOK, NEW value \in Offers
  PROVE  /\ value \in Byte
         /\ port.padst = 0 /\ port.mcdst = 2 => value \in High
         /\ port.padst = 0 /\ port.mcdst = 3 => value \in Low
         /\ port.padst = 0 /\ port.mcdst = 4 /\ port.rdwr = 2 => value \in Data
         /\ port.padst = 0 /\ port.mcdst = 5 /\ port.rdwr = 2 /\ port.parp + 1 < FrameBytes
              => value \in Data
<1>1. High \subseteq Byte /\ Low \subseteq Byte
  BY SioAssumption DEF Byte
<1>2. port.padst \in 0..2 /\ port.mcdst \in 0..5
  BY PortTyped
<1>3. CASE port.padst # 0
  BY <1>2, <1>3 DEF Offers, Byte, Poll, Dummy
<1>4. CASE port.padst = 0 /\ port.mcdst \in {2, 3}
  BY <1>1, <1>4 DEF Offers
<1>5. CASE port.padst = 0 /\ port.mcdst \in {0, 1, 4, 5}
  <2>1. {StartPad, StartCard, Dummy, Read, Write} \cup Data \subseteq Byte
    BY DEF Byte, StartPad, StartCard, Dummy, Read, Write, Data
  <2> QED BY <1>5, <2>1 DEF Offers
<1> QED BY <1>2, <1>3, <1>4, <1>5

(* Until the last answer has been read there is nothing to compare. *)
LEMMA SendIncomplete ==
  ASSUME SioInv, ~driver.owed, port.padst # 0 \/ port.mcdst # 0
  PROVE  /\ Sent = Got /\ Sent \in Nat
         /\ port.padst # 0 => Sent <= 4 /\ driver.sent[1] = StartPad
         /\ port.mcdst # 0 => driver.sent[1] = StartCard
         /\ port.mcdst \in 1..4 => Sent <= 6
         /\ port.mcdst = 5 /\ port.rdwr = 1 => Sent < FrameBytes + 12 /\ driver.sent[2] = Read
         /\ port.mcdst = 5 /\ port.rdwr = 2 => Sent < FrameBytes + 10
         /\ port.mcdst = 5 => port.rdwr \in {1, 2} /\ Sent >= 7
<1>1. Sent = Got /\ Sent \in Nat
  BY DEF SioInv, TypeOK, Paired, Sent, Got
<1>2. port.padst \in 0..2 /\ port.mcdst \in 0..5 /\ port.rdwr \in 0..2
      /\ port.parp \in Nat /\ FrameBytes \in Nat /\ port.bufcount \in Nat
  BY PortTyped, FrameSize DEF SioInv, Positions
<1>3. port.padst # 0 => Sent <= 4 /\ driver.sent[1] = StartPad
  BY <1>1, <1>2 DEF SioInv, PadTransfer, PadAnswers
<1>4. port.mcdst # 0 => driver.sent[1] = StartCard
  BY DEF SioInv, CardTransfer
<1>5. port.mcdst \in 1..4 => Sent <= 6
  BY <1>1, <1>2 DEF SioInv, Commanding, Addressing
<1>6. port.mcdst = 5 => port.parp < port.bufcount /\ Sent = port.parp + 7
                         /\ port.rdwr \in {1, 2}
  BY <1>2 DEF SioInv, Framing, Addressing
<1>7. port.mcdst = 5 /\ port.rdwr = 1 => port.bufcount = FrameBytes + 5 /\ driver.sent[2] = Read
  BY DEF SioInv, Framing, CardTransfer
<1>8. port.mcdst = 5 /\ port.rdwr = 2 => port.bufcount = FrameBytes + 3
  BY DEF SioInv, Framing
<1> QED BY <1>1, <1>2, <1>3, <1>4, <1>5, <1>6, <1>7, <1>8

LEMMA SendAnswers ==
  ASSUME SioInv, ~driver.owed, port.padst # 0 \/ port.mcdst # 0, ctrl' = ctrl,
         NEW value \in Byte,
         driver' = [driver EXCEPT !.sent = Append(@, value), !.owed = TRUE]
  PROVE  AnswersRight' /\ Paired'
<1>1. TypeOK
  BY DEF SioInv
<1>2. /\ driver'.got = driver.got /\ Got' = Got /\ Sent' = Sent + 1 /\ driver'.owed = TRUE
      /\ \A i \in 1..Sent : driver'.sent[i] = driver.sent[i]
  BY <1>1, Sending
<1>3. port.mcdst \in 0..5 /\ port.rdwr \in 0..2 /\ port.padst \in 0..2
  BY <1>1, PortTyped
<1>4. Sent = Got /\ Sent \in Nat /\ Got \in Nat /\ (port.padst # 0 => Sent <= 4)
  BY SendIncomplete
<1>5. Paired'
  <2>1. Sent' = Got' + 1
    BY <1>2, <1>4
  <2>2. ctrl.dtr
    BY DEF SioInv, Paired
  <2> QED BY <1>2, <2>1, <2>2 DEF Paired
<1>6. Got >= 5 => driver'.sent[1] = driver.sent[1] /\ driver'.sent[2] = driver.sent[2]
  <2>1. Got >= 5 => 1 \in 1..Sent /\ 2 \in 1..Sent
    BY <1>4
  <2> QED BY <1>2, <2>1
<1>7. Got >= 5 => port.mcdst # 0 /\ driver.sent[1] = StartCard
  BY <1>4, SendIncomplete
<1>8. ~(Command(Write)' /\ Got' = FrameBytes + 10)
  <2>1. SUFFICES ASSUME Command(Write)', Got = FrameBytes + 10 PROVE FALSE
    BY <1>2
  <2>2. Got >= 12 /\ driver.sent[2] = Write
    BY <1>4, <1>6, <2>1, FrameSize DEF Command
  <2>3. port.mcdst = 5 /\ port.rdwr = 1
    BY <1>3, <1>4, <1>7, <2>1, <2>2, SendIncomplete
  <2> QED BY <2>2, <2>3, SendIncomplete DEF Write, Read
<1>9. ~(Command(Read)' /\ Got' = FrameBytes + 12)
  <2>1. SUFFICES ASSUME Command(Read)', Got = FrameBytes + 12 PROVE FALSE
    BY <1>2
  <2>2. Got >= 12 /\ driver.sent[2] = Read
    BY <1>4, <1>6, <2>1, FrameSize DEF Command
  <2>3. port.mcdst = 5 /\ port.rdwr = 2
    BY <1>3, <1>4, <1>7, <2>1, <2>2, SendIncomplete
  <2> QED BY <1>4, <2>1, <2>3, SendIncomplete, FrameSize
<1>10. ~(Got' = 5 /\ driver'.sent[1] = StartPad)
  BY <1>2, <1>6, <1>7 DEF StartPad, StartCard
<1>11. AnswersRight'
  BY <1>8, <1>9, <1>10 DEF AnswersRight, Got
<1> QED BY <1>5, <1>11

(* The first byte addresses a pad, a card, or nothing. *)
LEMMA SendStart ==
  ASSUME SioInv, NEW value \in Offers, sioWrite8(value), Start(value)
  PROVE  SioInv'
<1>1. TypeOK /\ value \in Byte /\ port.padst = 0 /\ port.mcdst = 0
  BY OffersAre DEF SioInv, Start
<1>2. driver' = [sent |-> <<value>>, got |-> <<>>, owed |-> TRUE, kept |-> TRUE]
  BY <1>1 DEF sioWrite8
<1>3. /\ driver' \in Drivers /\ driver'.owed = TRUE /\ driver'.kept = TRUE
      /\ driver'.got = <<>> /\ Got' = 0 /\ Sent' = 1 /\ driver'.sent[1] = value
  BY <1>1, <1>2, Starting
<1>4. ctrl.dtr /\ ctrl' = ctrl /\ istat' = istat /\ ctrl.slot \in Slots
  BY <1>1 DEF sioWrite8, TypeOK
<1>5. Paired'
  BY <1>3, <1>4 DEF Paired
<1>6. AnswersRight'
  <2>1. ASSUME NEW n, n = 0 PROVE n # 5 /\ n # FrameBytes + 10 /\ n # FrameBytes + 12
    BY <2>1, FrameSize
  <2>2. Got' # 5 /\ Got' # FrameBytes + 10 /\ Got' # FrameBytes + 12
    BY <1>3, <2>1
  <2> QED BY <2>2 DEF AnswersRight, Got
<1>7. /\ 0 \in Positions /\ 2 \in Positions /\ 3 \in Positions /\ 1 \in Positions
      /\ 255 \in Byte /\ 8 \in Byte /\ 0 \in Byte /\ 90 \in Byte /\ 93 \in Byte
  BY FrameSize DEF Positions, Byte
<1>8. Put(0, <<255>>) \in [Positions -> Byte] /\ Put(0, <<255>>)[0] = 255
  <2>1. <<255>> \in Seq(Byte) /\ Len(<<255>>) = 1 /\ <<255>>[1] = 255 /\ 1 \in 1..1
        /\ 0 + 1 - 1 = 0 /\ 0 \in Nat
    BY <1>7
  <2> DEFINE bytes == <<255>>
  <2> HIDE DEF bytes
  <2>2. bytes \in Seq(Byte) /\ Len(bytes) = 1 /\ bytes[1] = 255
    BY <2>1 DEF bytes
  <2>3. /\ Put(0, bytes) \in [Positions -> Byte]
        /\ \A i \in 1..Len(bytes) : 0 + i - 1 \in Positions => Put(0, bytes)[0 + i - 1] = bytes[i]
    BY <1>1, <2>1, <2>2, PutKeepsBytes
  <2>4. Put(0, bytes)[0] = 255
    BY <1>7, <2>1, <2>2, <2>3
  <2> QED BY <2>3, <2>4 DEF bytes
<1>9. ASSUME NoDevice PROVE SioInv'
  <2>1. port' = Port(0, 0, port.rdwr, 0, 0, port.adrH, port.adrL, Put(0, <<255>>), TRUE, port.irq)
    BY <1>1, <1>9, PortTyped DEF NoDevice, Port
  <2>2. port' \in Ports
    <3>1. /\ port.rdwr \in 0..2 /\ port.adrH \in High /\ port.adrL \in Low
          /\ port.irq \in BOOLEAN
      BY <1>1, PortTyped
    <3> QED BY <1>7, <1>8, <2>1, <3>1 DEF Port, Ports
  <2>3. TypeOK'
    BY <1>1, <1>3, <1>4, <1>9, <2>2 DEF NoDevice, TypeOK, Ports, Drivers
  <2>4. port'.padst = 0 /\ port'.mcdst = 0
    BY <2>1 DEF Port
  <2> QED BY <1>3, <1>5, <1>6, <2>3, <2>4, NothingTransferred
<1>10. CASE StartPadTransfer /\ value = StartPad
  <2>1. CASE NoDevice
    BY <1>9, <2>1
  <2>2. CASE ~NoDevice
    <3>1. port' = Port(1, 0, port.rdwr, 0, 2, port.adrH, port.adrL, Put(0, <<255>>), TRUE,
                       port.irq)
          /\ armed' = TRUE /\ cards' = cards
      <4>1. /\ port' = [port EXCEPT !.rx = TRUE, !.buf = Put(0, <<255>>), !.parp = 0,
                                    !.bufcount = 2, !.padst = 1]
            /\ armed' = TRUE /\ cards' = cards
        BY <1>10, <2>2 DEF StartPadTransfer
      <4> QED BY <1>1, <4>1, PortTyped DEF Port
    <3>2. port' \in Ports
      <4>1. /\ port.rdwr \in 0..2 /\ port.adrH \in High /\ port.adrL \in Low
            /\ port.irq \in BOOLEAN
        BY <1>1, PortTyped
      <4> QED BY <1>7, <1>8, <3>1, <4>1 DEF Port, Ports
    <3>3. TypeOK'
      BY <1>1, <1>3, <1>4, <3>1, <3>2 DEF TypeOK, Ports, Drivers
    <3>4. /\ port'.padst = 1 /\ port'.mcdst = 0 /\ port'.parp = 0 /\ port'.bufcount = 2
          /\ port'.rx /\ port'.buf[0] = 255
      BY <1>8, <3>1 DEF Port
    <3>5. PadAnswers'
      BY <1>3, <1>10, <3>4 DEF PadAnswers, Report
    <3>6. PadTransfer' /\ CardTransfer' /\ Commanding' /\ Addressing' /\ Framing'
      BY <1>3, <3>4, <3>5 DEF PadTransfer, CardTransfer, Commanding, Addressing, Framing
    <3> QED BY <1>5, <1>6, <3>3, <3>6 DEF SioInv
  <2> QED BY <2>1, <2>2
<1>11. CASE StartCardTransfer /\ value = StartCard
  <2>1. CASE ~cards[ctrl.slot].present
    BY <1>9, <1>11, <2>1 DEF StartCardTransfer
  <2>2. CASE cards[ctrl.slot].present
    <3> DEFINE flag == IF cards[ctrl.slot].new THEN 8 ELSE 0
               answer == Put(0, <<255, flag, 90, 93>>)
    <3>1. port' = Port(0, 1, 0, 0, 3, port.adrH, port.adrL, answer, TRUE, port.irq)
          /\ armed' = TRUE /\ cards' = cards
      <4>1. /\ port' = [port EXCEPT !.rx = TRUE, !.parp = 0, !.bufcount = 3, !.mcdst = 1,
                                    !.rdwr = 0, !.buf = answer]
            /\ armed' = TRUE /\ cards' = cards
        BY <1>11, <2>2 DEF StartCardTransfer
      <4> HIDE DEF answer
      <4> QED BY <1>1, <4>1, PortTyped DEF Port
    <3>2. answer \in [Positions -> Byte] /\ answer[2] = 90 /\ answer[3] = 93
      <4>1. flag \in Byte
        BY <1>7
      <4> HIDE DEF flag
      <4> DEFINE bytes == <<255, flag, 90, 93>>
      <4>2. bytes \in Seq(Byte) /\ Len(bytes) = 4 /\ bytes[3] = 90 /\ bytes[4] = 93
        BY <1>7, <4>1
      <4> HIDE DEF bytes
      <4>3. /\ Put(0, bytes) \in [Positions -> Byte]
            /\ \A i \in 1..Len(bytes) : 0 + i - 1 \in Positions => Put(0, bytes)[0 + i - 1] = bytes[i]
        <5>1. 0 \in Nat /\ TypeOK /\ bytes \in Seq(Byte)
          BY <1>1, <4>2
        <5> QED BY <5>1, PutKeepsBytes
      <4>4. 3 \in 1..4 /\ 4 \in 1..4 /\ 0 + 3 - 1 = 2 /\ 0 + 4 - 1 = 3
        OBVIOUS
      <4> QED BY <1>7, <4>2, <4>3, <4>4 DEF bytes
    <3> HIDE DEF answer
    <3>3. port' \in Ports
      <4>1. port.adrH \in High /\ port.adrL \in Low /\ port.irq \in BOOLEAN
        BY <1>1, PortTyped
      <4> QED BY <1>7, <3>1, <3>2, <4>1 DEF Port, Ports
    <3>4. TypeOK'
      BY <1>1, <1>3, <1>4, <3>1, <3>3 DEF TypeOK, Ports, Drivers
    <3>5. /\ port'.padst = 0 /\ port'.mcdst = 1 /\ port'.rdwr = 0 /\ port'.parp = 0
          /\ port'.bufcount = 3 /\ port'.rx /\ port'.buf[2] = 90 /\ port'.buf[3] = 93
      BY <3>1, <3>2 DEF Port
    <3>6. PadTransfer' /\ Addressing' /\ Framing'
      BY <1>3, <3>5 DEF PadTransfer, Addressing, Framing
    <3>7. CardTransfer'
      <4>1. cards'[ctrl'.slot].present /\ ctrl'.dtr
        BY <1>4, <2>2, <3>1
      <4>2. driver'.sent[1] = StartCard /\ port'.rdwr # 1 /\ port'.rdwr # 2
        BY <1>3, <1>11, <3>5
      <4> QED BY <3>5, <4>1, <4>2 DEF CardTransfer
    <3>8. Commanding'
      BY <1>3, <3>5 DEF Commanding
    <3> QED BY <1>5, <1>6, <3>4, <3>6, <3>7, <3>8 DEF SioInv
  <2> QED BY <2>1, <2>2
<1> QED BY <1>9, <1>10, <1>11 DEF Start, StartPad, StartCard

(* What every further byte of a transfer does. *)
Continues(value) ==
  /\ TypeOK /\ value \in Byte /\ ~driver.owed /\ Sent = Got /\ Sent \in Nat
  /\ ctrl' = ctrl /\ istat' = istat
  /\ driver' \in Drivers /\ driver'.owed = TRUE /\ driver'.kept = driver.kept
  /\ driver'.got = driver.got /\ Got' = Got
  /\ Sent' = Sent + 1 /\ driver'.sent[Sent + 1] = value
  /\ \A i \in 1..Sent : driver'.sent[i] = driver.sent[i]
  /\ AnswersRight' /\ Paired'

LEMMA SendContinues ==
  ASSUME SioInv, NEW value \in Offers, sioWrite8(value), port.padst # 0 \/ port.mcdst # 0
  PROVE  Continues(value)
<1>1. TypeOK /\ value \in Byte
  BY OffersAre DEF SioInv
<1>2. /\ ~driver.owed /\ ctrl' = ctrl /\ istat' = istat
      /\ driver' = [driver EXCEPT !.sent = Append(@, value), !.owed = TRUE]
  BY DEF sioWrite8
<1>3. Sent = Got /\ Sent \in Nat
  BY <1>2, SendIncomplete
<1>4. AnswersRight' /\ Paired'
  BY <1>1, <1>2, SendAnswers
<1> QED BY <1>1, <1>2, <1>3, <1>4, Sending DEF Continues

LEMMA SendPadCommand ==
  ASSUME SioInv, NEW value \in Offers, sioWrite8(value), PadCommand(value)
  PROVE  SioInv'
<1>1. port.padst = 1
  BY DEF PadCommand
<1>2. Continues(value)
  BY <1>1, SendContinues
<1> USE DEF Continues
<1>3. /\ Sent = 1 /\ driver.sent[1] = StartPad /\ port.mcdst = 0 /\ port.rx = TRUE
      /\ \A i \in 1..Got : driver.got[i] = Report(i)
  BY <1>1, <1>2, PortTyped DEF SioInv, PadTransfer, PadAnswers
<1>4. armed' = TRUE /\ cards' = cards
  BY DEF PadCommand
<1>5. /\ port.rdwr \in 0..2 /\ port.adrH \in High /\ port.adrL \in Low /\ port.irq \in BOOLEAN
      /\ port.parp \in Positions /\ port.bufcount \in Positions
      /\ port.buf \in [Positions -> Byte]
  BY <1>2, PortTyped
<1>6. CASE value # Poll
  <2>1. port' = Port(0, 0, port.rdwr, port.parp, port.bufcount, port.adrH, port.adrL, port.buf,
                     TRUE, port.irq)
    <3>1. port' = [port EXCEPT !.padst = 0]
      BY <1>6 DEF PadCommand
    <3> QED BY <1>2, <1>3, <3>1, PortTyped DEF Port
  <2>2. port' \in Ports
    BY <1>5, <2>1 DEF Port, Ports
  <2>3. TypeOK'
    BY <1>2, <1>4, <2>2 DEF TypeOK, Ports, Drivers
  <2>4. port'.padst = 0 /\ port'.mcdst = 0 /\ Sent' <= 2
    BY <1>2, <1>3, <2>1 DEF Port
  <2> QED BY <1>2, <2>3, <2>4, NothingTransferred
<1>7. CASE value = Poll
  <2>1. 1 \in Positions /\ 4 \in Positions /\ PadId \in Byte /\ 2 + (PadId % 16) * 2 = 4
    BY FrameSize, SMT DEF Positions, Byte, PadId
  <2>2. Put(1, <<PadId>>) \in [Positions -> Byte] /\ Put(1, <<PadId>>)[1] = PadId
    <3> DEFINE bytes == <<PadId>>
    <3>1. bytes \in Seq(Byte) /\ Len(bytes) = 1 /\ bytes[1] = PadId /\ 1 \in Nat
      BY <2>1
    <3> HIDE DEF bytes
    <3>2. /\ Put(1, bytes) \in [Positions -> Byte]
          /\ \A i \in 1..Len(bytes) : 1 + i - 1 \in Positions => Put(1, bytes)[1 + i - 1] = bytes[i]
      BY <1>2, <3>1, PutKeepsBytes
    <3>3. 1 \in 1..1 /\ 1 + 1 - 1 = 1
      OBVIOUS
    <3> QED BY <2>1, <3>1, <3>2, <3>3 DEF bytes
  <2>3. port' = Port(2, 0, port.rdwr, 1, 4, port.adrH, port.adrL, Put(1, <<PadId>>),
                     TRUE, port.irq)
    <3>1. port' = [port EXCEPT !.padst = 2, !.parp = 1, !.buf = Put(1, <<PadId>>),
                               !.bufcount = 4]
      BY <1>7, <2>1 DEF PadCommand
    <3> QED BY <1>2, <1>3, <3>1, PortTyped DEF Port
  <2>4. port' \in Ports
    BY <1>5, <2>1, <2>2, <2>3 DEF Port, Ports
  <2>5. TypeOK'
    BY <1>2, <1>4, <2>4 DEF TypeOK, Ports, Drivers
  <2>6. /\ port'.padst = 2 /\ port'.mcdst = 0 /\ port'.parp = 1 /\ port'.bufcount = 4
        /\ port'.rx = TRUE /\ port'.buf[1] = PadId
    BY <2>2, <2>3 DEF Port
  <2>7. Sent' = 2 /\ driver'.sent[1] = StartPad
    BY <1>2, <1>3
  <2>8. PadAnswers'
    BY <1>2, <1>3, <2>6, <2>7 DEF PadAnswers, Report
  <2>9. PadTransfer' /\ CardTransfer' /\ Commanding' /\ Addressing' /\ Framing'
    BY <2>6, <2>7, <2>8 DEF PadTransfer, CardTransfer, Commanding, Addressing, Framing
  <2> QED BY <1>2, <2>5, <2>9 DEF SioInv
<1> QED BY <1>6, <1>7

LEMMA SendPadReport ==
  ASSUME SioInv, NEW value \in Offers, sioWrite8(value), PadReport
  PROVE  SioInv'
<1>1. port.padst = 2 /\ cards' = cards
  BY DEF PadReport
<1>2. Continues(value)
  BY <1>1, SendContinues
<1> USE DEF Continues
<1>3. /\ Sent \in 2..4 /\ driver.sent[1] = StartPad /\ port.mcdst = 0 /\ port.rx = TRUE
      /\ port.parp = Sent - 1 /\ port.bufcount = 4
      /\ \A i \in 1..Got : driver.got[i] = Report(i)
  BY <1>1, <1>2, PortTyped DEF SioInv, PadTransfer, PadAnswers
<1> DEFINE last == port.parp + 1 = port.bufcount
           padst == IF last THEN 0 ELSE 2
           bytes == <<PadByte>>
<1>4. /\ port' = [port EXCEPT !.parp = @ + 1, !.buf = Put(port.parp + 1, bytes),
                             !.padst = padst]
      /\ armed' = (armed \/ ~last)
  BY DEF PadReport
<1>5. /\ port.rdwr \in 0..2 /\ port.adrH \in High /\ port.adrL \in Low /\ port.irq \in BOOLEAN
      /\ port.bufcount \in Positions /\ padst \in 0..2
  BY <1>2, PortTyped
<1>6. Sent \in Positions /\ Sent = port.parp + 1 /\ Sent \in Nat /\ armed' \in BOOLEAN
  BY <1>2, <1>3, <1>4, FrameSize DEF Positions, TypeOK
<1>7. Put(Sent, bytes) \in [Positions -> Byte] /\ Put(Sent, bytes)[Sent] = PadByte
  <2>1. bytes \in Seq(Byte) /\ Len(bytes) = 1 /\ bytes[1] = PadByte
    BY DEF Byte, PadByte
  <2> HIDE DEF bytes
  <2>2. /\ Put(Sent, bytes) \in [Positions -> Byte]
        /\ \A i \in 1..Len(bytes) :
             Sent + i - 1 \in Positions => Put(Sent, bytes)[Sent + i - 1] = bytes[i]
    BY <1>2, <1>6, <2>1, PutKeepsBytes
  <2>3. 1 \in 1..1 /\ Sent + 1 - 1 = Sent
    BY <1>6
  <2> QED BY <1>6, <2>1, <2>2, <2>3
<1> HIDE DEF bytes
<1>8. port' = Port(padst, 0, port.rdwr, Sent, port.bufcount, port.adrH, port.adrL,
                   Put(Sent, bytes), TRUE, port.irq)
  <2> HIDE DEF padst
  <2> QED BY <1>2, <1>3, <1>4, <1>6, PortTyped DEF Port
<1>9. port' \in Ports
  <2> HIDE DEF padst
  <2> QED BY <1>5, <1>6, <1>7, <1>8 DEF Port, Ports
<1>10. TypeOK'
  BY <1>1, <1>2, <1>6, <1>9 DEF TypeOK, Ports, Drivers
<1>11. /\ port'.padst = padst /\ port'.mcdst = 0 /\ port'.parp = Sent /\ port'.bufcount = 4
       /\ port'.rx = TRUE /\ port'.buf[Sent] = PadByte
  <2> HIDE DEF padst
  <2> QED BY <1>3, <1>7, <1>8 DEF Port
<1>12. Sent' \in 3..5 /\ driver'.sent[1] = StartPad /\ (padst = 2 => Sent' <= 4)
       /\ (padst = 0 => Sent' = 5)
  BY <1>2, <1>3
<1>13. PadAnswers'
  <2>1. port'.buf[port'.parp] = Report(Sent')
    BY <1>11, <1>12 DEF Report
  <2> QED BY <1>2, <1>3, <1>11, <1>12, <2>1 DEF PadAnswers, Report
<1>14. PadTransfer' /\ CardTransfer' /\ Commanding' /\ Addressing' /\ Framing'
  BY <1>11, <1>12, <1>13 DEF PadTransfer, CardTransfer, Commanding, Addressing, Framing
<1> QED BY <1>2, <1>10, <1>14 DEF SioInv

(* What a step of a card's transfer has to show, when the pads have no part. *)
CardGoesOn(value) ==
  /\ Continues(value) /\ port.mcdst # 0
  /\ port' \in Ports /\ port'.padst = 0 /\ port'.mcdst # 0 /\ port'.rx = TRUE
  /\ armed' = TRUE
  /\ cards' \in [Slots -> [data : Contents, present : BOOLEAN, new : BOOLEAN, told : BOOLEAN]]
  /\ cards'[ctrl.slot].present = cards[ctrl.slot].present
  /\ port'.rdwr = 1 => driver'.sent[2] = Read
  /\ port'.rdwr = 2 => driver'.sent[2] = Write
  /\ Commanding' /\ Addressing' /\ Framing'

LEMMA CardContinues == ASSUME SioInv, NEW value, CardGoesOn(value) PROVE SioInv'
<1> USE DEF Continues, CardGoesOn
<1>1. TypeOK'
  BY DEF TypeOK, Ports, Drivers
<1>2. port.mcdst \in 0..5
  BY PortTyped
<1>3. driver'.sent[1] = StartCard
  <2>1. driver.sent[1] = StartCard /\ Sent >= 1
    <3>1. port.mcdst \in 1..5
      BY <1>2
    <3>2. port.parp \in Nat
      BY PortTyped, FrameSize DEF Positions
    <3> QED BY <3>1, <3>2 DEF SioInv, CardTransfer, Commanding, Addressing, Framing
  <2> QED BY <2>1
<1>4. ctrl'.dtr /\ (driver'.kept => cards'[ctrl'.slot].present)
  BY DEF SioInv, CardTransfer
<1>5. CardTransfer'
  BY <1>3, <1>4 DEF CardTransfer
<1>6. PadTransfer'
  BY DEF PadTransfer
<1> QED BY <1>1, <1>5, <1>6 DEF SioInv

Commanded(rdwr) ==
  /\ rdwr \in 1..2 /\ port' = [port EXCEPT !.parp = port.parp + 1, !.rdwr = rdwr]
  /\ rdwr = 1 => driver'.sent[2] = Read
  /\ rdwr = 2 => driver'.sent[2] = Write

LEMMA SendCardCommand ==
  ASSUME SioInv, NEW value \in Offers, sioWrite8(value), CardCommand(value)
  PROVE  SioInv'
<1>1. port.mcdst = 1 /\ armed' = TRUE /\ cards' = cards
  BY DEF CardCommand
<1>2. Continues(value)
  BY <1>1, SendContinues
<1> USE DEF Continues
<1>3. /\ port.padst = 0 /\ port.rx = TRUE /\ port.parp \in 0..2 /\ Sent = port.parp + 1
      /\ port.bufcount = 3 /\ (port.rdwr = 0 <=> port.parp = 0)
      /\ port.buf[2] = 90 /\ port.buf[3] = 93
      /\ \A i \in 3..Got : driver.got[i] = port.buf[i - 1]
      /\ (port.rdwr = 1 => driver.sent[2] = Read) /\ (port.rdwr = 2 => driver.sent[2] = Write)
  <2>1. port.rx = TRUE
    BY <1>1, <1>2, PortTyped DEF SioInv, CardTransfer
  <2>2. port.padst = 0
    BY <1>1 DEF SioInv, CardTransfer
  <2>3. /\ port.parp \in 0..3 /\ Sent = port.parp + 1 /\ (port.parp = 3 => driver.owed)
        /\ port.bufcount = 3 /\ (port.rdwr = 0 <=> port.parp = 0)
        /\ port.buf[2] = 90 /\ port.buf[3] = 93
        /\ \A i \in 3..Got : driver.got[i] = port.buf[i - 1]
    BY <1>1 DEF SioInv, Commanding
  <2>4. (port.rdwr = 1 => driver.sent[2] = Read) /\ (port.rdwr = 2 => driver.sent[2] = Write)
    BY <1>1 DEF SioInv, CardTransfer
  <2> QED BY <1>2, <2>1, <2>2, <2>3, <2>4
<1>4. /\ port.rdwr \in 0..2 /\ port.adrH \in High /\ port.adrL \in Low /\ port.irq \in BOOLEAN
      /\ port.bufcount \in Positions /\ port.buf \in [Positions -> Byte]
      /\ port.parp + 1 \in Positions /\ 1 \in Positions
  BY <1>2, <1>3, PortTyped, FrameSize DEF Positions
<1>5. ASSUME NEW rdwr, Commanded(rdwr) PROVE SioInv'
  <2>1. port' = Port(0, 1, rdwr, port.parp + 1, port.bufcount, port.adrH, port.adrL, port.buf,
                     TRUE, port.irq)
    BY <1>1, <1>2, <1>3, <1>5, PortTyped DEF Port, Commanded
  <2>2. rdwr \in 1..2 /\ rdwr \in 0..2
    BY <1>5 DEF Commanded
  <2>3. port' \in Ports
    BY <1>4, <2>1, <2>2 DEF Port, Ports
  <2>4. /\ port'.padst = 0 /\ port'.mcdst = 1 /\ port'.rdwr = rdwr /\ port'.parp = port.parp + 1
        /\ port'.bufcount = 3 /\ port'.buf = port.buf /\ port'.rx = TRUE
    BY <1>3, <2>1 DEF Port
  <2>5. Commanding'
    BY <1>2, <1>3, <2>2, <2>4 DEF Commanding
  <2>6. Addressing' /\ Framing'
    BY <2>4 DEF Addressing, Framing
  <2>7. CardGoesOn(value)
    BY <1>1, <1>2, <1>5, <2>3, <2>4, <2>5, <2>6 DEF CardGoesOn, SioInv, TypeOK, Commanded
  <2> QED BY <2>7, CardContinues
<1>6. CASE port.rdwr # 0
  <2>1. port' = [port EXCEPT !.parp = @ + 1]
    BY <1>6 DEF CardCommand
  <2>2. port' = [port EXCEPT !.parp = port.parp + 1, !.rdwr = port.rdwr]
    BY <1>2, <2>1, PortTyped DEF Port
  <2>3. port.rdwr \in 1..2 /\ Sent >= 2
    BY <1>3, <1>4, <1>6
  <2>4. driver'.sent[2] = driver.sent[2]
    BY <1>2, <2>3
  <2>5. Commanded(port.rdwr)
    BY <1>3, <2>2, <2>3, <2>4 DEF Commanded
  <2> QED BY <1>5, <2>3, <2>5
<1>7. CASE port.rdwr = 0 /\ value \in {Read, Write}
  <2>1. port.parp + 1 = 1 /\ Sent + 1 = 2
    BY <1>3, <1>7
  <2>2. driver'.sent[2] = value
    BY <1>2, <2>1
  <2>3. CASE value = Read
    <3>1. port' = [port EXCEPT !.parp = 1, !.rdwr = 1]
      BY <1>7, <2>3 DEF CardCommand, Read, Write
    <3>2. port' = [port EXCEPT !.parp = port.parp + 1, !.rdwr = 1]
      BY <2>1, <3>1
    <3>3. Commanded(1)
      BY <2>2, <2>3, <3>2 DEF Commanded
    <3> QED BY <1>5, <3>3
  <2>4. CASE value = Write
    <3>1. port' = [port EXCEPT !.parp = 1, !.rdwr = 2]
      BY <1>7, <2>4 DEF CardCommand, Read, Write
    <3>2. port' = [port EXCEPT !.parp = port.parp + 1, !.rdwr = 2]
      BY <2>1, <3>1
    <3>3. Commanded(2)
      BY <2>2, <2>4, <3>2 DEF Commanded
    <3> QED BY <1>5, <3>3
  <2> QED BY <1>7, <2>3, <2>4
<1>8. CASE port.rdwr = 0 /\ value \notin {Read, Write}
  <2>1. port' = [port EXCEPT !.parp = 1, !.mcdst = 0]
    BY <1>8 DEF CardCommand
  <2>2. port' = Port(0, 0, port.rdwr, 1, port.bufcount, port.adrH, port.adrL, port.buf,
                     TRUE, port.irq)
    BY <1>2, <1>3, <2>1, PortTyped DEF Port
  <2>3. port' \in Ports
    BY <1>4, <2>2 DEF Port, Ports
  <2>4. TypeOK'
    BY <1>1, <1>2, <2>3 DEF TypeOK, Ports, Drivers
  <2>5. port'.padst = 0 /\ port'.mcdst = 0 /\ Sent' <= 2
    BY <1>2, <1>3, <1>8, <2>2 DEF Port
  <2> QED BY <1>2, <2>4, <2>5, NothingTransferred
<1> QED BY <1>6, <1>7, <1>8

LEMMA PutFirst ==
  ASSUME TypeOK, NEW b \in Byte
  PROVE  Put(0, <<b>>) \in [Positions -> Byte] /\ Put(0, <<b>>)[0] = b
<1> DEFINE bytes == <<b>>
<1>1. bytes \in Seq(Byte) /\ Len(bytes) = 1 /\ bytes[1] = b /\ 0 \in Nat
  OBVIOUS
<1> HIDE DEF bytes
<1>2. /\ Put(0, bytes) \in [Positions -> Byte]
      /\ \A i \in 1..Len(bytes) : 0 + i - 1 \in Positions => Put(0, bytes)[0 + i - 1] = bytes[i]
  BY <1>1, PutKeepsBytes
<1>3. 1 \in 1..1 /\ 0 + 1 - 1 = 0 /\ 0 \in Positions
  BY FrameSize DEF Positions
<1> QED BY <1>1, <1>2, <1>3 DEF bytes

(* A step within a card's transfer finds it so. *)
CardSending(value) ==
  /\ Continues(value) /\ port.padst = 0 /\ port.rx = TRUE /\ port.rdwr \in 1..2
  /\ (port.rdwr = 1 => driver.sent[2] = Read) /\ (port.rdwr = 2 => driver.sent[2] = Write)
  /\ (port.rdwr = 1 => driver'.sent[2] = Read) /\ (port.rdwr = 2 => driver'.sent[2] = Write)
  /\ Sent >= 4 /\ driver.got[3] = 90 /\ driver.got[4] = 93
  /\ \A i \in 1..6 : i <= Sent => driver'.sent[i] = driver.sent[i]

LEMMA SendsToCard ==
  ASSUME SioInv, NEW value \in Offers, sioWrite8(value), port.mcdst \in 2..5
  PROVE  CardSending(value)
<1>1. Continues(value)
  BY SendContinues
<1> USE DEF Continues
<1>2. port.rx \in BOOLEAN /\ port.rdwr \in 0..2 /\ port.parp \in Nat
  BY <1>1, PortTyped, FrameSize DEF Positions
<1>3. port.rdwr # 0 /\ driver.got[3] = 90 /\ driver.got[4] = 93 /\ Sent >= 4
  <2>1. port.rdwr # 0 /\ driver.got[3] = 90 /\ driver.got[4] = 93
    BY DEF SioInv, Addressing
  <2>2. Sent >= 4
    BY <1>2 DEF SioInv, Addressing, Framing
  <2> QED BY <2>1, <2>2
<1>4. port.padst = 0 /\ port.rx
      /\ (port.rdwr = 1 => driver.sent[2] = Read) /\ (port.rdwr = 2 => driver.sent[2] = Write)
  BY DEF SioInv, CardTransfer
<1>5. \A i \in 1..6 : i <= Sent => driver'.sent[i] = driver.sent[i]
  BY <1>1
<1>6. driver'.sent[2] = driver.sent[2]
  <2>1. 2 \in 1..6 /\ 2 <= Sent
    BY <1>1, <1>3
  <2> QED BY <1>5, <2>1
<1> QED BY <1>1, <1>2, <1>3, <1>4, <1>5, <1>6 DEF CardSending

LEMMA SendAddress ==
  ASSUME SioInv, NEW value \in Offers, sioWrite8(value), Address(value)
  PROVE  SioInv'
<1>1. port.mcdst \in {2, 3} /\ armed' = TRUE /\ cards' = cards
  BY DEF Address
<1>2. Continues(value)
  BY <1>1, SendContinues
<1> USE DEF Continues
<1>3. port.padst = 0 /\ port.rx = TRUE /\ port.rdwr \in 1..2
      /\ (port.rdwr = 1 => driver.sent[2] = Read) /\ (port.rdwr = 2 => driver.sent[2] = Write)
      /\ driver.got[3] = 90 /\ driver.got[4] = 93 /\ Sent = port.mcdst + 2
  <2>1. port.rx \in BOOLEAN /\ port.rdwr \in 0..2
    BY <1>2, PortTyped
  <2>2. port.rdwr # 0 /\ driver.got[3] = 90 /\ driver.got[4] = 93 /\ Sent = port.mcdst + 2
    BY <1>1 DEF SioInv, Addressing
  <2>3. port.padst = 0 /\ port.rx
        /\ (port.rdwr = 1 => driver.sent[2] = Read) /\ (port.rdwr = 2 => driver.sent[2] = Write)
    BY <1>1 DEF SioInv, CardTransfer
  <2> QED BY <2>1, <2>2, <2>3
<1>4. /\ driver'.sent[2] = driver.sent[2] /\ driver'.got[3] = 90 /\ driver'.got[4] = 93
      /\ driver'.sent[port.mcdst + 3] = value /\ Sent' = port.mcdst + 3
      /\ (port.mcdst = 3 => driver'.sent[5] = driver.sent[5])
  BY <1>1, <1>2, <1>3
<1>5. /\ port.adrH \in High /\ port.adrL \in Low /\ port.irq \in BOOLEAN
      /\ 0 \in Positions /\ 1 \in Positions /\ 0 \in Byte /\ port.adrH \in Byte
  <2>1. port.adrH \in High /\ port.adrL \in Low /\ port.irq \in BOOLEAN
    BY <1>2, PortTyped
  <2>2. High \subseteq Byte
    BY SioAssumption DEF Byte
  <2>3. 0 \in Positions /\ 1 \in Positions /\ 0 \in Byte
    BY FrameSize DEF Positions, Byte
  <2> QED BY <2>1, <2>2, <2>3
<1>6. CASE port.mcdst = 2
  <2>1. port' = Port(0, 3, port.rdwr, 0, 1, value, port.adrL, Put(0, <<0>>), TRUE, port.irq)
    <3>1. port' = [port EXCEPT !.adrH = value, !.buf = Put(0, <<0>>), !.parp = 0,
                               !.bufcount = 1, !.mcdst = 3]
      BY <1>6 DEF Address
    <3> QED BY <1>2, <1>3, <3>1, PortTyped DEF Port
  <2>2. Put(0, <<0>>) \in [Positions -> Byte] /\ Put(0, <<0>>)[0] = 0
    BY <1>2, <1>5, PutFirst
  <2>3. value \in High
    BY <1>2, <1>3, <1>6, OffersAre
  <2>4. port' \in Ports
    BY <1>3, <1>5, <2>1, <2>2, <2>3 DEF Port, Ports
  <2>5. /\ port'.padst = 0 /\ port'.mcdst = 3 /\ port'.rdwr = port.rdwr /\ port'.parp = 0
        /\ port'.bufcount = 1 /\ port'.buf[0] = 0 /\ port'.rx = TRUE /\ port'.adrH = value
    BY <2>1, <2>2 DEF Port
  <2>6. Commanding' /\ Framing'
    BY <2>5 DEF Commanding, Framing
  <2>7. Addressing'
    BY <1>2, <1>3, <1>4, <1>6, <2>5 DEF Addressing
  <2>8. CardGoesOn(value)
    BY <1>1, <1>2, <1>3, <1>4, <2>4, <2>5, <2>6, <2>7 DEF CardGoesOn, SioInv, TypeOK
  <2> QED BY <2>8, CardContinues
<1>7. CASE port.mcdst = 3
  <2>1. port' = Port(0, 4, port.rdwr, 0, 1, port.adrH, value, Put(0, <<port.adrH>>), TRUE,
                     port.irq)
    <3>1. port' = [port EXCEPT !.adrL = value, !.buf = Put(0, <<port.adrH>>), !.parp = 0,
                               !.bufcount = 1, !.mcdst = 4]
      BY <1>7 DEF Address
    <3> QED BY <1>2, <1>3, <3>1, PortTyped DEF Port
  <2>2. Put(0, <<port.adrH>>) \in [Positions -> Byte] /\ Put(0, <<port.adrH>>)[0] = port.adrH
    BY <1>2, <1>5, PutFirst
  <2>3. value \in Low
    BY <1>2, <1>3, <1>7, OffersAre
  <2>4. port' \in Ports
    BY <1>3, <1>5, <2>1, <2>2, <2>3 DEF Port, Ports
  <2>5. /\ port'.padst = 0 /\ port'.mcdst = 4 /\ port'.rdwr = port.rdwr /\ port'.parp = 0
        /\ port'.bufcount = 1 /\ port'.buf[0] = port.adrH /\ port'.rx = TRUE
        /\ port'.adrH = port.adrH /\ port'.adrL = value
    BY <2>1, <2>2 DEF Port
  <2>6. Commanding' /\ Framing'
    BY <2>5 DEF Commanding, Framing
  <2>7. driver'.got[5] = 0 /\ driver'.sent[5] = port.adrH
    BY <1>2, <1>4, <1>7 DEF SioInv, Addressing
  <2>8. Addressing'
    BY <1>2, <1>3, <1>4, <1>7, <2>5, <2>7 DEF Addressing
  <2>9. CardGoesOn(value)
    BY <1>1, <1>2, <1>3, <1>4, <2>4, <2>5, <2>6, <2>8 DEF CardGoesOn, SioInv, TypeOK
  <2> QED BY <2>9, CardContinues
<1> QED BY <1>1, <1>6, <1>7

(* The frame, or the first byte of it. *)
LEMMA SendFirstByte ==
  ASSUME SioInv, NEW value \in Offers, sioWrite8(value), FirstByte(value)
  PROVE  SioInv'
<1>1. port.mcdst = 4 /\ armed' = TRUE /\ cards' = cards
  BY DEF FirstByte
<1>2. CardSending(value)
  BY <1>1, SendsToCard
<1>3. Continues(value)
  BY <1>2 DEF CardSending
<1>4. /\ Sent = 6 /\ driver.got[5] = 0 /\ driver.got[6] = port.adrH
      /\ driver.sent[5] = port.adrH /\ driver.sent[6] = port.adrL
  <2> ~driver.owed
    BY <1>3 DEF Continues
  <2> QED BY <1>1 DEF SioInv, Addressing
<1>5. /\ driver'.got = driver.got /\ Got' = 6 /\ Sent' = 7 /\ driver'.sent[7] = value
      /\ driver'.sent[5] = port.adrH /\ driver'.sent[6] = port.adrL
      /\ driver.got[3] = 90 /\ driver.got[4] = 93
  <2>1. driver'.got = driver.got /\ Got' = 6 /\ Sent' = 7 /\ driver'.sent[7] = value
    BY <1>3, <1>4 DEF Continues
  <2>2. driver'.sent[5] = driver.sent[5] /\ driver'.sent[6] = driver.sent[6]
        /\ driver.got[3] = 90 /\ driver.got[4] = 93
    BY <1>2, <1>4 DEF CardSending
  <2> QED BY <1>4, <2>1, <2>2
<1>6. TypeOK /\ value \in Byte /\ ctrl' = ctrl
  BY <1>3 DEF Continues
<1>7. port.padst = 0 /\ port.rx = TRUE /\ port.rdwr \in 1..2
      /\ (port.rdwr = 1 => driver'.sent[2] = Read) /\ (port.rdwr = 2 => driver'.sent[2] = Write)
  BY <1>2 DEF CardSending
<1>8. /\ port.adrH \in High /\ port.adrL \in Low /\ port.irq \in BOOLEAN
      /\ 0 \in Positions /\ 1 \in Positions /\ FrameBytes + 3 \in Positions
      /\ FrameBytes + 5 \in Positions /\ FrameBytes + 1 \in Positions
      /\ FrameBytes + 2 \in Positions /\ 92 \in Byte /\ 93 \in Byte /\ 71 \in Byte
      /\ port.adrL \in Byte
  <2>1. port.adrH \in High /\ port.adrL \in Low /\ port.irq \in BOOLEAN
    BY <1>6, PortTyped
  <2>2. Low \subseteq Byte
    BY SioAssumption DEF Byte
  <2>3. /\ 0 \in Positions /\ 1 \in Positions /\ FrameBytes + 3 \in Positions
        /\ FrameBytes + 5 \in Positions /\ FrameBytes + 1 \in Positions
        /\ FrameBytes + 2 \in Positions
    BY FrameSize DEF Positions
  <2>4. 92 \in Byte /\ 93 \in Byte /\ 71 \in Byte
    BY DEF Byte
  <2> QED BY <2>1, <2>2, <2>3, <2>4
<1>9. CASE port.rdwr = 1
  <2> DEFINE buf == Put(0, ReadAnswer)
  <2>1. /\ buf \in [Positions -> Byte]
        /\ \A i \in Positions : buf[i] = ReadAnswer[i + 1]
    <3>1. ReadAnswer \in Seq(Byte) /\ Len(ReadAnswer) = FrameBytes + 6 /\ 0 \in Nat
      BY <1>6, ReadAnswerIs
    <3>2. /\ buf \in [Positions -> Byte]
          /\ \A i \in 1..Len(ReadAnswer) : 0 + i - 1 \in Positions => buf[0 + i - 1] = ReadAnswer[i]
      BY <1>6, <3>1, PutKeepsBytes
    <3>3. ASSUME NEW i \in Positions PROVE buf[i] = ReadAnswer[i + 1]
      <4>1. i + 1 \in 1..Len(ReadAnswer) /\ 0 + (i + 1) - 1 = i
        BY <3>1, FrameSize DEF Positions
      <4> QED BY <3>2, <4>1
    <3> QED BY <3>2, <3>3
  <2>2. port' = [port EXCEPT !.parp = 0, !.mcdst = 5, !.bufcount = FrameBytes + 5, !.buf = buf]
    BY <1>9 DEF FirstByte, ReadAnswer
  <2> HIDE DEF buf
  <2>3. port' = Port(0, 5, 1, 0, FrameBytes + 5, port.adrH, port.adrL, buf, TRUE, port.irq)
    BY <1>6, <1>7, <1>9, <2>2, PortTyped DEF Port
  <2>4. port' \in Ports
    BY <1>8, <2>1, <2>3 DEF Port, Ports
  <2>5. /\ port'.padst = 0 /\ port'.mcdst = 5 /\ port'.rdwr = 1 /\ port'.parp = 0
        /\ port'.bufcount = FrameBytes + 5 /\ port'.adrH = port.adrH /\ port'.adrL = port.adrL
        /\ port'.buf = buf /\ port'.rx = TRUE
    BY <2>3 DEF Port
  <2>6. ReadAnswer' = ReadAnswer
    BY <1>1, <1>6, <2>5 DEF ReadAnswer, Addressed, Frame, Checksum
  <2>7. Commanding' /\ Addressing'
    BY <1>4, <1>5, <2>5 DEF Commanding, Addressing
  <2>8. Framing'
    BY <1>4, <1>5, <2>1, <2>5, <2>6, FrameSize DEF Framing
  <2>9. CardGoesOn(value)
    BY <1>1, <1>3, <1>7, <1>9, <2>4, <2>5, <2>7, <2>8 DEF CardGoesOn, SioInv, TypeOK
  <2> QED BY <2>9, CardContinues
<1>10. CASE port.rdwr = 2
  <2> DEFINE put == Put(0, <<port.adrL, value>>)
             buf == [put EXCEPT ![FrameBytes+1] = 92, ![FrameBytes+2] = 93, ![FrameBytes+3] = 71]
  <2>1. put \in [Positions -> Byte] /\ put[1] = value
    <3> DEFINE bytes == <<port.adrL, value>>
    <3>1. bytes \in Seq(Byte) /\ Len(bytes) = 2 /\ bytes[2] = value /\ 0 \in Nat
      BY <1>6, <1>8
    <3> HIDE DEF bytes
    <3>2. /\ Put(0, bytes) \in [Positions -> Byte]
          /\ \A i \in 1..Len(bytes) : 0 + i - 1 \in Positions => Put(0, bytes)[0 + i - 1] = bytes[i]
      BY <1>6, <3>1, PutKeepsBytes
    <3>3. 2 \in 1..2 /\ 0 + 2 - 1 = 1
      OBVIOUS
    <3> QED BY <1>8, <3>1, <3>2, <3>3 DEF bytes
  <2>2. port' = [port EXCEPT !.parp = 0, !.mcdst = 5, !.bufcount = FrameBytes + 3, !.buf = buf]
    BY <1>10 DEF FirstByte
  <2> HIDE DEF put
  <2>3. buf \in [Positions -> Byte] /\ buf[1] = value /\ buf[FrameBytes + 3] = 71
    BY <1>8, <2>1, FrameSize
  <2> HIDE DEF buf
  <2>4. port' = Port(0, 5, 2, 0, FrameBytes + 3, port.adrH, port.adrL, buf, TRUE, port.irq)
    BY <1>6, <1>7, <1>10, <2>2, PortTyped DEF Port
  <2>5. port' \in Ports
    BY <1>8, <2>3, <2>4 DEF Port, Ports
  <2>6. /\ port'.padst = 0 /\ port'.mcdst = 5 /\ port'.rdwr = 2 /\ port'.parp = 0
        /\ port'.bufcount = FrameBytes + 3 /\ port'.adrH = port.adrH /\ port'.adrL = port.adrL
        /\ port'.buf = buf /\ port'.rx = TRUE
    BY <2>4 DEF Port
  <2>7. value \in Data
    BY <1>1, <1>6, <1>7, <1>10, OffersAre
  <2>8. Commanding' /\ Addressing'
    BY <1>4, <1>5, <2>6 DEF Commanding, Addressing
  <2>9. Framing'
    <3>1. \A i \in 1..FrameBytes : i <= 0 + 1 => i = 1 /\ 6 + i = 7
      BY FrameSize
    <3>2. \A i \in 1..FrameBytes :
            i <= port'.parp + 1 => port'.buf[i] = driver'.sent[6 + i] /\ port'.buf[i] \in Data
      BY <1>5, <2>3, <2>6, <2>7, <3>1
    <3> QED BY <1>4, <1>5, <2>3, <2>6, <3>2, FrameSize DEF Framing
  <2>10. CardGoesOn(value)
    BY <1>1, <1>3, <1>7, <1>10, <2>5, <2>6, <2>8, <2>9 DEF CardGoesOn, SioInv, TypeOK
  <2> QED BY <2>10, CardContinues
<1> QED BY <1>7, <1>9, <1>10

(* The rest of it. *)
LEMMA SendNextByte ==
  ASSUME SioInv, NEW value \in Offers, sioWrite8(value), NextByte(value)
  PROVE  SioInv'
<1>1. port.mcdst = 5 /\ armed' = TRUE
  BY DEF NextByte
<1>2. CardSending(value)
  BY <1>1, SendsToCard
<1>3. Continues(value)
  BY <1>2 DEF CardSending
<1>4. TypeOK /\ value \in Byte /\ ctrl' = ctrl /\ ~driver.owed /\ ctrl.slot \in Slots
  BY <1>3 DEF Continues, TypeOK
<1>5. port.padst = 0 /\ port.rx = TRUE /\ port.rdwr \in 1..2
      /\ (port.rdwr = 1 => driver'.sent[2] = Read) /\ (port.rdwr = 2 => driver'.sent[2] = Write)
  BY <1>2 DEF CardSending
<1>6. /\ port.adrH \in High /\ port.adrL \in Low /\ port.irq \in BOOLEAN
      /\ port.parp \in Positions /\ port.bufcount \in Positions
      /\ port.buf \in [Positions -> Byte]
  BY <1>4, PortTyped
<1>7. port.parp \in Nat /\ port.bufcount \in Nat /\ FrameBytes \in Nat \ {0, 1}
  BY <1>6, FrameSize DEF Positions
<1> DEFINE n == port.parp + 1
           grows == port.rdwr = 2 /\ n < FrameBytes
           buf == IF grows THEN Put(n + 1, <<value>>) ELSE port.buf
<1>8. /\ Sent = port.parp + 7 /\ port.parp < port.bufcount /\ driver.got[6] = port.adrH
      /\ (port.rdwr = 2 => port.bufcount = FrameBytes + 3)
      /\ (port.rdwr = 1 => port.bufcount = FrameBytes + 5)
  <2>1. /\ Sent = port.parp + 7 /\ port.parp <= port.bufcount
        /\ (port.parp = port.bufcount => driver.owed) /\ driver.got[6] = port.adrH
        /\ (port.rdwr = 2 => port.bufcount = FrameBytes + 3)
        /\ (port.rdwr = 1 => port.bufcount = FrameBytes + 5)
    BY <1>1 DEF SioInv, Framing
  <2> QED BY <1>4, <1>7, <2>1
<1>9. n \in Positions /\ n \in Nat
  BY <1>6, <1>7, <1>8 DEF Positions
<1>10. ASSUME grows
       PROVE  /\ buf \in [Positions -> Byte] /\ buf[n + 1] = value
              /\ \A i \in Positions : i # n + 1 => buf[i] = port.buf[i]
  <2> DEFINE bytes == <<value>>
  <2>1. bytes \in Seq(Byte) /\ Len(bytes) = 1 /\ bytes[1] = value /\ n + 1 \in Nat
    BY <1>4, <1>9
  <2>2. buf = Put(n + 1, bytes)
    BY <1>10
  <2> HIDE DEF bytes
  <2>3. /\ Put(n + 1, bytes) \in [Positions -> Byte]
        /\ \A i \in Positions : i < n + 1 => Put(n + 1, bytes)[i] = port.buf[i]
        /\ \A i \in Positions : i >= (n + 1) + Len(bytes) => Put(n + 1, bytes)[i] = port.buf[i]
        /\ \A i \in 1..Len(bytes) :
             (n + 1) + i - 1 \in Positions => Put(n + 1, bytes)[(n + 1) + i - 1] = bytes[i]
    <3> HIDE DEF n
    <3> QED BY <1>4, <2>1, PutKeepsBytes
  <2>4. 1 \in 1..1 /\ (n + 1) + 1 - 1 = n + 1 /\ n + 1 \in Positions
    BY <1>7, <1>9, <1>10 DEF Positions
  <2>5. \A i \in Positions : i # n + 1 => i < n + 1 \/ i >= (n + 1) + 1
    BY <1>7, <1>9 DEF Positions
  <2> QED BY <2>1, <2>2, <2>3, <2>4, <2>5
<1>11. /\ buf \in [Positions -> Byte]
       /\ \A i \in Positions : i # n + 1 => buf[i] = port.buf[i]
       /\ ~grows => buf = port.buf
       /\ grows => buf[n + 1] = value
  BY <1>6, <1>10
<1>12. port' = [port EXCEPT !.parp = n, !.buf = buf]
  BY <1>1 DEF NextByte
<1>13. \/ cards' = [cards EXCEPT ![ctrl.slot].new = FALSE] \/ cards' = cards
  BY DEF NextByte
<1> HIDE DEF buf
<1>14. port' = Port(0, 5, port.rdwr, n, port.bufcount, port.adrH, port.adrL, buf, TRUE, port.irq)
  BY <1>1, <1>4, <1>5, <1>12, PortTyped DEF Port
<1>15. port' \in Ports
  <2>1. port.rdwr \in 0..2
    BY <1>5
  <2> HIDE DEF n
  <2> QED BY <1>6, <1>9, <1>11, <1>14, <2>1 DEF Port, Ports
<1>16. /\ port'.padst = 0 /\ port'.mcdst = 5 /\ port'.rdwr = port.rdwr /\ port'.parp = n
       /\ port'.bufcount = port.bufcount /\ port'.adrH = port.adrH /\ port'.adrL = port.adrL
       /\ port'.buf = buf /\ port'.rx = TRUE
  BY <1>14 DEF Port
<1>17. /\ cards' \in [Slots -> [data : Contents, present : BOOLEAN, new : BOOLEAN, told : BOOLEAN]]
       /\ cards'[ctrl.slot].present = cards[ctrl.slot].present
       /\ cards'[ctrl.slot].data = cards[ctrl.slot].data
  <2> DEFINE Card == [data : Contents, present : BOOLEAN, new : BOOLEAN, told : BOOLEAN]
             known == [cards[ctrl.slot] EXCEPT !.new = FALSE]
  <2>1. cards \in [Slots -> Card]
    BY <1>4 DEF TypeOK
  <2>2. cards[ctrl.slot] \in Card
    BY <1>4, <2>1
  <2>3. known \in Card /\ known.present = cards[ctrl.slot].present
        /\ known.data = cards[ctrl.slot].data
    BY <2>2
  <2>4. cards' = [cards EXCEPT ![ctrl.slot] = known] \/ cards' = cards
    BY <1>13
  <2> HIDE DEF Card, known
  <2>5. cards' \in [Slots -> Card] /\ (cards'[ctrl.slot] = known \/ cards' = cards)
    BY <1>4, <2>1, <2>3, <2>4
  <2> QED BY <2>3, <2>5 DEF Card
<1>18. ReadAnswer' = ReadAnswer
  BY <1>4, <1>16, <1>17 DEF ReadAnswer, Addressed, Frame, Checksum
<1>19. /\ driver'.got = driver.got /\ Got' = Got /\ Sent' = n + 7 /\ driver'.sent[n + 7] = value
       /\ driver'.owed = TRUE /\ driver'.kept = driver.kept
       /\ driver.got[3] = 90 /\ driver.got[4] = 93
       /\ \A i \in 1..Sent : driver'.sent[i] = driver.sent[i]
  <2>1. driver.got[3] = 90 /\ driver.got[4] = 93
    BY <1>2 DEF CardSending
  <2>2. Sent + 1 = n + 7
    BY <1>7, <1>8
  <2> QED BY <1>3, <2>1, <2>2 DEF Continues
<1>20. driver'.sent[5] = port.adrH /\ driver'.sent[6] = port.adrL /\ driver'.got[5] = 0
  <2>1. 5 \in 1..Sent /\ 6 \in 1..Sent
    BY <1>7, <1>8
  <2>2. driver.sent[5] = port.adrH /\ driver.sent[6] = port.adrL /\ driver.got[5] = 0
    BY <1>1 DEF SioInv, Addressing
  <2> QED BY <1>19, <2>1, <2>2
<1>21. Commanding' /\ Addressing'
  BY <1>5, <1>16, <1>19, <1>20 DEF Commanding, Addressing
<1>22. ASSUME port.rdwr = 2
       PROVE  /\ port'.buf[FrameBytes + 3] = 71
              /\ \A i \in 1..FrameBytes :
                   i <= n + 1 => port'.buf[i] = driver'.sent[6 + i] /\ port'.buf[i] \in Data
  <2>1. /\ port.buf[FrameBytes + 3] = 71
        /\ \A i \in 1..FrameBytes :
             i <= port.parp + 1 => port.buf[i] = driver.sent[6 + i] /\ port.buf[i] \in Data
    BY <1>1, <1>22 DEF SioInv, Framing
  <2>2. FrameBytes + 3 \in Positions /\ (grows => FrameBytes + 3 # n + 1)
        /\ \A i \in 1..FrameBytes : i \in Positions
    BY <1>7, <1>9 DEF Positions
  <2>3. port'.buf[FrameBytes + 3] = 71
    BY <1>11, <1>16, <2>1, <2>2
  <2>4. ASSUME NEW i \in 1..FrameBytes, i <= n
        PROVE  port'.buf[i] = driver'.sent[6 + i] /\ port'.buf[i] \in Data
    <3>1. i <= port.parp + 1 /\ i # n + 1 /\ 6 + i \in 1..Sent
      BY <1>7, <1>8, <2>4
    <3> QED BY <1>11, <1>16, <1>19, <2>1, <2>2, <3>1
  <2>5. ASSUME NEW i \in 1..FrameBytes, i = n + 1
        PROVE  port'.buf[i] = driver'.sent[6 + i] /\ port'.buf[i] \in Data
    <3>1. grows
      BY <1>7, <1>22, <2>5
    <3>2. value \in Data
      BY <1>1, <1>4, <1>5, <3>1, OffersAre
    <3>3. 6 + i = n + 7
      BY <1>9, <2>5
    <3> QED BY <1>11, <1>16, <1>19, <2>5, <3>1, <3>2, <3>3
  <2>6. \A i \in 1..FrameBytes : i <= n + 1 => i <= n \/ i = n + 1
    BY <1>9
  <2> QED BY <2>3, <2>4, <2>5, <2>6
<1>23. ASSUME port.rdwr = 1
       PROVE  /\ driver'.kept => \A i \in Positions : port'.buf[i] = ReadAnswer'[i + 1]
              /\ \A i \in 7..Got' : driver'.got[i] = port'.buf[i - 7]
  <2>1. /\ driver.kept => \A i \in Positions : port.buf[i] = ReadAnswer[i + 1]
        /\ \A i \in 7..Got : driver.got[i] = port.buf[i - 7]
    BY <1>1, <1>23 DEF SioInv, Framing
  <2>2. port'.buf = port.buf
    BY <1>11, <1>16, <1>23
  <2> QED BY <1>18, <1>19, <2>1, <2>2
<1>24. Framing'
  <2>1. Sent' = port'.parp + 7 /\ port'.parp <= port'.bufcount /\ driver'.got[6] = port'.adrH
    BY <1>7, <1>8, <1>16, <1>19
  <2>2. driver'.owed = TRUE
    BY <1>19
  <2> HIDE DEF n
  <2> QED BY <1>8, <1>16, <1>22, <1>23, <2>1, <2>2 DEF Framing
<1>25. CardGoesOn(value)
  BY <1>1, <1>3, <1>5, <1>15, <1>16, <1>17, <1>21, <1>24 DEF CardGoesOn
<1> QED BY <1>25, CardContinues

(* A byte sent keeps the invariant. *)
LEMMA StepWrite == ASSUME SioInv, NEW value \in Offers, sioWrite8(value) PROVE SioInv'
<1>1. \/ Start(value) \/ PadCommand(value) \/ PadReport
      \/ CardCommand(value) \/ Address(value) \/ FirstByte(value) \/ NextByte(value)
  BY DEF sioWrite8
<1> QED
  BY <1>1, SendStart, SendPadCommand, SendPadReport, SendCardCommand, SendAddress, SendFirstByte,
     SendNextByte

-----------------------------------------------------------------------------
(* What every answer read does. *)
LastAnswer == port.rx /\ port.parp = port.bufcount
Answer == IF port.rx THEN port.buf[port.parp] ELSE 0
Cards == [data : Contents, present : BOOLEAN, new : BOOLEAN, told : BOOLEAN]

Reads ==
  /\ TypeOK /\ ctrl.dtr /\ driver.owed /\ ctrl' = ctrl /\ armed' = armed /\ istat' = istat
  /\ Answer \in Byte /\ Got \in Nat /\ Sent = Got + 1
  /\ driver' \in Drivers /\ driver'.owed = FALSE /\ driver'.kept = driver.kept
  /\ driver'.sent = driver.sent /\ Sent' = Sent /\ Got' = Sent /\ driver'.got[Sent] = Answer
  /\ \A i \in 1..Got : driver'.got[i] = driver.got[i]
  /\ port' \in Ports /\ port'.rdwr = port.rdwr /\ port'.parp = port.parp
  /\ port'.bufcount = port.bufcount /\ port'.buf = port.buf
  /\ port'.adrH = port.adrH /\ port'.adrL = port.adrL
  /\ port'.padst = IF LastAnswer /\ port.padst = 2 THEN 0 ELSE port.padst
  /\ port'.mcdst = CASE LastAnswer /\ port.mcdst = 5 -> 0 [] LastAnswer /\ port.mcdst = 1 -> 2
                     [] OTHER -> port.mcdst
  /\ port'.rx = ((port.rx /\ ~LastAnswer) \/ (LastAnswer /\ port.mcdst = 1))
  /\ Paired'

LEMMA ReadsOne == SioInv /\ sioRead8 => Reads
<1> SUFFICES ASSUME SioInv, sioRead8 PROVE Reads
  OBVIOUS
<1>1. TypeOK /\ ctrl.dtr /\ driver.owed /\ ctrl' = ctrl /\ armed' = armed /\ istat' = istat
  BY DEF SioInv, sioRead8
<1>2. /\ port.padst \in 0..2 /\ port.mcdst \in 0..5 /\ port.rdwr \in 0..2
      /\ port.parp \in Positions /\ port.bufcount \in Positions
      /\ port.adrH \in High /\ port.adrL \in Low
      /\ port.buf \in [Positions -> Byte] /\ port.rx \in BOOLEAN /\ port.irq \in BOOLEAN
  BY <1>1, PortTyped
<1>3. Answer \in Byte
  <2>1. 0 \in Byte
    BY DEF Byte
  <2> QED BY <1>2, <2>1 DEF Answer
<1> DEFINE padst == IF LastAnswer /\ port.padst = 2 THEN 0 ELSE port.padst
           mcdst == CASE LastAnswer /\ port.mcdst = 5 -> 0 [] LastAnswer /\ port.mcdst = 1 -> 2
                      [] OTHER -> port.mcdst
           rx == (port.rx /\ ~LastAnswer) \/ (LastAnswer /\ port.mcdst = 1)
<1>4. port' = [port EXCEPT !.rx = rx, !.padst = padst, !.mcdst = mcdst]
  BY DEF sioRead8, LastAnswer
<1>5. driver' = [driver EXCEPT !.got = Append(@, Answer), !.owed = FALSE]
  BY DEF sioRead8, Answer
<1>6. padst \in 0..2 /\ mcdst \in 0..5 /\ rx \in BOOLEAN
  BY <1>2 DEF LastAnswer
<1>7. port' = Port(padst, mcdst, port.rdwr, port.parp, port.bufcount, port.adrH, port.adrL,
                   port.buf, rx, port.irq)
  <2> HIDE DEF padst, mcdst, rx
  <2> QED BY <1>1, <1>4, PortTyped DEF Port
<1>8. port' \in Ports
  <2> HIDE DEF padst, mcdst, rx
  <2> QED BY <1>2, <1>6, <1>7 DEF Port, Ports
<1>9. /\ port'.padst = padst /\ port'.mcdst = mcdst /\ port'.rx = rx
      /\ port'.rdwr = port.rdwr /\ port'.parp = port.parp /\ port'.bufcount = port.bufcount
      /\ port'.buf = port.buf /\ port'.adrH = port.adrH /\ port'.adrL = port.adrL
  <2> HIDE DEF padst, mcdst, rx
  <2> QED BY <1>7 DEF Port
<1>10. /\ driver' \in Drivers /\ driver'.owed = FALSE /\ driver'.kept = driver.kept
       /\ driver'.sent = driver.sent /\ Sent' = Sent /\ Sent \in Nat
       /\ Got \in Nat /\ Got' = Got + 1 /\ driver'.got[Got + 1] = Answer
       /\ \A i \in 1..Got : driver'.got[i] = driver.got[i]
  BY <1>1, <1>3, <1>5, Reading
<1>11. Sent = Got + 1
  BY <1>1 DEF SioInv, Paired
<1>12. Paired'
  BY <1>1, <1>10, <1>11 DEF Paired
<1> QED BY <1>1, <1>3, <1>8, <1>9, <1>10, <1>11, <1>12 DEF Reads

(* Where no frame is written the cards keep what they hold. *)
LEMMA ReadKeepsCards ==
  ASSUME Reads, sioRead8, ~(LastAnswer /\ port.mcdst = 5 /\ port.rdwr = 2)
  PROVE  /\ cards' \in [Slots -> Cards] /\ cards'[ctrl.slot].present = cards[ctrl.slot].present
         /\ cards'[ctrl.slot].data = cards[ctrl.slot].data
         /\ TypeOK'
<1>1. TypeOK /\ ctrl.slot \in Slots
  BY DEF Reads, TypeOK
<1> DEFINE told == cards[ctrl.slot].told \/ (port.mcdst = 1 /\ port.parp = 1 /\ Answer = 8)
           card == [cards[ctrl.slot] EXCEPT !.told = told]
<1>2. cards \in [Slots -> Cards]
  BY <1>1 DEF TypeOK, Cards
<1>3. cards[ctrl.slot] \in Cards
  BY <1>1, <1>2
<1>4. told \in BOOLEAN
  BY <1>3 DEF Cards
<1>5. cards' = [cards EXCEPT ![ctrl.slot] = card]
  BY <1>1, <1>2, <1>3 DEF sioRead8, LastAnswer, Answer, Cards
<1> HIDE DEF told
<1>6. card \in Cards /\ card.present = cards[ctrl.slot].present
      /\ card.data = cards[ctrl.slot].data
  BY <1>3, <1>4 DEF Cards
<1> HIDE DEF card
<1>7. cards' \in [Slots -> Cards] /\ cards'[ctrl.slot] = card
  BY <1>1, <1>2, <1>5, <1>6
<1>8. TypeOK'
  BY <1>7 DEF Reads, TypeOK, Ports, Drivers, Cards
<1> QED BY <1>6, <1>7, <1>8

(* An answer of a pad, or where nothing answers. *)
LEMMA ReadPad == ASSUME SioInv, Reads, sioRead8, port.mcdst = 0 PROVE SioInv'
<1>1. TypeOK'
  BY ReadKeepsCards
<1>2. port'.mcdst = 0
  BY DEF Reads
<1>3. port.padst \in 0..2 /\ Sent \in Nat /\ Got \in Nat
  BY PortTyped DEF Reads
<1>4. CASE port.padst # 0
  <2>1. PadAnswers /\ Sent \in 1..4 /\ (port.padst = 1 => Sent = 1)
        /\ (port.padst = 2 => Sent \in 2..4)
    BY <1>3, <1>4 DEF SioInv, PadTransfer
  <2>2. ~LastAnswer
    BY <2>1 DEF PadAnswers, LastAnswer
  <2>3. port'.padst = port.padst /\ port'.rx /\ Answer = Report(Sent)
    BY <2>1, <2>2 DEF Reads, PadAnswers, Answer
  <2>4. \A i \in 1..Got' : driver'.got[i] = Report(i)
    BY <1>3, <2>1, <2>3 DEF Reads, PadAnswers
  <2>5. PadAnswers'
    BY <1>2, <2>1, <2>3, <2>4 DEF Reads, PadAnswers, Report
  <2>6. PadTransfer' /\ CardTransfer' /\ Commanding' /\ Addressing' /\ Framing'
    BY <1>2, <1>4, <2>1, <2>3, <2>5
       DEF Reads, PadTransfer, CardTransfer, Commanding, Addressing, Framing
  <2>7. Got' # 5 /\ Got' # FrameBytes + 10 /\ Got' # FrameBytes + 12
    BY <2>1, FrameSize DEF Reads
  <2>8. AnswersRight'
    BY <2>7 DEF AnswersRight, Got
  <2> QED BY <1>1, <2>6, <2>8 DEF Reads, SioInv
<1>5. CASE port.padst = 0
  <2>1. port'.padst = 0
    BY <1>5 DEF Reads
  <2>2. Got' = Sent /\ Got' \in Nat /\ Paired' /\ ~driver'.owed
    BY <1>3 DEF Reads
  <2>3. CASE Sent <= 2
    <3>1. Got' # 5 /\ Got' # FrameBytes + 10 /\ Got' # FrameBytes + 12
      BY <2>2, <2>3, FrameSize
    <3>2. AnswersRight'
      BY <3>1 DEF AnswersRight, Got
    <3> QED BY <1>1, <1>2, <2>1, <2>2, <3>2, NothingTransferred
  <2>4. CASE Sent > 2
    <3>1. PadAnswers /\ Sent = 5 /\ Got = 4
      BY <1>3, <1>5, <2>4 DEF SioInv, PadTransfer, Reads
    <3>2. Answer = Report(5)
      BY <3>1 DEF PadAnswers, Answer
    <3>3. \A i \in 1..5 : driver'.got[i] = Report(i)
      BY <3>1, <3>2 DEF Reads, PadAnswers
    <3>4. driver'.got = <<255, PadId, PadByte, PadByte, PadByte>>
      <4>1. driver'.got \in Seq(Byte) /\ Len(driver'.got) = 5
        BY <2>2, <3>1 DEF Reads, Drivers, Got
      <4>2. /\ driver'.got[1] = 255 /\ driver'.got[2] = PadId /\ driver'.got[3] = PadByte
            /\ driver'.got[4] = PadByte /\ driver'.got[5] = PadByte
        BY <3>3 DEF Report
      <4> QED BY <4>1, <4>2
    <3>5. Got' # FrameBytes + 10 /\ Got' # FrameBytes + 12
      BY <2>2, <3>1, FrameSize
    <3>6. AnswersRight'
      BY <3>4, <3>5 DEF AnswersRight, Got
    <3> QED BY <1>1, <1>2, <2>1, <2>2, <3>6, NothingTransferred
  <2> QED BY <1>3, <2>3, <2>4
<1> QED BY <1>4, <1>5

(* A card stays addressed while its answers are read. *)
LEMMA ReadWithin ==
  ASSUME SioInv, Reads, sioRead8, port.mcdst # 0, port'.mcdst # 0
  PROVE  TypeOK' /\ CardTransfer' /\ PadTransfer'
<1>1. port.mcdst \in 0..5
  BY PortTyped DEF Reads
<1>2. ~(LastAnswer /\ port.mcdst = 5)
  BY DEF Reads
<1>3. /\ TypeOK' /\ cards'[ctrl.slot].present = cards[ctrl.slot].present
  BY <1>2, ReadKeepsCards
<1>4. port.padst = 0 /\ port.rx
  BY DEF SioInv, CardTransfer
<1>5. port'.padst = 0 /\ port'.rx
  <2>1. port.mcdst # 2
    BY DEF SioInv, Addressing, Reads
  <2>2. port.mcdst \in 3..4 => ~LastAnswer
    BY DEF SioInv, Addressing, LastAnswer
  <2>3. port.mcdst = 1 \/ ~LastAnswer
    BY <1>1, <1>2, <2>1, <2>2
  <2> QED BY <1>4, <2>3 DEF Reads
<1>6. CardTransfer'
  BY <1>3, <1>5 DEF SioInv, CardTransfer, Reads
<1>7. PadTransfer'
  BY <1>5 DEF PadTransfer, Reads
<1> QED BY <1>3, <1>6, <1>7

LEMMA ReadCommand == ASSUME SioInv, Reads, sioRead8, port.mcdst = 1 PROVE SioInv'
<1> USE DEF Reads
<1>1. /\ port.bufcount = 3 /\ port.parp \in 0..3 /\ Sent = port.parp + 1
      /\ (port.rdwr = 0 <=> port.parp = 0) /\ port.buf[2] = 90 /\ port.buf[3] = 93
      /\ \A i \in 3..Got : driver.got[i] = port.buf[i - 1]
  BY DEF SioInv, Commanding
<1>2. port.rx
  BY DEF SioInv, CardTransfer
<1>3. Answer = port.buf[port.parp] /\ (LastAnswer <=> port.parp = 3)
  BY <1>1, <1>2 DEF Answer, LastAnswer
<1>4. Got' \in 1..4 /\ Got' = Sent
  BY <1>1
<1>5. Got' # 5 /\ Got' # FrameBytes + 10 /\ Got' # FrameBytes + 12
  BY <1>4, FrameSize
<1>6. AnswersRight'
  BY <1>5 DEF AnswersRight, Got
<1>7. ASSUME NEW i \in 3..Got' PROVE driver'.got[i] = port.buf[i - 1]
  <2>1. CASE i = Sent
    BY <1>1, <1>3, <2>1
  <2>2. CASE i # Sent
    <3>1. i \in 3..Got /\ i \in 1..Got
      BY <1>1, <1>4, <2>2
    <3> QED BY <1>1, <3>1
  <2> QED BY <2>1, <2>2
<1>8. CASE port.parp # 3
  <2>1. port'.mcdst = 1
    BY <1>3, <1>8
  <2>2. Commanding' /\ Addressing' /\ Framing'
    BY <1>1, <1>7, <1>8, <2>1 DEF Commanding, Addressing, Framing
  <2>3. TypeOK' /\ CardTransfer' /\ PadTransfer'
    <3> HIDE DEF Reads
    <3> QED BY <2>1, ReadWithin
  <2> QED BY <1>6, <2>2, <2>3 DEF SioInv
<1>9. CASE port.parp = 3
  <2>1. port'.mcdst = 2
    BY <1>3, <1>9
  <2>2. driver'.got[3] = 90 /\ driver'.got[4] = 93 /\ Sent' = 4 /\ port.rdwr # 0
    BY <1>1, <1>4, <1>7, <1>9
  <2>3. Commanding' /\ Addressing' /\ Framing'
    BY <2>1, <2>2 DEF Commanding, Addressing, Framing
  <2>4. TypeOK' /\ CardTransfer' /\ PadTransfer'
    <3> HIDE DEF Reads
    <3> QED BY <2>1, ReadWithin
  <2> QED BY <1>6, <2>3, <2>4 DEF SioInv
<1> QED BY <1>8, <1>9

LEMMA ReadAddress == ASSUME SioInv, Reads, sioRead8, port.mcdst \in 3..4 PROVE SioInv'
<1> USE DEF Reads
<1>1. /\ port.rdwr # 0 /\ driver.got[3] = 90 /\ driver.got[4] = 93
      /\ port.parp = 0 /\ port.bufcount = 1 /\ Sent = port.mcdst + 2
      /\ port.buf[0] = (IF port.mcdst = 3 THEN 0 ELSE port.adrH)
      /\ (port.mcdst = 4 => driver.got[5] = 0 /\ driver.sent[6] = port.adrL)
      /\ driver.sent[5] = port.adrH
  BY DEF SioInv, Addressing
<1>2. port.rx
  BY DEF SioInv, CardTransfer
<1>3. ~LastAnswer /\ Answer = port.buf[0]
  BY <1>1, <1>2 DEF LastAnswer, Answer
<1>4. /\ port'.mcdst = port.mcdst /\ driver'.got[3] = 90 /\ driver'.got[4] = 93
      /\ driver'.got[Sent] = port.buf[0] /\ (port.mcdst = 4 => driver'.got[5] = 0)
  BY <1>1, <1>3
<1>5. Commanding' /\ Addressing' /\ Framing'
  BY <1>1, <1>4 DEF Commanding, Addressing, Framing
<1>6. TypeOK' /\ CardTransfer' /\ PadTransfer'
  <2> HIDE DEF Reads
  <2> QED BY <1>4, ReadWithin
<1>7. Got' \in 5..6 /\ Got' # FrameBytes + 10 /\ Got' # FrameBytes + 12
  BY <1>1, FrameSize
<1>8. driver'.sent[1] # StartPad
  BY DEF SioInv, CardTransfer, StartPad, StartCard
<1>9. AnswersRight'
  BY <1>7, <1>8 DEF AnswersRight, Got
<1> QED BY <1>5, <1>6, <1>9 DEF SioInv

(* The answers of a read, one after the other: what AnswersRight says they are. *)
AsRead ==
  (((<<90, 93, 0, port.adrH, 92, 93>> \o Frame) \o cards[ctrl.slot].data[Frame])
    \o <<Checksum(Frame \o cards[ctrl.slot].data[Frame]), 71>>)

LEMMA AsReadIs ==
  ASSUME TypeOK
  PROVE  /\ AsRead \in Seq(Byte) /\ Len(AsRead) = FrameBytes + 10
         /\ AsRead[1] = 90 /\ AsRead[2] = 93 /\ AsRead[3] = 0 /\ AsRead[4] = port.adrH
         /\ \A i \in 1..FrameBytes + 6 : AsRead[4 + i] = ReadAnswer[i]
<1> DEFINE D == cards[ctrl.slot].data[Frame]
           head == <<90, 93, 0, port.adrH, 92, 93>>
           tail == <<Checksum(Frame \o D), 71>>
<1>1. FrameBytes \in Nat /\ High \subseteq Byte /\ Low \subseteq Byte
  BY SioAssumption DEF Byte
<1>2. port.adrH \in High /\ port.adrL \in Low
  BY DEF TypeOK
<1>3. port.adrH \in Byte /\ port.adrL \in Byte
  BY <1>1, <1>2
<1>4. /\ Frame \in Frames /\ Frame \in Seq(Byte) /\ Len(Frame) = 2
      /\ Frame[1] = port.adrH /\ Frame[2] = port.adrL
  <2>1. Frame = <<port.adrH, port.adrL>>
    BY DEF Frame
  <2> QED BY <1>2, <1>3, <2>1 DEF Frames
<1>5. D \in [1..FrameBytes -> Data]
  BY <1>4 DEF TypeOK, Contents, Slots
<1>6. D \in Seq(Byte) /\ Len(D) = FrameBytes
  <2> HIDE DEF D
  <2>1. D \in [1..FrameBytes -> Byte]
    BY <1>5 DEF Data, Byte
  <2> QED BY <1>1, <2>1
<1>7. /\ ReadAnswer[1] = 92 /\ ReadAnswer[2] = 93
      /\ ReadAnswer[3] = port.adrH /\ ReadAnswer[4] = port.adrL
      /\ \A i \in 1..FrameBytes : ReadAnswer[4 + i] = D[i]
      /\ ReadAnswer[FrameBytes + 5] = Checksum(Frame \o D) /\ ReadAnswer[FrameBytes + 6] = 71
      /\ Checksum(Frame \o D) \in {0, 1}
  <2>1. Addressed = Frame \o D
    BY DEF Addressed
  <2>2. Addressed \in Seq(Byte)
    BY ReadAnswerIs
  <2>3. Checksum(Addressed) \in {0, 1}
    BY <2>2, ChecksumType
  <2> QED BY <2>1, <2>3, ReadAnswerIs
<1> HIDE DEF D
<1>8. /\ head \in Seq(Byte) /\ Len(head) = 6 /\ head[1] = 90 /\ head[2] = 93 /\ head[3] = 0
      /\ head[4] = port.adrH /\ head[5] = 92 /\ head[6] = 93
  BY <1>3 DEF Byte
<1>9. tail \in Seq(Byte) /\ Len(tail) = 2 /\ tail[1] = Checksum(Frame \o D) /\ tail[2] = 71
  BY <1>7 DEF Byte
<1>10. AsRead = ((head \o Frame) \o D) \o tail
  BY DEF AsRead, D
<1> HIDE DEF head, tail
<1> DEFINE front == head \o Frame
           most == front \o D
<1>11. /\ front \in Seq(Byte) /\ Len(front) = 8
       /\ \A i \in 1..6 : front[i] = head[i]
       /\ \A i \in 1..2 : front[6 + i] = Frame[i]
  <2>1. /\ head \o Frame \in Seq(Byte) /\ Len(head \o Frame) = Len(head) + Len(Frame)
        /\ \A i \in 1..Len(head) : (head \o Frame)[i] = head[i]
        /\ \A i \in 1..Len(Frame) : (head \o Frame)[Len(head) + i] = Frame[i]
    <3>1. head \in Seq(Byte) /\ Frame \in Seq(Byte)
      BY <1>4, <1>8
    <3> QED BY <3>1, Joined
  <2>2. Len(head) = 6 /\ Len(Frame) = 2
    BY <1>4, <1>8
  <2> QED BY <2>1, <2>2
<1> HIDE DEF front
<1>12. /\ most \in Seq(Byte) /\ Len(most) = FrameBytes + 8
       /\ \A i \in 1..8 : most[i] = front[i]
       /\ \A i \in 1..FrameBytes : most[8 + i] = D[i]
  <2>1. /\ front \o D \in Seq(Byte) /\ Len(front \o D) = Len(front) + Len(D)
        /\ \A i \in 1..Len(front) : (front \o D)[i] = front[i]
        /\ \A i \in 1..Len(D) : (front \o D)[Len(front) + i] = D[i]
    <3>1. front \in Seq(Byte) /\ D \in Seq(Byte)
      BY <1>6, <1>11
    <3> QED BY <3>1, Joined
  <2>2. Len(front) = 8 /\ Len(D) = FrameBytes /\ 8 + FrameBytes = FrameBytes + 8
    BY <1>1, <1>6, <1>11
  <2> QED BY <2>1, <2>2
<1>13. AsRead = most \o tail
  BY <1>10 DEF front
<1> HIDE DEF most
<1>14. /\ AsRead \in Seq(Byte) /\ Len(AsRead) = FrameBytes + 10
       /\ \A i \in 1..FrameBytes + 8 : AsRead[i] = most[i]
       /\ AsRead[FrameBytes + 9] = tail[1] /\ AsRead[FrameBytes + 10] = tail[2]
  <2>1. /\ most \o tail \in Seq(Byte) /\ Len(most \o tail) = Len(most) + Len(tail)
        /\ \A i \in 1..Len(most) : (most \o tail)[i] = most[i]
        /\ \A i \in 1..Len(tail) : (most \o tail)[Len(most) + i] = tail[i]
    <3>1. most \in Seq(Byte) /\ tail \in Seq(Byte)
      BY <1>9, <1>12
    <3> QED BY <3>1, Joined
  <2>2. /\ Len(most) = FrameBytes + 8 /\ Len(tail) = 2 /\ (FrameBytes + 8) + 2 = FrameBytes + 10
        /\ (FrameBytes + 8) + 1 = FrameBytes + 9 /\ 1 \in 1..2 /\ 2 \in 1..2
    BY <1>1, <1>9, <1>12
  <2> QED BY <1>13, <2>1, <2>2
<1>15. \A i \in 1..6 : AsRead[i] = head[i]
  <2> SUFFICES ASSUME NEW i \in 1..6 PROVE AsRead[i] = head[i]
    OBVIOUS
  <2>1. i \in 1..8 /\ i \in 1..FrameBytes + 8
    BY <1>1
  <2> QED BY <1>11, <1>12, <1>14, <2>1
<1>16. \A i \in 1..2 : AsRead[6 + i] = Frame[i]
  <2> SUFFICES ASSUME NEW i \in 1..2 PROVE AsRead[6 + i] = Frame[i]
    OBVIOUS
  <2>1. 6 + i \in 1..8 /\ 6 + i \in 1..FrameBytes + 8
    BY <1>1
  <2> QED BY <1>11, <1>12, <1>14, <2>1
<1>17. \A i \in 1..FrameBytes : AsRead[8 + i] = D[i]
  <2> SUFFICES ASSUME NEW i \in 1..FrameBytes PROVE AsRead[8 + i] = D[i]
    OBVIOUS
  <2>1. 8 + i \in 1..FrameBytes + 8
    BY <1>1
  <2> QED BY <1>12, <1>14, <2>1
<1>18. ASSUME NEW i \in 1..FrameBytes + 6 PROVE AsRead[4 + i] = ReadAnswer[i]
  <2>1. CASE i \in {1, 2}
    BY <1>7, <1>8, <1>15, <2>1
  <2>2. CASE i \in {3, 4}
    <3>1. AsRead[6 + 1] = Frame[1] /\ AsRead[6 + 2] = Frame[2]
      BY <1>16
    <3> QED BY <1>4, <1>7, <2>2, <3>1
  <2>3. CASE i \in 5..FrameBytes + 4
    <3>1. i - 4 \in 1..FrameBytes /\ 4 + (i - 4) = i /\ 8 + (i - 4) = 4 + i
      BY <1>1, <2>3
    <3>2. AsRead[8 + (i - 4)] = D[i - 4] /\ ReadAnswer[4 + (i - 4)] = D[i - 4]
      BY <1>7, <1>17, <3>1
    <3> QED BY <3>1, <3>2
  <2>4. CASE i = FrameBytes + 5
    <3>1. 4 + i = FrameBytes + 9
      BY <1>1, <2>4
    <3> QED BY <1>7, <1>9, <1>14, <2>4, <3>1
  <2>5. CASE i = FrameBytes + 6
    <3>1. 4 + i = FrameBytes + 10
      BY <1>1, <2>5
    <3> QED BY <1>7, <1>9, <1>14, <2>5, <3>1
  <2> QED BY <1>1, <2>1, <2>2, <2>3, <2>4, <2>5
<1>19. AsRead[1] = 90 /\ AsRead[2] = 93 /\ AsRead[3] = 0 /\ AsRead[4] = port.adrH
  BY <1>8, <1>15
<1> QED BY <1>14, <1>18, <1>19

(* The answers of the frame. *)
LEMMA FrameRead ==
  ASSUME SioInv, Reads, port.mcdst = 5
  PROVE  /\ port.rx /\ port.padst = 0 /\ driver.sent[1] = StartCard /\ port.rdwr \in {1, 2}
         /\ driver.sent[2] = (IF port.rdwr = 1 THEN Read ELSE Write)
         /\ Answer = port.buf[port.parp] /\ port.parp \in Nat /\ FrameBytes \in Nat \ {0, 1}
         /\ port.parp <= port.bufcount /\ (LastAnswer <=> port.parp = port.bufcount)
         /\ port.bufcount = (IF port.rdwr = 1 THEN FrameBytes + 5 ELSE FrameBytes + 3)
         /\ Sent = port.parp + 7 /\ Got = port.parp + 6 /\ Got' = port.parp + 7
         /\ driver'.got[3] = 90 /\ driver'.got[4] = 93 /\ driver'.got[5] = 0
         /\ driver'.got[6] = port.adrH
         /\ driver.sent[5] = port.adrH /\ driver.sent[6] = port.adrL
         /\ driver'.got[Got'] = port.buf[Got' - 7]
         /\ port.rdwr = 1 =>
              /\ driver.kept => \A i \in Positions : port.buf[i] = ReadAnswer[i + 1]
              /\ \A i \in 7..Got' : driver'.got[i] = port.buf[i - 7]
<1> USE DEF Reads
<1>1. port.parp \in Nat /\ port.rdwr \in 0..2 /\ FrameBytes \in Nat \ {0, 1}
  <2>1. port.parp \in Positions /\ port.rdwr \in 0..2
    BY PortTyped
  <2> QED BY <2>1, FrameSize DEF Positions
<1>2. /\ port.rx /\ port.padst = 0 /\ driver.sent[1] = StartCard
      /\ (port.rdwr = 1 => driver.sent[2] = Read) /\ (port.rdwr = 2 => driver.sent[2] = Write)
  BY DEF SioInv, CardTransfer
<1>3. /\ port.rdwr # 0 /\ driver.got[3] = 90 /\ driver.got[4] = 93 /\ driver.got[5] = 0
      /\ driver.sent[5] = port.adrH /\ driver.sent[6] = port.adrL
  BY DEF SioInv, Addressing
<1>4. port.rdwr \in {1, 2}
  BY <1>1, <1>3
<1>5. /\ Sent = port.parp + 7 /\ port.parp <= port.bufcount /\ driver.got[6] = port.adrH
      /\ (port.rdwr = 2 => port.bufcount = FrameBytes + 3)
      /\ (port.rdwr = 1 => port.bufcount = FrameBytes + 5)
  BY DEF SioInv, Framing
<1>6. Answer = port.buf[port.parp] /\ (LastAnswer <=> port.parp = port.bufcount)
  BY <1>2 DEF Answer, LastAnswer
<1>7. Got = port.parp + 6 /\ Got' = port.parp + 7
  BY <1>1, <1>5
<1>8. /\ driver'.got[3] = 90 /\ driver'.got[4] = 93 /\ driver'.got[5] = 0
      /\ driver'.got[6] = port.adrH
  <2>1. 3 \in 1..Got /\ 4 \in 1..Got /\ 5 \in 1..Got /\ 6 \in 1..Got
    BY <1>1, <1>7
  <2> QED BY <1>3, <1>5, <2>1
<1>9. driver'.got[Got'] = port.buf[Got' - 7]
  <2>1. Got' - 7 = port.parp /\ Got' = Sent
    BY <1>1, <1>7
  <2> QED BY <1>6, <2>1
<1>10. ASSUME port.rdwr = 1
       PROVE  /\ driver.kept => \A i \in Positions : port.buf[i] = ReadAnswer[i + 1]
              /\ \A i \in 7..Got' : driver'.got[i] = port.buf[i - 7]
  <2>1. /\ driver.kept => \A i \in Positions : port.buf[i] = ReadAnswer[i + 1]
        /\ \A i \in 7..Got : driver.got[i] = port.buf[i - 7]
    BY <1>10 DEF SioInv, Framing
  <2>2. ASSUME NEW i \in 7..Got' PROVE driver'.got[i] = port.buf[i - 7]
    <3>1. CASE i = Got'
      BY <1>9, <3>1
    <3>2. CASE i # Got'
      <4>1. i \in 7..Got /\ i \in 1..Got
        BY <1>1, <1>7, <3>2
      <4> QED BY <2>1, <4>1
    <3> QED BY <3>1, <3>2
  <2> QED BY <2>1, <2>2
<1> QED BY <1>1, <1>2, <1>3, <1>4, <1>5, <1>6, <1>7, <1>8, <1>9, <1>10

LEMMA ReadFrame ==
  ASSUME SioInv, Reads, sioRead8, port.mcdst = 5, ~LastAnswer
  PROVE  SioInv'
<1>1. port'.mcdst = 5
  BY DEF Reads
<1>2. TypeOK' /\ CardTransfer' /\ PadTransfer'
  BY <1>1, ReadWithin
<1>3. cards'[ctrl.slot].data = cards[ctrl.slot].data
  BY ReadKeepsCards
<1>4. ReadAnswer' = ReadAnswer
  BY <1>3 DEF Reads, ReadAnswer, Addressed, Frame, Checksum
<1>5. Commanding' /\ Addressing'
  <2>1. /\ driver'.got[3] = 90 /\ driver'.got[4] = 93 /\ driver'.got[5] = 0
        /\ port.rdwr \in {1, 2} /\ driver.sent[5] = port.adrH /\ driver.sent[6] = port.adrL
    BY FrameRead
  <2>2. /\ port'.rdwr = port.rdwr /\ port'.adrH = port.adrH /\ port'.adrL = port.adrL
        /\ driver'.sent = driver.sent
    BY DEF Reads
  <2> QED BY <1>1, <2>1, <2>2 DEF Commanding, Addressing
<1>6. Framing'
  <2>1. /\ Sent = port.parp + 7 /\ port.parp <= port.bufcount /\ port.parp # port.bufcount
        /\ driver'.got[6] = port.adrH
        /\ port.bufcount = (IF port.rdwr = 1 THEN FrameBytes + 5 ELSE FrameBytes + 3)
        /\ port.rdwr = 1 =>
             /\ driver.kept => \A i \in Positions : port.buf[i] = ReadAnswer[i + 1]
             /\ \A i \in 7..Got' : driver'.got[i] = port.buf[i - 7]
    BY FrameRead
  <2>2. port.rdwr = 2 =>
          /\ port.buf[FrameBytes + 3] = 71
          /\ \A i \in 1..FrameBytes :
               i <= port.parp + 1 => port.buf[i] = driver.sent[6 + i] /\ port.buf[i] \in Data
    BY DEF SioInv, Framing
  <2>3. /\ port'.rdwr = port.rdwr /\ port'.parp = port.parp /\ port'.bufcount = port.bufcount
        /\ port'.buf = port.buf /\ port'.adrH = port.adrH /\ driver'.sent = driver.sent
        /\ driver'.kept = driver.kept /\ Sent' = Sent
    BY DEF Reads
  <2> QED BY <1>4, <2>1, <2>2, <2>3 DEF Framing
<1>7. AnswersRight'
  <2>1. /\ Got' = port.parp + 7 /\ port.parp < port.bufcount /\ port.rdwr \in {1, 2}
        /\ port.bufcount = (IF port.rdwr = 1 THEN FrameBytes + 5 ELSE FrameBytes + 3)
        /\ driver.sent[2] = (IF port.rdwr = 1 THEN Read ELSE Write)
        /\ driver.sent[1] = StartCard /\ port.parp \in Nat /\ FrameBytes \in Nat
    <3>1. port.parp <= port.bufcount /\ port.parp # port.bufcount
      BY FrameRead
    <3> QED BY <3>1, FrameRead
  <2>2. driver'.sent = driver.sent
    BY DEF Reads
  <2>3. ~(Command(Write)' /\ Got' = FrameBytes + 10)
    BY <2>1, <2>2 DEF Command, Write, Read
  <2>4. ~(Command(Read)' /\ Got' = FrameBytes + 12)
    BY <2>1, <2>2 DEF Command, Write, Read
  <2>5. driver'.sent[1] # StartPad
    BY <2>1, <2>2 DEF StartPad, StartCard
  <2> QED BY <2>3, <2>4, <2>5 DEF AnswersRight, Got
<1> QED BY <1>2, <1>5, <1>6, <1>7 DEF Reads, SioInv

LEMMA ReadLastOfRead ==
  ASSUME SioInv, Reads, sioRead8, port.mcdst = 5, LastAnswer, port.rdwr = 1
  PROVE  SioInv'
<1>1. TypeOK' /\ cards'[ctrl.slot].data = cards[ctrl.slot].data
  BY ReadKeepsCards
<1>2. port'.padst = 0 /\ port'.mcdst = 0 /\ ~driver'.owed /\ Paired'
  <2>1. port.padst = 0
    BY FrameRead
  <2> QED BY <2>1 DEF Reads
<1>3. /\ driver'.sent = driver.sent /\ driver'.kept = driver.kept /\ ctrl' = ctrl
      /\ driver'.got \in Seq(Byte) /\ TypeOK
  BY DEF Reads, Drivers
<1>4. /\ FrameBytes \in Nat \ {0, 1} /\ Got' = FrameBytes + 12
      /\ driver.sent[1] = StartCard /\ driver.sent[2] = Read
      /\ driver'.got[3] = 90 /\ driver'.got[4] = 93 /\ driver'.got[5] = 0
      /\ driver'.got[6] = port.adrH
      /\ driver.kept => \A i \in Positions : port.buf[i] = ReadAnswer[i + 1]
      /\ \A i \in 7..Got' : driver'.got[i] = port.buf[i - 7]
  <2>1. port.parp = FrameBytes + 5
    BY FrameRead
  <2> QED BY <2>1, FrameRead
<1>5. SentFrame' = Frame
  BY <1>3, FrameRead DEF SentFrame, Frame
<1> DEFINE answers == SubSeq(driver'.got, 3, FrameBytes + 12)
<1>6. ASSUME driver.kept PROVE answers = AsRead
  <2>1. /\ answers \in Seq(Byte) /\ Len(answers) = FrameBytes + 10
        /\ \A i \in 1..FrameBytes + 10 : answers[i] = driver'.got[i + 2]
    <3>1. 3 \in 1..Len(driver'.got) + 1 /\ FrameBytes + 12 \in 2..Len(driver'.got)
      BY <1>4 DEF Got
    <3>2. /\ answers \in Seq(Byte) /\ Len(answers) = (FrameBytes + 12) - 3 + 1
          /\ \A i \in 1..(FrameBytes + 12) - 3 + 1 : answers[i] = driver'.got[3 + i - 1]
      BY <1>3, <3>1, SubSeqProperties
    <3>3. (FrameBytes + 12) - 3 + 1 = FrameBytes + 10
          /\ \A i \in 1..FrameBytes + 10 : 3 + i - 1 = i + 2
      BY <1>4
    <3> QED BY <3>2, <3>3
  <2>2. /\ AsRead \in Seq(Byte) /\ Len(AsRead) = FrameBytes + 10
        /\ AsRead[1] = 90 /\ AsRead[2] = 93 /\ AsRead[3] = 0 /\ AsRead[4] = port.adrH
        /\ \A i \in 1..FrameBytes + 6 : AsRead[4 + i] = ReadAnswer[i]
    BY <1>3, AsReadIs
  <2> HIDE DEF answers
  <2>3. ASSUME NEW i \in 1..FrameBytes + 10 PROVE answers[i] = AsRead[i]
    <3>1. answers[i] = driver'.got[i + 2]
      BY <2>1
    <3>2. CASE i \in 1..4
      <4>1. i = 1 \/ i = 2 \/ i = 3 \/ i = 4
        BY <3>2
      <4> QED BY <1>4, <2>2, <3>1, <4>1
    <3>3. CASE i \in 5..FrameBytes + 10
      <4>1. /\ i - 4 \in 1..FrameBytes + 6 /\ 4 + (i - 4) = i /\ i + 2 \in 7..Got'
            /\ i - 5 \in Positions /\ (i + 2) - 7 = i - 5 /\ (i - 5) + 1 = i - 4
        BY <1>4, <3>3 DEF Positions
      <4>2. driver'.got[i + 2] = port.buf[(i + 2) - 7]
        BY <1>4, <4>1
      <4>3. port.buf[i - 5] = ReadAnswer[(i - 5) + 1]
        BY <1>4, <1>6, <4>1
      <4>4. AsRead[4 + (i - 4)] = ReadAnswer[i - 4]
        BY <2>2, <4>1
      <4> QED BY <3>1, <4>1, <4>2, <4>3, <4>4
    <3> QED BY <1>4, <3>2, <3>3
  <2> QED BY <2>1, <2>2, <2>3, SeqEqual
<1> HIDE DEF answers
<1>7. ~Command(Write)' /\ driver'.sent[1] # StartPad
  BY <1>3, <1>4 DEF Command, Write, Read, StartCard, StartPad
<1>8. AsRead = <<90, 93, 0, SentFrame'[1], 92, 93>> \o SentFrame'
                 \o cards'[ctrl'.slot].data[SentFrame']
                 \o <<Checksum(SentFrame' \o cards'[ctrl'.slot].data[SentFrame']), 71>>
  <2>1. Frame[1] = port.adrH
    BY DEF Frame
  <2> QED BY <1>1, <1>3, <1>5, <2>1 DEF AsRead
<1>9. AnswersRight'
  <2>1. ASSUME driver'.kept
        PROVE  SubSeq(driver'.got, 3, FrameBytes + 12) =
                 <<90, 93, 0, SentFrame'[1], 92, 93>> \o SentFrame'
                   \o cards'[ctrl'.slot].data[SentFrame']
                   \o <<Checksum(SentFrame' \o cards'[ctrl'.slot].data[SentFrame']), 71>>
    BY <1>3, <1>6, <1>8, <2>1 DEF answers
  <2> QED BY <1>7, <2>1 DEF AnswersRight, Checksum
<1> QED BY <1>1, <1>2, <1>9, NothingTransferred

(* What the last answer of a write does to the cards. *)
LEMMA FrameWritten ==
  ASSUME SioInv, Reads, sioRead8, port.mcdst = 5, LastAnswer, port.rdwr = 2
  PROVE  /\ cards' \in [Slots -> Cards] /\ ctrl.slot \in Slots /\ Frame \in Frames
         /\ \A s \in Slots : s # ctrl.slot => cards'[s] = cards[s]
         /\ \A f \in Frames : f # Frame => cards'[ctrl.slot].data[f] = cards[ctrl.slot].data[f]
         /\ cards'[ctrl.slot].data[Frame] = SentData
         /\ Frame = SentFrame /\ Sent = FrameBytes + 10
         /\ driver'.got[FrameBytes + 10] = 71
<1>1. TypeOK /\ ctrl.slot \in Slots
  BY DEF Reads, TypeOK
<1>2. Frame \in Frames
  BY <1>1, PortTyped DEF Frame, Frames
<1>3. /\ port.parp = FrameBytes + 3 /\ Sent = FrameBytes + 10 /\ Got' = FrameBytes + 10
      /\ FrameBytes \in Nat \ {0, 1}
      /\ driver.sent[5] = port.adrH /\ driver.sent[6] = port.adrL
      /\ driver'.got[Got'] = port.buf[Got' - 7]
  <2>1. port.parp = FrameBytes + 3
    BY FrameRead
  <2> QED BY <2>1, FrameRead
<1>4. /\ port.buf[FrameBytes + 3] = 71
      /\ \A i \in 1..FrameBytes :
           i <= port.parp + 1 => port.buf[i] = driver.sent[6 + i] /\ port.buf[i] \in Data
  BY DEF SioInv, Framing
<1>5. \A i \in 1..FrameBytes : port.buf[i] = driver.sent[6 + i] /\ port.buf[i] \in Data
  BY <1>3, <1>4
<1> DEFINE bytes == [i \in 1..FrameBytes |-> port.buf[i]]
           told == cards[ctrl.slot].told \/ (port.mcdst = 1 /\ port.parp = 1 /\ Answer = 8)
           card == [cards[ctrl.slot] EXCEPT !.data = Written, !.told = told]
<1>6. bytes = SentData /\ bytes \in [1..FrameBytes -> Data]
  BY <1>5 DEF SentData
<1>7. cards \in [Slots -> Cards] /\ cards[ctrl.slot] \in Cards
  BY <1>1 DEF TypeOK, Cards
<1>8. /\ Written \in Contents /\ Written[Frame] = bytes
      /\ \A f \in Frames : f # Frame => Written[f] = cards[ctrl.slot].data[f]
  <2>1. cards[ctrl.slot].data \in [Frames -> [1..FrameBytes -> Data]]
    BY <1>7 DEF Cards, Contents
  <2>2. Written = [cards[ctrl.slot].data EXCEPT ![Frame] = bytes]
    BY DEF Written
  <2> HIDE DEF bytes
  <2> QED BY <1>2, <1>6, <2>1, <2>2 DEF Contents
<1> HIDE DEF bytes
<1>9. told \in BOOLEAN
  BY <1>7 DEF Cards
<1>10. cards' = [cards EXCEPT ![ctrl.slot] = card]
  BY <1>1, <1>7 DEF sioRead8, LastAnswer, Answer, Cards
<1> HIDE DEF told
<1>11. card \in Cards /\ card.data = Written
  BY <1>7, <1>8, <1>9 DEF Cards
<1> HIDE DEF card
<1>12. /\ cards' \in [Slots -> Cards] /\ cards'[ctrl.slot] = card
       /\ \A s \in Slots : s # ctrl.slot => cards'[s] = cards[s]
  BY <1>1, <1>7, <1>10, <1>11
<1>13. Frame = SentFrame
  BY <1>3 DEF Frame, SentFrame
<1>14. driver'.got[FrameBytes + 10] = 71
  <2>1. (FrameBytes + 10) - 7 = FrameBytes + 3
    BY <1>3
  <2> QED BY <1>3, <1>4, <2>1
<1> QED BY <1>1, <1>2, <1>3, <1>6, <1>8, <1>11, <1>12, <1>13, <1>14

LEMMA ReadLastOfWrite ==
  ASSUME SioInv, Reads, sioRead8, port.mcdst = 5, LastAnswer, port.rdwr = 2
  PROVE  SioInv'
<1>1. cards' \in [Slots -> Cards]
  BY FrameWritten
<1>2. TypeOK'
  BY <1>1 DEF Reads, TypeOK, Ports, Drivers, Cards
<1>3. port'.padst = 0 /\ port'.mcdst = 0 /\ ~driver'.owed /\ Paired'
  <2>1. port.padst = 0
    BY FrameRead
  <2> QED BY <2>1 DEF Reads
<1>4. driver'.sent = driver.sent /\ ctrl' = ctrl
  BY DEF Reads
<1>5. driver.sent[1] = StartCard /\ driver.sent[2] = Write
  BY FrameRead
<1>6. SentFrame' = Frame /\ SentData' = SentData
  <2>1. Frame = SentFrame
    BY FrameWritten
  <2> QED BY <1>4, <2>1 DEF SentFrame, SentData
<1>7. driver'.got[FrameBytes + 10] = 71 /\ cards'[ctrl'.slot].data[SentFrame'] = SentData'
  <2>1. driver'.got[FrameBytes + 10] = 71 /\ cards'[ctrl.slot].data[Frame] = SentData
    BY FrameWritten
  <2> QED BY <1>4, <1>6, <2>1
<1>8. ~Command(Read)' /\ driver'.sent[1] # StartPad
  BY <1>4, <1>5 DEF Command, Write, Read, StartCard, StartPad
<1>9. AnswersRight'
  BY <1>7, <1>8 DEF AnswersRight
<1> QED BY <1>2, <1>3, <1>9, NothingTransferred

LEMMA StepRead == SioInv /\ sioRead8 => SioInv'
<1> SUFFICES ASSUME SioInv, sioRead8 PROVE SioInv'
  OBVIOUS
<1>1. Reads
  BY ReadsOne
<1>2. port.mcdst \in 0..5 /\ port.rdwr \in 0..2
  BY <1>1, PortTyped DEF Reads
<1>3. port.mcdst # 2
  BY <1>1 DEF Reads, SioInv, Addressing
<1>4. CASE port.mcdst = 0
  BY <1>1, <1>4, ReadPad
<1>5. CASE port.mcdst = 1
  BY <1>1, <1>5, ReadCommand
<1>6. CASE port.mcdst \in 3..4
  BY <1>1, <1>6, ReadAddress
<1>7. CASE port.mcdst = 5
  <2>1. port.rdwr \in {1, 2}
    BY <1>1, <1>7, FrameRead
  <2> QED BY <1>1, <1>7, <2>1, ReadFrame, ReadLastOfRead, ReadLastOfWrite
<1> QED BY <1>2, <1>3, <1>4, <1>5, <1>6, <1>7

-----------------------------------------------------------------------------
LEMMA SioStutter == SioInv /\ UNCHANGED vars => SioInv'
<1> SUFFICES ASSUME SioInv, UNCHANGED vars PROVE SioInv'
  OBVIOUS
<1>1. driver' = driver /\ ctrl' = ctrl /\ cards' = cards /\ port' = port /\ armed' = armed
      /\ istat' = istat
  BY DEF vars
<1>2. TypeOK'
  BY <1>1 DEF SioInv, TypeOK
<1>3. port' = [port EXCEPT !.irq = port'.irq]
  BY <1>1, PortTyped DEF SioInv, Port
<1> QED BY <1>1, <1>2, <1>3, TransferKept

LEMMA SioStep == SioInv /\ [Next]_vars => SioInv'
<1> SUFFICES ASSUME SioInv, [Next]_vars PROVE SioInv'
  OBVIOUS
<1>1. CASE UNCHANGED vars
  BY <1>1, SioStutter
<1>2. CASE Deselect
  BY <1>2, StepDeselect
<1>3. CASE \E s \in Slots : Select(s)
  BY <1>3, StepSelect
<1>4. CASE Acknowledge \/ ClearIstat \/ sioInterrupt
  BY <1>4, StepInterrupts
<1>5. CASE \E value \in Offers : sioWrite8(value)
  BY <1>5, StepWrite
<1>6. CASE sioRead8
  BY <1>6, StepRead
<1>7. CASE LoadMcds
  BY <1>7, StepLoadMcds
<1> QED BY <1>1, <1>2, <1>3, <1>4, <1>5, <1>6, <1>7 DEF Next

LEMMA SioInductive == Spec => []SioInv
<1>1. Init => SioInv
  BY SioInit
<1>2. SioInv /\ [Next]_vars => SioInv'
  BY SioStep
<1> QED BY <1>1, <1>2, PTL DEF Spec

(* The port, the cards and the driver have their types: parp never leaves  *)
(* buf, whose length is a frame and its trimmings.                         *)
THEOREM PortTypeOK == Spec => []TypeOK
<1>1. SioInv => TypeOK
  BY DEF SioInv
<1> QED BY <1>1, SioInductive, PTL

(* Every answer of a whole transfer is true, however many were dropped     *)
(* before it and whenever the cards were changed.                          *)
THEOREM AnswersAreRight == Spec => []AnswersRight
<1>1. SioInv => AnswersRight
  BY DEF SioInv
<1> QED BY <1>1, SioInductive, PTL

(* A card changes by whole frames only: the ones its last answer says are  *)
(* written.                                                                *)
FramesWritten ==
  \A s \in Slots : \A f \in Frames :
    driver'.kept /\ cards'[s].data[f] # cards[s].data[f] =>
      /\ s = ctrl.slot /\ cards[s].present
      /\ Command(Write) /\ Len(driver.sent) = FrameBytes + 10
      /\ f = SentFrame /\ cards'[s].data[f] = SentData

LEMMA WholeStep == SioInv /\ [Next]_vars => [FramesWritten]_vars
<1> SUFFICES ASSUME SioInv, Next PROVE FramesWritten
  BY DEF vars
<1>1. CASE UNCHANGED cards \/ ~driver'.kept
  BY <1>1 DEF FramesWritten
<1>2. CASE \E value \in Offers : sioWrite8(value)
  <2>1. PICK value \in Offers : sioWrite8(value)
    BY <1>2
  <2>2. CASE UNCHANGED cards
    BY <1>1, <2>2
  <2>3. CASE ~UNCHANGED cards
    <3>1. cards' = [cards EXCEPT ![ctrl.slot].new = FALSE]
      BY <2>1, <2>3 DEF sioWrite8, Start, StartPadTransfer, StartCardTransfer, NoDevice, PadCommand,
           PadReport, CardCommand, Address, FirstByte, NextByte
    <3>2. ASSUME NEW s \in Slots PROVE cards'[s].data = cards[s].data
      BY <3>1 DEF SioInv, TypeOK
    <3> QED BY <3>2 DEF FramesWritten
  <2> QED BY <2>2, <2>3
<1>3. CASE sioRead8
  <2>1. Reads
    BY <1>3, ReadsOne
  <2>2. CASE LastAnswer /\ port.mcdst = 5 /\ port.rdwr = 2
    <3>1. /\ \A s \in Slots : s # ctrl.slot => cards'[s] = cards[s]
          /\ \A f \in Frames : f # Frame => cards'[ctrl.slot].data[f] = cards[ctrl.slot].data[f]
          /\ cards'[ctrl.slot].data[Frame] = SentData
          /\ Frame = SentFrame /\ Sent = FrameBytes + 10
      BY <1>3, <2>1, <2>2, FrameWritten
    <3>2. driver.sent[1] = StartCard /\ driver.sent[2] = Write
      BY <2>1, <2>2, FrameRead
    <3>3. Command(Write) /\ Len(driver.sent) = FrameBytes + 10
      BY <3>1, <3>2, FrameSize DEF Command, Sent
    <3>4. driver'.kept => cards[ctrl.slot].present
      BY <2>1, <2>2 DEF SioInv, CardTransfer, Reads
    <3> QED BY <3>1, <3>3, <3>4 DEF FramesWritten
  <2>3. CASE ~(LastAnswer /\ port.mcdst = 5 /\ port.rdwr = 2)
    <3>1. cards'[ctrl.slot].data = cards[ctrl.slot].data
      BY <1>3, <2>1, <2>3, ReadKeepsCards
    <3>2. ASSUME NEW s \in Slots, s # ctrl.slot PROVE cards'[s] = cards[s]
      BY <1>3, <3>2 DEF sioRead8, SioInv, TypeOK
    <3> QED BY <3>1, <3>2 DEF FramesWritten
  <2> QED BY <2>2, <2>3
<1>4. CASE LoadMcds
  <2>1. ~driver'.kept
    BY <1>4 DEF LoadMcds, SioInv, TypeOK
  <2> QED BY <1>1, <2>1
<1> QED
  BY <1>1, <1>2, <1>3, <1>4 DEF Next, Deselect, Select, Acknowledge, ClearIstat, sioInterrupt

(* Nothing but a whole frame ever gets onto a card, in the transfer that    *)
(* carried it.                                                             *)
THEOREM OnlyWholeFrames == Spec => WritesWhole
<1>1. SioInv /\ [Next]_vars => [FramesWritten]_vars
  BY WholeStep
<1>2. Spec => [][FramesWritten]_vars
  BY <1>1, SioInductive, PTL DEF Spec
<1> QED BY <1>2 DEF WritesWhole, FramesWritten

-----------------------------------------------------------------------------
(* Who writes to a card has been told that it is new.                      *)

(* A card that is not marked as new has been announced; while one is being  *)
(* addressed the announcement is in the second answer, or has been read.   *)
Warned ==
  /\ \A s \in Slots : cards[s].new \/ cards[s].told
  /\ port.mcdst # 0 => \/ cards[ctrl.slot].told
                       \/ /\ port.mcdst = 1 /\ port.buf[1] = 8
                          /\ port.parp = 0 \/ (port.parp = 1 /\ driver.owed)

LEMMA WarnedInit == Init => Warned
<1> SUFFICES ASSUME Init PROVE Warned
  OBVIOUS
<1>1. port.mcdst = 0
  BY DEF Init
<1>2. \A s \in Slots : cards[s].new
  BY DEF Init
<1> QED BY <1>1, <1>2 DEF Warned

LEMMA WarnedKept ==
  ASSUME Warned, cards' = cards, ctrl' = ctrl \/ port'.mcdst = 0,
         port'.mcdst \in {0, port.mcdst}, port'.buf = port.buf, port'.parp = port.parp,
         driver'.owed = driver.owed
  PROVE  Warned'
  BY DEF Warned

(* A byte that the guest sends to a card: by now it has been told.         *)
LEMMA WarnedSend ==
  ASSUME SioInv, Warned, NEW value, sioWrite8(value)
  PROVE  Warned'
<1>1. /\ TypeOK /\ ctrl.slot \in Slots /\ ctrl' = ctrl /\ ~driver.owed
      /\ port.padst \in 0..2 /\ port.mcdst \in 0..5 /\ port.rdwr \in 0..2
  BY PortTyped DEF SioInv, TypeOK, sioWrite8
<1>2. driver'.owed
  BY DEF sioWrite8, SioInv, TypeOK
<1>3. \A s \in Slots : cards[s].new \/ cards[s].told
  BY DEF Warned
<1>4. CASE Start(value)
  <2>1. CASE cards' = cards /\ port'.mcdst = 0
    BY <1>3, <2>1 DEF Warned
  <2>2. CASE /\ cards' = cards /\ port'.mcdst = 1 /\ port'.parp = 0
             /\ port'.buf = Put(0, <<255, IF cards[ctrl.slot].new THEN 8 ELSE 0, 90, 93>>)
    <3> DEFINE bytes == <<255, IF cards[ctrl.slot].new THEN 8 ELSE 0, 90, 93>>
    <3>1. bytes \in Seq(Byte) /\ Len(bytes) = 4 /\ bytes[2] = IF cards[ctrl.slot].new THEN 8 ELSE 0
      BY DEF Byte
    <3> HIDE DEF bytes
    <3>2. 0 + 2 - 1 \in Positions /\ 0 + 2 - 1 = 1 /\ 2 \in 1..4
      BY FrameSize DEF Positions
    <3>3. Put(0, bytes)[1] = bytes[2]
      <4>1. \A i \in 1..Len(bytes) : 0 + i - 1 \in Positions => Put(0, bytes)[0 + i - 1] = bytes[i]
        BY <1>1, <3>1, PutKeepsBytes
      <4> QED BY <3>1, <3>2, <4>1
    <3>4. cards[ctrl.slot].told \/ port'.buf[1] = 8
      BY <1>1, <1>3, <2>2, <3>1, <3>3 DEF bytes
    <3> QED BY <1>1, <1>3, <2>2, <3>4 DEF Warned
  <2>3. port.mcdst = 0
    BY <1>4 DEF Start
  <2>4. NoDevice => cards' = cards /\ port'.mcdst = 0
    BY <1>1, <2>3 DEF NoDevice, TypeOK
  <2>5. StartPadTransfer => cards' = cards /\ port'.mcdst = 0
    <3>1. ASSUME NEW b
          PROVE  [port EXCEPT !.rx = TRUE, !.buf = b, !.parp = 0, !.bufcount = 2,
                              !.padst = 1].mcdst = 0
      BY <1>1, <2>3, PortTyped DEF Port
    <3> QED BY <2>4, <3>1, Zenon DEF StartPadTransfer
  <2>6. StartCardTransfer => NoDevice \/
          /\ cards' = cards /\ port'.mcdst = 1 /\ port'.parp = 0
          /\ port'.buf = Put(0, <<255, IF cards[ctrl.slot].new THEN 8 ELSE 0, 90, 93>>)
    <3>1. ASSUME NEW b
          PROVE  LET q == [port EXCEPT !.rx = TRUE, !.parp = 0, !.bufcount = 3, !.mcdst = 1,
                                       !.rdwr = 0, !.buf = b]
                 IN  q.mcdst = 1 /\ q.parp = 0 /\ q.buf = b
      BY <1>1, PortTyped DEF Port
    <3> DEFINE b == Put(0, <<255, IF cards[ctrl.slot].new THEN 8 ELSE 0, 90, 93>>)
    <3>2. StartCardTransfer =>
            \/ NoDevice
            \/ cards' = cards /\ port' = [port EXCEPT !.rx = TRUE, !.parp = 0, !.bufcount = 3,
                                            !.mcdst = 1, !.rdwr = 0, !.buf = b]
      BY Zenon DEF StartCardTransfer
    <3> HIDE DEF b
    <3>3. StartCardTransfer =>
            NoDevice \/ (cards' = cards /\ port'.mcdst = 1 /\ port'.parp = 0 /\ port'.buf = b)
      BY <3>1, <3>2
    <3> QED BY <3>3, Zenon DEF b
  <2> QED BY <1>4, <2>1, <2>2, <2>4, <2>5, <2>6 DEF Start
<1>5. CASE PadCommand(value) \/ PadReport
  <2>1. port.padst # 0
    BY <1>5 DEF PadCommand, PadReport
  <2>2. port.mcdst = 0
    BY <2>1 DEF SioInv, CardTransfer
  <2>3. cards' = cards
    BY <1>5 DEF PadCommand, PadReport
  <2>4. port'.mcdst = 0
    BY <1>1, <1>5, <2>2 DEF PadCommand, PadReport, TypeOK
  <2> QED BY <1>3, <2>3, <2>4 DEF Warned
<1>6. CASE CardCommand(value)
  <2>1. cards' = cards /\ port.mcdst = 1
    BY <1>6 DEF CardCommand
  <2>2. port.parp = 0 <=> port.rdwr = 0
    BY <2>1 DEF SioInv, Commanding
  <2>3. port'.buf = port.buf
    BY <1>1, <1>6 DEF CardCommand, TypeOK
  <2>4. CASE cards[ctrl.slot].told
    BY <1>1, <1>3, <2>1, <2>4 DEF Warned
  <2>5. CASE ~cards[ctrl.slot].told
    <3>1. port.buf[1] = 8 /\ port.parp = 0 /\ port.rdwr = 0
      BY <1>1, <2>1, <2>2, <2>5 DEF Warned
    <3>2. port'.parp = 1 /\ port'.mcdst \in {0, 1}
      BY <1>1, <1>6, <3>1 DEF CardCommand, TypeOK
    <3> QED BY <1>1, <1>2, <1>3, <2>1, <2>3, <3>1, <3>2 DEF Warned
  <2> QED BY <2>4, <2>5
<1>7. CASE Address(value) \/ FirstByte(value) \/ NextByte(value)
  <2>1. port.mcdst \in 2..5
    BY <1>7 DEF Address, FirstByte, NextByte
  <2>2. cards[ctrl.slot].told
    BY <2>1 DEF Warned
  <2>3. cards' = cards \/ cards' = [cards EXCEPT ![ctrl.slot].new = FALSE]
    BY <1>7 DEF Address, FirstByte, NextByte
  <2>4. /\ cards'[ctrl.slot].told
        /\ \A s \in Slots : s # ctrl.slot => cards'[s] = cards[s]
    BY <1>1, <2>2, <2>3 DEF TypeOK
  <2> QED BY <1>1, <1>3, <2>4 DEF Warned
<1> QED BY <1>4, <1>5, <1>6, <1>7 DEF sioWrite8

LEMMA WarnedRead == ASSUME SioInv, Warned, sioRead8 PROVE Warned'
<1>1. Reads
  BY ReadsOne
<1>2. /\ TypeOK /\ ctrl.slot \in Slots /\ ctrl' = ctrl /\ driver.owed
      /\ port'.parp = port.parp /\ port'.buf = port.buf
  BY <1>1 DEF Reads, TypeOK
<1>3. \A s \in Slots : s # ctrl.slot => cards'[s] = cards[s]
  BY <1>2 DEF sioRead8, TypeOK
<1>4. /\ cards'[ctrl.slot].new = cards[ctrl.slot].new
      /\ cards'[ctrl.slot].told = (cards[ctrl.slot].told \/
                                     (port.mcdst = 1 /\ port.parp = 1 /\ Answer = 8))
  BY <1>2 DEF sioRead8, TypeOK, Answer
<1>5. CASE cards[ctrl.slot].told
  BY <1>2, <1>3, <1>4, <1>5 DEF Warned
<1>6. CASE ~cards[ctrl.slot].told /\ port.mcdst = 0
  <2>1. port'.mcdst = 0
    BY <1>1, <1>6 DEF Reads
  <2> QED BY <1>2, <1>3, <1>4, <2>1 DEF Warned
<1>7. CASE ~cards[ctrl.slot].told /\ port.mcdst # 0
  <2>1. port.mcdst = 1 /\ port.buf[1] = 8 /\ port.parp \in {0, 1}
    BY <1>7 DEF Warned
  <2>2. port.rx /\ port.bufcount = 3
    BY <2>1 DEF SioInv, CardTransfer, Commanding
  <2>3. ~LastAnswer
    BY <2>1, <2>2 DEF LastAnswer
  <2>4. port'.mcdst = 1
    BY <1>1, <2>1, <2>3 DEF Reads
  <2>5. CASE port.parp = 0
    BY <1>2, <1>3, <1>4, <2>1, <2>4, <2>5 DEF Warned
  <2>6. CASE port.parp = 1
    <3>1. Answer = 8
      BY <2>1, <2>2, <2>6 DEF Answer
    <3> QED BY <1>2, <1>3, <1>4, <2>1, <2>6, <3>1 DEF Warned
  <2> QED BY <2>1, <2>5, <2>6
<1> QED BY <1>5, <1>6, <1>7

LEMMA WarnedStep ==
  ASSUME Swaps \subseteq {0}, SioInv, Warned, [Next]_vars PROVE Warned'
<1>1. TypeOK
  BY DEF SioInv
<1>2. CASE UNCHANGED vars
  BY <1>2, WarnedKept DEF vars
<1>3. CASE Deselect
  <2>1. cards' = cards /\ port'.mcdst = 0
    BY <1>1, <1>3 DEF Deselect, TypeOK
  <2> QED BY <2>1 DEF Warned
<1>4. CASE \E s \in Slots : Select(s)
  <2>1. cards' = cards /\ port'.mcdst = 0
    BY <1>4 DEF Select, SioInv, Paired
  <2> QED BY <2>1 DEF Warned
<1>5. CASE Acknowledge \/ ClearIstat \/ sioInterrupt
  <2>1. /\ cards' = cards /\ ctrl' = ctrl /\ driver' = driver
        /\ port'.mcdst = port.mcdst /\ port'.parp = port.parp /\ port'.buf = port.buf
    BY <1>1, <1>5 DEF Acknowledge, ClearIstat, sioInterrupt, TypeOK
  <2> QED BY <2>1, WarnedKept
<1>6. CASE LoadMcds
  <2>1. port'.mcdst = 0
    BY <1>6 DEF LoadMcds
  <2>2. \A s \in Slots : cards'[s].new
    BY <1>6 DEF LoadMcds
  <2> QED BY <2>1, <2>2 DEF Warned
<1> QED BY <1>2, <1>3, <1>4, <1>5, <1>6, WarnedSend, WarnedRead DEF Next

WrittenKnowing ==
  \A s \in Slots :
    cards'[s].data # cards[s].data /\ driver'.sent # <<>> /\ driver.owed /\ ~driver'.owed =>
      cards[s].told

LEMMA KnowingStep == ASSUME SioInv, Warned, [Next]_vars PROVE [WrittenKnowing]_vars
<1> SUFFICES ASSUME Next, driver.owed, ~driver'.owed, UNCHANGED cards => FALSE,
                    NEW s \in Slots, cards'[s].data # cards[s].data
             PROVE  cards[s].told
  BY DEF WrittenKnowing
<1>1. sioRead8
  <2>1. ~LoadMcds
    BY DEF LoadMcds, SioInv, TypeOK
  <2>2. ASSUME NEW value, sioWrite8(value) PROVE FALSE
    BY <2>2 DEF sioWrite8
  <2> QED BY <2>1, <2>2 DEF Next, Deselect, Select, Acknowledge, ClearIstat, sioInterrupt
<1>2. Reads
  BY <1>1, ReadsOne
<1>3. s = ctrl.slot
  BY <1>1 DEF sioRead8, SioInv, TypeOK
<1>4. port.mcdst = 5
  BY <1>1, <1>2, <1>3, ReadKeepsCards
<1> QED BY <1>3, <1>4 DEF Warned

(* While the player changes cards between transfers only, none is written   *)
(* before its mark, cleared by the frame before, was read by the guest.     *)
THEOREM NewCardsAnnounced == ASSUME Swaps \subseteq {0} PROVE Spec => ToldBeforeWriting
<1>1. Init => Warned
  BY WarnedInit
<1>2. SioInv /\ Warned /\ [Next]_vars => Warned'
  BY WarnedStep
<1>3. SioInv /\ Warned /\ [Next]_vars => [WrittenKnowing]_vars
  BY KnowingStep
<1>4. Spec => [][WrittenKnowing]_vars
  BY <1>1, <1>2, <1>3, SioInductive, PTL DEF Spec
<1> QED BY <1>4 DEF ToldBeforeWriting, WrittenKnowing
=============================================================================

----------------------------- MODULE CddaProofs -----------------------------
(***************************************************************************)
(* Proofs about Cdda, for every ring, image and number of playbacks:        *)
(* stopCDDA leaves no thread behind that reads the image or feeds the ring, *)
(* and, where the readers share no cache but under the lock, no reader      *)
(* finds another's hunk in it, and what is mixed comes in order.            *)
(*                                                                         *)
(* What keeps the first together is that playing stands for the thread:     *)
(* stopCDDA looks at playing alone to decide whether to wait.  The last     *)
(* takes the ring for one stream: what lies in it follows what was mixed,   *)
(* and the chunk follows what lies in the ring.                             *)
(***************************************************************************)
EXTENDS Cdda, TLAPS

USE CddaAssumption DEF CddaAssumption

(* A thread that has not ended will be waited for. *)
WaitedFor == \A p \in Play : Live(p) => playing \/ emu.at = "join"

(* Who reads a hunk holds the lock. *)
LockHeld ==
  /\ emu.at = "fetched" => image = "chd" /\ hunk.lock = "emulator"
  /\ \A p \in Play : thread[p].pc = "fetched" => image = "chd" /\ hunk.lock = "thread"

(* A playback that is being started is one of those counted. *)
Counted == emu.want = "play" => plays + 1 \in Play

(* What the thread found before it began a read or a copy still holds. *)
Chunked ==
  \A p \in Play :
    /\ thread[p].pc = "fetched" => cdda_cur_sector < Sectors /\ Len(sndbuffer) < Chunk
    /\ thread[p].pc = "feed" => thread[p].n = 0
    /\ thread[p].pc \in {"wrap", "copy"} => thread[p].n <= Len(sndbuffer)

IInv == TypeOK /\ AloneWhenStopped /\ WaitedFor /\ LockHeld /\ Chunked /\ CacheKept /\ Counted

(* No image without a lock: neither pbp nor cbin. *)
ImagesLocked == Images \subseteq {"plain", "chd"}

-----------------------------------------------------------------------------
(* Arithmetic of hunks and of the ring. *)

LEMMA Division ==
  \A s \in Nat : /\ HunkOf(s) \in Nat
                 /\ s % HunkSectors \in Nat /\ s % HunkSectors < HunkSectors
                 /\ HunkOf(s) * HunkSectors + (s % HunkSectors) = s
BY SMT DEF HunkOf

LEMMA HunksInOrder == \A s \in 0..Sectors : HunkOf(s) \in 0..HunkOf(Sectors)
<1> TAKE s \in 0..Sectors
<1> DEFINE a == HunkOf(s)
           b == HunkOf(Sectors)
<1>1. /\ a \in Nat /\ b \in Nat
      /\ s % HunkSectors \in Nat
      /\ Sectors % HunkSectors \in Nat /\ Sectors % HunkSectors < HunkSectors
      /\ a * HunkSectors + (s % HunkSectors) = s
      /\ b * HunkSectors + (Sectors % HunkSectors) = Sectors
  <2>1. s \in Nat /\ Sectors \in Nat
    OBVIOUS
  <2> QED BY <2>1, Division
<1>2. SUFFICES ASSUME a > b PROVE FALSE
  BY <1>1
<1> HIDE DEF a, b
<1>3. a - b - 1 \in Nat /\ a = b + 1 + (a - b - 1)
  BY <1>1, <1>2
<1>4. \A d \in Nat : (b + 1 + d) * HunkSectors = b * HunkSectors + HunkSectors + d * HunkSectors
  BY <1>1, SMT
<1>5. (a - b - 1) * HunkSectors \in Nat /\ b * HunkSectors \in Nat
  BY <1>1, <1>3, SMT
<1>6. a * HunkSectors = b * HunkSectors + HunkSectors + (a - b - 1) * HunkSectors
  BY <1>3, <1>4
<1> QED BY <1>1, <1>5, <1>6

LEMMA Room == TypeOK => Space \in 0..(Slots - 1)
<1> SUFFICES ASSUME TypeOK PROVE Space \in 0..(Slots - 1)
  OBVIOUS
<1>1. CDDAPlay - CDDAFeed - 1 \in Int /\ Slots \in Nat \ {0}
  BY DEF TypeOK
<1> QED BY <1>1, SMT DEF Space

LEMMA PieceFits ==
  ASSUME TypeOK, NEW p \in Play, thread[p].n <= Len(sndbuffer)
  PROVE  /\ Piece(p) \in Nat
         /\ CDDAFeed + Piece(p) <= Slots
         /\ thread[p].n + Piece(p) <= Len(sndbuffer)
<1>1. Len(sndbuffer) \in Nat /\ thread[p].n \in Nat /\ CDDAFeed \in 0..Slots
  BY DEF TypeOK, Thread
<1> QED BY <1>1, Room DEF Piece, Least

-----------------------------------------------------------------------------
(* Types *)

(* A thread's record, with one, two or three of its fields changed. *)
LEMMA PcChanged ==
  ASSUME NEW t \in [Play -> Thread], NEW p \in Play, NEW pc \in Steps
  PROVE  [t EXCEPT ![p].pc = pc] \in [Play -> Thread]
BY DEF Thread

LEMMA CountChanged ==
  ASSUME NEW t \in [Play -> Thread], NEW p \in Play, NEW pc \in Steps, NEW n \in 0..Chunk
  PROVE  [t EXCEPT ![p].pc = pc, ![p].n = n] \in [Play -> Thread]
BY DEF Thread

LEMMA RetChanged ==
  ASSUME NEW t \in [Play -> Thread], NEW p \in Play, NEW pc \in Steps,
         NEW ret \in {"none", "wait", "go"}
  PROVE  [t EXCEPT ![p].pc = pc, ![p].ret = ret] \in [Play -> Thread]
BY DEF Thread

LEMMA AllChanged ==
  ASSUME NEW t \in [Play -> Thread], NEW p \in Play, NEW pc \in Steps, NEW n \in 0..Chunk,
         NEW ret \in {"none", "wait", "go"}
  PROVE  [t EXCEPT ![p].pc = pc, ![p].n = n, ![p].ret = ret] \in [Play -> Thread]
BY DEF Thread

LEMMA GoType ==
  ASSUME TypeOK, NEW p \in Play, NEW pc \in Steps, Go(p, pc)
  PROVE  thread' \in [Play -> Thread]
<1>1. thread \in [Play -> Thread]
  BY DEF TypeOK
<1> QED BY <1>1, PcChanged DEF Go

(* The emulator's record. *)
LEMMA IdleType == Idle \in Emu
BY DEF Emu, Idle

LEMMA Placed ==
  ASSUME NEW e \in Emu, NEW at \in {"run", "stop", "join", "then", "fetched", "done"}
  PROVE  [e EXCEPT !.at = at] \in Emu
BY DEF Emu

LEMMA StopForType ==
  ASSUME NEW want \in {"run", "play", "free", "exit"}, StopFor(want) PROVE emu' \in Emu
<1>1. Idle \in Emu
  BY IdleType
<1> QED BY <1>1 DEF StopFor, Emu

LEMMA GotType ==
  ASSUME TypeOK, NEW p \in Play, NEW s \in 0..(Sectors - 1), Got(p, s), Len(sndbuffer) < Chunk
  PROVE  sndbuffer' \in Seq(Sound) /\ Len(sndbuffer') <= Chunk
<1>1. [play |-> p, sector |-> s] \in Sound
  BY DEF Sound
<1>2. sndbuffer \in Seq(Sound)
  BY DEF TypeOK
<1> QED BY <1>1, <1>2 DEF Got

LEMMA FetchType ==
  ASSUME TypeOK, NEW s \in 0..Sectors, NEW who \in {"thread", "emulator"}, Fetch(s, who)
  PROVE  hunk' \in Hunk
<1>1. HunkOf(s) \in 0..HunkOf(Sectors) /\ HunkOf(Sectors) \in Nat
  BY HunksInOrder, Division
<1>2. hunk.lock \in {"free", "thread", "emulator"}
  BY DEF TypeOK, Hunk
<1> QED BY <1>1, <1>2 DEF Fetch, Hunk

LEMMA FillType ==
  ASSUME TypeOK, NEW p \in Play, Fill(p) PROVE TypeOK'
<1>1. cdda_cur_sector \in 0..Sectors
  BY DEF TypeOK
<1>2. CASE Go(p, "filled") /\ UNCHANGED <<sndbuffer, cdda_cur_sector, hunk>>
  BY <1>2, GoType DEF Fill, TypeOK, Steps, control, sound
<1>3. CASE /\ Len(sndbuffer) < Chunk /\ cdda_cur_sector < Sectors
           /\ Got(p, cdda_cur_sector) /\ UNCHANGED hunk
  <2>1. cdda_cur_sector \in 0..(Sectors - 1)
    BY <1>1, <1>3
  <2>2. sndbuffer' \in Seq(Sound) /\ Len(sndbuffer') <= Chunk
    BY <1>3, <2>1, GotType
  <2> QED BY <1>3, <2>1, <2>2, GoType DEF Fill, Got, TypeOK, Steps, control, sound
<1>4. CASE /\ cdda_cur_sector < Sectors /\ Fetch(cdda_cur_sector, "thread")
           /\ Go(p, "fetched") /\ UNCHANGED <<sndbuffer, cdda_cur_sector>>
  <2>1. hunk' \in Hunk
    BY <1>1, <1>4, FetchType
  <2> QED BY <1>4, <2>1, GoType DEF Fill, TypeOK, Steps, control, sound
<1> QED BY <1>2, <1>3, <1>4 DEF Fill

LEMMA FillFetchedType ==
  ASSUME IInv, NEW p \in Play, FillFetched(p) PROVE TypeOK'
<1>1. /\ TypeOK /\ thread[p].pc = "fetched"
      /\ cdda_cur_sector \in Nat /\ cdda_cur_sector < Sectors /\ Len(sndbuffer) < Chunk
      /\ hunk.held = HunkOf(cdda_cur_sector)
  BY DEF IInv, FillFetched, Chunked, CacheKept, TypeOK
<1>2. Fetched(cdda_cur_sector) = cdda_cur_sector /\ cdda_cur_sector \in 0..(Sectors - 1)
  BY <1>1, Division DEF Fetched
<1>3. sndbuffer' \in Seq(Sound) /\ Len(sndbuffer') <= Chunk
  BY <1>1, <1>2, GotType DEF FillFetched
<1>4. thread' \in [Play -> Thread]
  BY <1>1, GoType DEF FillFetched, Got, Steps
<1>5. hunk' \in Hunk
  BY <1>1 DEF FillFetched, Release, TypeOK, Hunk
<1>6. cdda_cur_sector' \in 0..Sectors
  BY <1>1, <1>2 DEF FillFetched, Got
<1> QED BY <1>1, <1>3, <1>4, <1>5, <1>6 DEF FillFetched, TypeOK, control, sound

LEMMA CopyType ==
  ASSUME IInv, NEW p \in Play, Copy(p) PROVE TypeOK'
<1> DEFINE k == Piece(p)
           n == thread[p].n
<1>1. TypeOK /\ n <= Len(sndbuffer) /\ n \in 0..Chunk
  BY DEF IInv, Copy, Chunked, TypeOK, Thread
<1>2. k \in Nat /\ CDDAFeed + k <= Slots /\ n + k <= Len(sndbuffer)
  BY <1>1, PieceFits
<1>3. CDDAFeed \in 0..Slots /\ Len(sndbuffer) \in Nat /\ Len(sndbuffer) <= Chunk
  BY <1>1 DEF TypeOK
<1>4. CDDAFeed' \in 0..Slots
  BY <1>2, <1>3 DEF Copy
<1>5. thread' \in [Play -> Thread]
  <2>1. thread \in [Play -> Thread] /\ n + k \in 0..Chunk /\ 0 \in 0..Chunk
    BY <1>1, <1>2, <1>3 DEF TypeOK
  <2> HIDE DEF k, n
  <2>2. thread' \in {[thread EXCEPT ![p].pc = "pace", ![p].n = 0, ![p].ret = "go"],
                     [thread EXCEPT ![p].pc = "wrap", ![p].n = n + k]}
    BY DEF Copy, k, n
  <2>3. "pace" \in Steps /\ "wrap" \in Steps
    BY DEF Steps
  <2>4. CASE thread' = [thread EXCEPT ![p].pc = "pace", ![p].n = 0, ![p].ret = "go"]
    BY <2>1, <2>3, <2>4, AllChanged
  <2>5. CASE thread' = [thread EXCEPT ![p].pc = "wrap", ![p].n = n + k]
    BY <2>1, <2>3, <2>5, CountChanged
  <2> QED BY <2>2, <2>4, <2>5
<1>6. ring' \in [0..(Slots - 1) -> Sound \cup {Nothing}]
  <2>1. ASSUME NEW i \in 0..(Slots - 1), CDDAFeed <= i, i < CDDAFeed + k
        PROVE  sndbuffer[n + 1 + i - CDDAFeed] \in Sound
    <3> HIDE DEF k, n
    <3>1. n + 1 + i - CDDAFeed \in 1..Len(sndbuffer)
      BY <1>1, <1>2, <1>3, <2>1
    <3>2. sndbuffer \in Seq(Sound)
      BY <1>1 DEF TypeOK
    <3> QED BY <3>1, <3>2
  <2> QED BY <1>1, <2>1 DEF Copy, From, TypeOK
<1>7. UNCHANGED <<playing, cdda_cur_sector, disc, sndbuffer, CDDAPlay, last, dry, control, dropped>>
  BY DEF Copy
<1> QED BY <1>1, <1>4, <1>5, <1>6, <1>7 DEF TypeOK, control, disc

LEMMA ThreadType ==
  ASSUME IInv, NEW p \in Play, playthread(p) PROVE TypeOK'
<1> USE DEF Steps, control, sound, disc
<1>0. TypeOK
  BY DEF IInv
<1>00. thread \in [Play -> Thread] /\ 0 \in 0..Chunk
  BY <1>0 DEF TypeOK
<1>1. CASE Top(p)
  <2>1. sndbuffer' \in Seq(Sound) /\ Len(sndbuffer') <= Chunk
    BY <1>1 DEF Top
  <2> QED BY <1>0, <1>1, <2>1, GoType DEF Top, TypeOK
<1>2. CASE Fill(p)
  BY <1>0, <1>2, FillType
<1>3. CASE FillFetched(p)
  BY <1>3, FillFetchedType
<1>4. CASE Filled(p)
  <2>1. dropped' \subseteq Sound
    BY <1>0, <1>4 DEF Filled, TypeOK
  <2>2. thread' \in [Play -> Thread]
    <3>1. thread' \in {[thread EXCEPT ![p].pc = "end"], [thread EXCEPT ![p].pc = "pace"],
                       [thread EXCEPT ![p].pc = "feed", ![p].n = 0]}
      BY <1>4 DEF Filled, Go
    <3>2. CASE thread' = [thread EXCEPT ![p].pc = "end"]
      BY <1>00, <3>2, PcChanged
    <3>4. CASE thread' = [thread EXCEPT ![p].pc = "pace"]
      BY <1>00, <3>4, PcChanged
    <3>3. CASE thread' = [thread EXCEPT ![p].pc = "feed", ![p].n = 0]
      BY <1>00, <3>3, CountChanged
    <3> QED BY <3>1, <3>2, <3>3, <3>4
  <2>3. playing' \in BOOLEAN
    BY <1>0, <1>4 DEF Filled, TypeOK
  <2> QED BY <1>0, <1>4, <2>1, <2>2, <2>3 DEF Filled, TypeOK
<1>5. CASE Feed(p)
  <2>1. thread' \in [Play -> Thread]
    <3>1. thread' \in {[thread EXCEPT ![p].pc = "wrap"],
                       [thread EXCEPT ![p].pc = "pace", ![p].ret = "wait"]}
      BY <1>5 DEF Feed, Go
    <3>2. CASE thread' = [thread EXCEPT ![p].pc = "wrap"]
      BY <1>00, <3>2, PcChanged
    <3>3. CASE thread' = [thread EXCEPT ![p].pc = "pace", ![p].ret = "wait"]
      BY <1>00, <3>3, RetChanged
    <3> QED BY <3>1, <3>2, <3>3
  <2> QED BY <1>0, <1>5, <2>1 DEF Feed, TypeOK
<1>6. CASE Wrap(p)
  <2>1. thread' \in [Play -> Thread]
    BY <1>00, <1>6, PcChanged DEF Wrap, Go
  <2>2. CDDAFeed' \in 0..Slots
    BY <1>0, <1>6 DEF Wrap, TypeOK
  <2> QED BY <1>0, <1>6, <2>1, <2>2 DEF Wrap, TypeOK
<1>7. CASE Copy(p)
  BY <1>7, CopyType
<1>8. CASE Pace(p)
  <2>1. thread' \in [Play -> Thread]
    BY <1>00, <1>8, PcChanged DEF Pace, Go
  <2> QED BY <1>0, <1>8, <2>1 DEF Pace, TypeOK
<1> QED BY <1>1, <1>2, <1>3, <1>4, <1>5, <1>6, <1>7, <1>8 DEF playthread

LEMMA EmulatorType == ASSUME TypeOK, Counted, Emulator PROVE TypeOK'
<1> USE DEF Steps, control, sound, disc
<1>0. emu \in Emu /\ hunk \in Hunk /\ thread \in [Play -> Thread]
  BY DEF TypeOK
<1>1. ASSUME NEW s \in Starts, CdlPlay(s) PROVE TypeOK'
  <2>1. emu' \in Emu
    BY <1>1 DEF CdlPlay, Emu
  <2> QED BY <1>1, <2>1 DEF CdlPlay, TypeOK
<1>2. CASE ISOplay
  <2>1. emu' \in Emu
    BY <1>2, IdleType DEF ISOplay
  <2>2. emu.sector \in 0..Sectors
    BY <1>0 DEF Emu
  <2>3. CASE image = "none"
    BY <1>2, <2>1, <2>3 DEF ISOplay, TypeOK
  <2>4. CASE image # "none"
    <3>0. plays + 1 \in Play
      BY <1>2 DEF ISOplay, Counted
    <3>1. thread' \in [Play -> Thread]
      <4>1. thread' = [thread EXCEPT ![plays + 1].pc = "top"]
        BY <1>2, <2>4 DEF ISOplay
      <4>2. "top" \in Steps
        BY DEF Steps
      <4> QED BY <1>0, <3>0, <4>1, <4>2, PcChanged
    <3>2. start' \in [Play -> 0..Sectors]
      BY <1>2, <2>2, <2>4, <3>0 DEF ISOplay, TypeOK
    <3>3. plays' \in 0..Plays
      BY <1>2, <2>4, <3>0 DEF ISOplay, Play
    <3> QED BY <1>2, <2>1, <2>2, <2>4, <3>1, <3>2, <3>3 DEF ISOplay, TypeOK
  <2> QED BY <2>3, <2>4
<1>3. CASE ISOstop
  <2>1. emu' \in Emu
    BY <1>3, StopForType DEF ISOstop
  <2> QED BY <1>3, <2>1 DEF ISOstop, TypeOK
<1>4. ASSUME NEW want \in {"free", "exit"}, ISOclose(want) PROVE TypeOK'
  <2>1. emu' \in Emu
    BY <1>4, StopForType DEF ISOclose
  <2> QED BY <1>4, <2>1 DEF ISOclose, TypeOK
<1>5. CASE stopCDDA
  <2>1. emu' \in Emu
    BY <1>0, <1>5, Placed DEF stopCDDA
  <2> QED BY <1>5, <2>1 DEF stopCDDA, TypeOK
<1>6. CASE Join \/ Stopped
  <2>1. emu' \in Emu
    BY <1>0, <1>6, Placed, IdleType DEF Join, Stopped
  <2> QED BY <1>6, <2>1 DEF Join, Stopped, TypeOK
<1>7. CASE FreeImage
  <2>1. emu' \in Emu
    BY <1>7, Placed, IdleType DEF FreeImage
  <2>2. hunk' \in Hunk
    <3>1. HunkOf(Sectors) \in Nat
      BY Division
    <3> QED BY <1>7, <3>1 DEF FreeImage, Hunk
  <2> QED BY <1>7, <2>1, <2>2 DEF FreeImage, TypeOK
<1>8. CASE ISOopen
  BY <1>8 DEF ISOopen, TypeOK
<1>9. ASSUME NEW s \in Reads, ISOreadTrack(s) PROVE TypeOK'
  <2>1. s \in 0..Sectors
    OBVIOUS
  <2>2. hunk' \in Hunk
    BY <1>9, <2>1, FetchType DEF ISOreadTrack
  <2>3. emu' \in Emu
    BY <1>9, <2>1 DEF ISOreadTrack, Emu, Idle
  <2> QED BY <1>9, <2>2, <2>3 DEF ISOreadTrack, TypeOK
<1>10. CASE ReadFetched
  <2>1. emu' \in Emu
    BY <1>10, IdleType DEF ReadFetched
  <2>2. hunk' \in Hunk
    BY <1>0, <1>10 DEF ReadFetched, Release, Hunk
  <2> QED BY <1>10, <2>1, <2>2 DEF ReadFetched, TypeOK
<1>11. CASE MixXA
  <2>1. CDDAPlay \in 0..(Slots - 1) /\ ring[CDDAPlay] \in Sound \cup {Nothing}
    BY DEF TypeOK
  <2>2. (CDDAPlay + 1) % Slots \in 0..(Slots - 1)
    <3>1. CDDAPlay + 1 \in Int /\ Slots \in Nat \ {0}
      BY <2>1
    <3> QED BY <3>1, SMT
  <2>3. dry' \in BOOLEAN
    BY <1>11 DEF MixXA, TypeOK
  <2> QED BY <1>11, <2>1, <2>2, <2>3 DEF MixXA, TypeOK
<1>12. CASE Mute
  BY <1>12 DEF Mute, TypeOK
<1>13. CASE Menu
  BY <1>13 DEF Menu, TypeOK
<1> QED BY <1>1, <1>2, <1>3, <1>4, <1>5, <1>6, <1>7, <1>8, <1>9, <1>10, <1>11, <1>12, <1>13 DEF Emulator

-----------------------------------------------------------------------------
(* The invariant *)

LEMMA InitInv == Init => IInv
<1> SUFFICES ASSUME Init PROVE IInv
  OBVIOUS
<1>1. Idle \in Emu
  BY IdleType
<1>2. [held |-> -1, lock |-> "free"] \in Hunk
  <2>1. HunkOf(Sectors) \in Nat
    BY Division
  <2> QED BY <2>1 DEF Hunk
<1>3. thread \in [Play -> Thread]
  BY DEF Init, NotStarted, Thread, Steps
<1>4. ring \in [0..(Slots - 1) -> Sound \cup {Nothing}] /\ start \in [Play -> 0..Sectors]
  BY DEF Init
<1>5. sndbuffer \in Seq(Sound) /\ Len(sndbuffer) <= Chunk
  BY DEF Init
<1>6. TypeOK
  <2>1. /\ playing \in BOOLEAN /\ cdda_cur_sector \in 0..Sectors
        /\ image \in Images \cup {"none"} /\ hunk \in Hunk
        /\ muted \in BOOLEAN /\ stop \in BOOLEAN /\ emu \in Emu
    BY <1>1, <1>2 DEF Init
  <2>2. /\ CDDAFeed \in 0..Slots /\ CDDAPlay \in 0..(Slots - 1)
        /\ plays \in 0..Plays
        /\ dropped \subseteq Sound /\ last \in Sound \cup {Nothing} /\ dry \in BOOLEAN
    <3>1. 0 \in 0..Slots /\ 0 \in 0..(Slots - 1) /\ 0 \in 0..Plays
      OBVIOUS
    <3> QED BY <3>1 DEF Init
  <2> QED BY <1>3, <1>4, <1>5, <2>1, <2>2 DEF TypeOK
<1>7. \A p \in Play : thread[p].pc = "none"
  BY DEF Init, NotStarted
<1>8. emu.at = "run" /\ emu.want = "run"
  BY DEF Init, Idle
<1> QED
  BY <1>6, <1>7, <1>8
  DEF IInv, AloneWhenStopped, WaitedFor, LockHeld, Chunked, CacheKept, Counted, Live

(* A step of a thread: it was alive, so it is the last that was started and *)
(* no other is alive.                                                       *)
LEMMA OneThread ==
  ASSUME IInv, NEW p \in Play, playthread(p)
  PROVE  /\ Live(p) /\ p = plays
         /\ \A q \in Play : q # p => thread'[q] = thread[q] /\ ~Live(q)
         /\ thread'[p].pc \in Steps \ {"none"}
         /\ playing' = playing \/ thread'[p].pc = "end"
         /\ UNCHANGED <<image, emu, plays>>
<1>1. Live(p)
  BY DEF playthread, Top, Fill, FillFetched, Filled, Feed, Wrap, Copy, Pace, Live
<1>2. p = plays
  BY <1>1 DEF IInv, AloneWhenStopped
<1>3. \A q \in Play : q # p => ~Live(q)
  BY <1>2 DEF IInv, AloneWhenStopped
<1>4. thread \in [Play -> Thread] /\ thread[p] \in Thread
  BY DEF IInv, TypeOK
<1>5. UNCHANGED <<image, emu, plays>>
  BY DEF playthread, Top, Fill, FillFetched, Filled, Feed, Wrap, Copy, Pace, disc, control
<1>6. /\ \A q \in Play : q # p => thread'[q] = thread[q]
      /\ thread'[p].pc \in Steps \ {"none"}
      /\ playing' = playing \/ thread'[p].pc = "end"
  BY <1>4 DEF playthread, Top, Fill, FillFetched, Filled, Feed, Wrap, Copy, Pace, Go, Got,
              Thread, Steps
<1> QED BY <1>1, <1>2, <1>3, <1>5, <1>6

(* What the facts about reading and copying need to hold of the next state, *)
(* for the one thread that may be alive.                                    *)
LEMMA ThreadReads ==
  ASSUME IInv, NEW p \in Play, playthread(p),
         emu.at = "fetched" => hunk' = hunk,
         thread'[p].pc = "fetched" =>
           /\ image = "chd" /\ hunk'.lock = "thread" /\ hunk'.held = HunkOf(cdda_cur_sector')
           /\ cdda_cur_sector' < Sectors /\ Len(sndbuffer') < Chunk,
         thread'[p].pc = "feed" => thread'[p].n = 0,
         thread'[p].pc \in {"wrap", "copy"} => thread'[p].n <= Len(sndbuffer')
  PROVE  (LockHeld /\ Chunked /\ CacheKept)'
<1>1. \A q \in Play : q # p => thread'[q].pc \in {"none", "end"}
  BY OneThread DEF Live
<1> QED BY <1>1, OneThread DEF IInv, LockHeld, Chunked, CacheKept

LEMMA FillInv ==
  ASSUME ImagesLocked, IInv, NEW p \in Play, Fill(p) PROVE (LockHeld /\ Chunked /\ CacheKept)'
<1>1. playthread(p) /\ Live(p) /\ p = plays /\ thread \in [Play -> Thread]
  BY OneThread DEF playthread, IInv, TypeOK
<1>2. CASE Go(p, "filled") /\ UNCHANGED hunk
  <2>1. thread'[p].pc = "filled"
    BY <1>1, <1>2 DEF Go, Thread
  <2> QED BY <1>1, <1>2, <2>1, ThreadReads
<1>3. CASE Go(p, "fill") /\ UNCHANGED hunk
  <2>1. thread'[p].pc = "fill"
    BY <1>1, <1>3 DEF Go, Thread
  <2> QED BY <1>1, <1>3, <2>1, ThreadReads
<1>4. CASE /\ Len(sndbuffer) < Chunk /\ cdda_cur_sector < Sectors /\ image # "plain"
           /\ Fetch(cdda_cur_sector, "thread")
           /\ Go(p, "fetched") /\ UNCHANGED <<sndbuffer, cdda_cur_sector>>
  <2>1. image = "chd"
    BY <1>1, <1>4 DEF ImagesLocked, IInv, TypeOK, AloneWhenStopped
  <2>2. hunk.lock = "free" /\ hunk' = [held |-> HunkOf(cdda_cur_sector), lock |-> "thread"]
    BY <1>4, <2>1 DEF Fetch, CacheFree
  <2>3. emu.at # "fetched"
    BY <2>2 DEF IInv, LockHeld
  <2>4. thread'[p].pc = "fetched"
    BY <1>1, <1>4 DEF Go, Thread
  <2> QED BY <1>1, <1>4, <2>1, <2>2, <2>3, <2>4, ThreadReads
<1> QED BY <1>2, <1>3, <1>4 DEF Fill, Got

LEMMA ThreadInv == ASSUME ImagesLocked, IInv, NEW p \in Play, playthread(p) PROVE IInv'
<1>1. TypeOK'
  BY ThreadType
<1>2. AloneWhenStopped' /\ WaitedFor' /\ Counted'
  BY OneThread DEF IInv, AloneWhenStopped, WaitedFor, Counted, Live
<1>3. (LockHeld /\ Chunked /\ CacheKept)'
  <2>0. /\ thread \in [Play -> Thread] /\ thread[p] \in Thread
        /\ Len(sndbuffer) \in Nat
    BY DEF IInv, TypeOK
  <2>1. CASE Fill(p)
    BY <2>1, FillInv
  <2>2. CASE FillFetched(p)
    <3>1. hunk.lock = "thread" /\ emu.at # "fetched"
      BY <2>2 DEF IInv, LockHeld, FillFetched
    <3>2. thread'[p].pc = "fill"
      BY <2>0, <2>2 DEF FillFetched, Got, Go, Thread
    <3> QED BY <3>1, <3>2, ThreadReads
  <2>3. CASE Top(p) \/ Filled(p) \/ Pace(p)
    <3>1. thread'[p].pc \in {"fill", "end", "feed", "pace", "top"} /\ hunk' = hunk
      BY <2>0, <2>3 DEF Top, Filled, Pace, Go, Thread, disc
    <3>2. thread'[p].pc = "feed" => thread'[p].n = 0
      BY <2>0, <2>3 DEF Top, Filled, Pace, Go, Thread
    <3> QED BY <3>1, <3>2, ThreadReads
  <2>4. CASE Feed(p)
    <3>1. thread'[p].pc \in {"wrap", "pace"} /\ hunk' = hunk /\ sndbuffer' = sndbuffer
      BY <2>0, <2>4 DEF Feed, Go, Thread, disc
    <3>2. thread'[p].n = thread[p].n /\ thread[p].n = 0
      BY <2>0, <2>4 DEF Feed, Go, Thread, IInv, Chunked
    <3> QED BY <2>0, <3>1, <3>2, ThreadReads
  <2>5. CASE Wrap(p)
    <3>1. thread'[p].pc = "copy" /\ thread'[p].n = thread[p].n
      BY <2>0, <2>5 DEF Wrap, Go, Thread
    <3>2. hunk' = hunk /\ sndbuffer' = sndbuffer /\ thread[p].n <= Len(sndbuffer)
      BY <2>5 DEF Wrap, disc, IInv, Chunked
    <3> QED BY <3>1, <3>2, ThreadReads
  <2>6. CASE Copy(p)
    <3>1. thread[p].n <= Len(sndbuffer) /\ hunk' = hunk /\ sndbuffer' = sndbuffer
      BY <2>6 DEF Copy, disc, IInv, Chunked
    <3>2. thread[p].n + Piece(p) <= Len(sndbuffer)
      BY <3>1, PieceFits DEF IInv
    <3>3. thread'[p].pc = "wrap" => thread'[p].n = thread[p].n + Piece(p)
      BY <2>0, <2>6 DEF Copy, Thread
    <3>4. thread'[p].pc \in {"wrap", "pace"}
      BY <2>0, <2>6 DEF Copy, Thread
    <3> QED BY <3>1, <3>2, <3>3, <3>4, ThreadReads
  <2> QED BY <2>1, <2>2, <2>3, <2>4, <2>5, <2>6 DEF playthread
<1> QED BY <1>1, <1>2, <1>3 DEF IInv

LEMMA EmulatorInv == ASSUME ImagesLocked, IInv, Emulator PROVE IInv'
<1> USE DEF control, sound, disc, Live
<1>1. TypeOK'
  BY EmulatorType DEF IInv
<1>2. emu \in Emu /\ thread \in [Play -> Thread]
  BY DEF IInv, TypeOK
<1> SUFFICES (AloneWhenStopped /\ WaitedFor /\ LockHeld /\ Chunked /\ CacheKept /\ Counted)'
  BY <1>1 DEF IInv
<1> USE DEF IInv, AloneWhenStopped, WaitedFor, LockHeld, Chunked, CacheKept, Counted
<1>3. ASSUME NEW s \in Starts, CdlPlay(s) PROVE IInv'
  <2>1. plays + 1 \in Play
    BY <1>3 DEF CdlPlay, Play, TypeOK
  <2>2. emu.at = "run" /\ emu' = [at |-> "stop", want |-> "play", sector |-> s]
    BY <1>3 DEF CdlPlay, Running
  <2>3. UNCHANGED <<playing, image, hunk, thread, plays, cdda_cur_sector, sndbuffer>>
    BY <1>3 DEF CdlPlay
  <2> QED BY <1>1, <2>1, <2>2, <2>3
<1>4. CASE ISOplay
  <2>1. emu.at = "then" /\ emu'.at = "run" /\ emu'.want = "run"
    BY <1>4 DEF ISOplay, Idle
  <2>2. \A p \in Play : thread[p].pc \in {"none", "end"}
    BY <2>1
  <2>3. CASE image = "none"
    <3>1. UNCHANGED <<playing, image, hunk, thread, plays, cdda_cur_sector, sndbuffer>>
      BY <1>4, <2>3 DEF ISOplay
    <3> QED BY <1>1, <2>1, <2>2, <3>1
  <2>4. CASE image # "none"
    <3>1. /\ playing' = TRUE /\ plays' = plays + 1 /\ image' = image
          /\ thread' = [thread EXCEPT ![plays + 1].pc = "top"]
      BY <1>4, <2>4 DEF ISOplay
    <3>2. plays + 1 \in Play
      BY <1>4 DEF ISOplay
    <3>3. thread'[plays + 1].pc = "top"
      BY <1>2, <3>1, <3>2 DEF Thread
    <3>4. \A q \in Play : q # plays + 1 => thread'[q].pc \in {"none", "end"}
      BY <1>2, <2>2, <3>1
    <3> QED BY <1>1, <2>1, <2>4, <3>1, <3>3, <3>4
  <2> QED BY <2>3, <2>4
<1>5. CASE ISOstop
  BY <1>1, <1>5 DEF ISOstop, StopFor, Idle
<1>6. ASSUME NEW want \in {"free", "exit"}, ISOclose(want) PROVE IInv'
  BY <1>1, <1>6 DEF ISOclose, StopFor, Idle
<1>7. CASE stopCDDA
  BY <1>1, <1>2, <1>7 DEF stopCDDA, Emu
<1>8. CASE Join
  BY <1>1, <1>2, <1>8 DEF Join, Emu
<1>9. CASE Stopped
  BY <1>1, <1>9 DEF Stopped, Idle
<1>10. CASE FreeImage
  BY <1>1, <1>10 DEF FreeImage, Idle
<1>11. CASE ISOopen
  BY <1>1, <1>11 DEF ISOopen
<1>12. ASSUME NEW s \in Reads, ISOreadTrack(s) PROVE IInv'
  <2>1. image = "chd" /\ emu.at = "run"
    BY <1>12 DEF ISOreadTrack, Running, ImagesLocked, TypeOK
  <2>2. hunk.lock = "free" /\ hunk' = [held |-> HunkOf(s), lock |-> "emulator"]
    BY <1>12, <2>1 DEF ISOreadTrack, Fetch, CacheFree
  <2>3. emu' = [at |-> "fetched", want |-> "run", sector |-> s]
    BY <1>12 DEF ISOreadTrack, Idle
  <2>4. UNCHANGED <<playing, image, thread, plays, cdda_cur_sector, sndbuffer>>
    BY <1>12 DEF ISOreadTrack
  <2> QED BY <1>1, <2>1, <2>2, <2>3, <2>4
<1>13. CASE ReadFetched
  BY <1>1, <1>13 DEF ReadFetched, Release, Idle
<1>14. CASE MixXA \/ Mute
  BY <1>1, <1>14 DEF MixXA, Mute
<1>15. CASE Menu
  BY <1>1, <1>15 DEF Menu
<1> QED
  BY <1>3, <1>4, <1>5, <1>6, <1>7, <1>8, <1>9, <1>10, <1>11, <1>12, <1>13, <1>14, <1>15 DEF Emulator

LEMMA StutterInv == ASSUME IInv, UNCHANGED vars PROVE IInv'
<1>1. UNCHANGED <<playing, cdda_cur_sector, image, hunk, sndbuffer, thread, ring, CDDAFeed, CDDAPlay,
                  muted, stop, emu, plays, start, dropped, last, dry>>
  BY DEF vars, disc, sound, control
<1>2. TypeOK'
  BY <1>1 DEF IInv, TypeOK
<1> QED BY <1>1, <1>2 DEF IInv, AloneWhenStopped, WaitedFor, LockHeld, Chunked, CacheKept, Counted, Live

LEMMA Invariance == ASSUME ImagesLocked PROVE Spec => []IInv
<1>1. IInv /\ [Next]_vars => IInv'
  BY ThreadInv, EmulatorInv, StutterInv DEF Next
<1> QED BY <1>1, InitInv, PTL DEF Spec

(* The position, the chunk, the ring and all else keep within bounds: no    *)
(* copy leaves the ring, no sector is read past the end of the image.       *)
THEOREM TypeCorrect == ASSUME ImagesLocked PROVE Spec => []TypeOK
BY Invariance, PTL DEF IInv

(* Of all playbacks only the last has a thread that has not ended, and once *)
(* stopCDDA has returned none has.                                          *)
THEOREM AloneAlways == ASSUME ImagesLocked PROVE Spec => []AloneWhenStopped
BY Invariance, PTL DEF IInv

(* Between bringing a hunk into the cache and taking the sector out of it,  *)
(* the thread and the emulator keep out of each other's way.                *)
THEOREM CacheAlways == ASSUME ImagesLocked PROVE Spec => []CacheKept
BY Invariance, PTL DEF IInv

-----------------------------------------------------------------------------
(* What is heard: the ring and the chunk as one stream of sectors.          *)

(* Sectors a up to, but not with, b of playback p are all among d. *)
AllIn(d, p, a, b) == a <= b /\ \A s \in a..(b - 1) : [play |-> p, sector |-> s] \in d

(* Sound b may be heard after a, if the sectors d were dropped and the      *)
(* playbacks started at st.                                                *)
Follows(d, st, a, b) ==
  \/ b.play = a.play /\ AllIn(d, a.play, a.sector + 1, b.sector)
  \/ b.play > a.play /\ AllIn(d, b.play, st[b.play], b.sector)

(* The sector mixed last, then those in the ring. *)
Queued == IF CDDAFeed >= CDDAPlay THEN CDDAFeed - CDDAPlay ELSE CDDAFeed - CDDAPlay + Slots
Slot(from, k) == IF from + k < Slots THEN from + k ELSE from + k - Slots
Stream(r, l, from, k) == IF k = 0 THEN l ELSE r[Slot(from, k - 1)]
Heard(k) == Stream(ring, last, CDDAPlay, k)

(* The ring is never full to its last slot, and each sector in it follows   *)
(* the one before.                                                         *)
RingOrder ==
  /\ CDDAPlay = 0 => CDDAFeed # Slots
  /\ \A k \in 0..Queued : Heard(k).play <= plays
  /\ \A k \in 1..Queued : Follows(dropped, start, Heard(k - 1), Heard(k))

(* The sectors of the chunk that are still to be fed. *)
Pending(p) ==
  CASE thread[p].pc \in {"wrap", "copy"} -> Len(sndbuffer) - thread[p].n
    [] thread[p].pc \in {"top", "pace"} -> 0
    [] OTHER -> Len(sndbuffer)

(* The chunk ends where the thread will read on, and what is to be fed of  *)
(* it follows the ring.  A thread that is to stop may have given up a       *)
(* chunk, but then feeds nothing more.                                     *)
ChunkOf(p) ==
  /\ thread[p].pc = "copy" => CDDAFeed # Slots
  /\ thread[p].pc # "top" => \A j \in 1..Len(sndbuffer) :
       sndbuffer[j] = [play |-> p, sector |-> cdda_cur_sector - Len(sndbuffer) + j - 1]
  /\ playing \/ thread[p].pc \notin {"top", "pace"} =>
       Follows(dropped, start, Heard(Queued), [play |-> p, sector |-> cdda_cur_sector - Pending(p)])

ChunkOrder == \A p \in Play : Live(p) => ChunkOf(p)

InOrder == ~dry => RingOrder /\ ChunkOrder

LEMMA FollowsKept ==
  ASSUME NEW d, NEW e, d \subseteq e, NEW st, NEW tt, NEW a, NEW b,
         Follows(d, st, a, b), b.play > a.play => tt[b.play] = st[b.play]
  PROVE  Follows(e, tt, a, b)
BY DEF Follows, AllIn

(* The sectors of a chunk that was dropped need not be heard. *)
LEMMA FollowsDropped ==
  ASSUME NEW d, NEW e, d \subseteq e, NEW st, NEW a, NEW p \in Play, NEW s \in Int, NEW t \in Int,
         s <= t, a.sector \in Int, st[p] \in Int,
         Follows(d, st, a, [play |-> p, sector |-> s]),
         \A i \in s..(t - 1) : [play |-> p, sector |-> i] \in e
  PROVE  Follows(e, st, a, [play |-> p, sector |-> t])
<1>1. ASSUME NEW q, NEW f \in Int, AllIn(d, q, f, s), q = p PROVE AllIn(e, q, f, t)
  BY <1>1 DEF AllIn
<1>2. CASE p = a.play /\ AllIn(d, a.play, a.sector + 1, s)
  BY <1>1, <1>2 DEF Follows
<1>3. CASE p > a.play /\ AllIn(d, p, st[p], s)
  BY <1>1, <1>3 DEF Follows
<1> QED BY <1>2, <1>3 DEF Follows

LEMMA FollowsOn ==
  ASSUME NEW d, NEW st, NEW p, NEW s \in Int
  PROVE  Follows(d, st, [play |-> p, sector |-> s], [play |-> p, sector |-> s + 1])
BY DEF Follows, AllIn

LEMMA Remainder ==
  ASSUME NEW n \in Nat \ {0}, NEW x \in Int
  PROVE  /\ x \in 0..(n - 1) => x % n = x
         /\ x \in -n..-1 => x % n = x + n
         /\ x = n => x % n = 0
<1> DEFINE q == x \div n
           r == x % n
<1>1. q \in Int /\ r \in 0..(n - 1) /\ x = n * q + r
  OBVIOUS
<1> HIDE DEF q, r
<1>2. \A k \in Int : k # 0 => n * k >= n \/ n * k <= -n
  OBVIOUS
<1>3. n * (q + 1) = n * q + n /\ n * (q - 1) = n * q - n /\ q + 1 \in Int /\ q - 1 \in Int
  BY <1>1
<1>4. x \in 0..(n - 1) => r = x
  <2>1. q = 0 \/ n * q >= n \/ n * q <= -n
    BY <1>1, <1>2
  <2>2. q = 0 => n * q = 0
    OBVIOUS
  <2> QED BY <1>1, <2>1, <2>2
<1>5. x \in -n..-1 => r = x + n
  <2>1. q + 1 = 0 \/ n * (q + 1) >= n \/ n * (q + 1) <= -n
    BY <1>2, <1>3
  <2>2. q + 1 = 0 => n * (q + 1) = 0
    OBVIOUS
  <2> QED BY <1>1, <1>3, <2>1, <2>2
<1>6. x = n => r = 0
  <2>1. q - 1 = 0 \/ n * (q - 1) >= n \/ n * (q - 1) <= -n
    BY <1>2, <1>3
  <2>2. q - 1 = 0 => n * (q - 1) = 0
    OBVIOUS
  <2> QED BY <1>1, <1>3, <2>1, <2>2
<1> QED BY <1>4, <1>5, <1>6 DEF r

LEMMA Numbers ==
  ASSUME TypeOK
  PROVE  /\ Slots \in Nat /\ Slots > 1 /\ CDDAFeed \in 0..Slots /\ CDDAPlay \in 0..(Slots - 1)
         /\ Queued \in 0..Slots /\ plays \in 0..Plays /\ cdda_cur_sector \in Nat
         /\ sndbuffer \in Seq(Sound) /\ Len(sndbuffer) \in Nat
         /\ last \in Sound \cup {Nothing} /\ ring \in [0..(Slots - 1) -> Sound \cup {Nothing}]
         /\ start \in [Play -> 0..Sectors] /\ thread \in [Play -> Thread]
BY DEF TypeOK, Queued

LEMMA SpaceIs == ASSUME TypeOK, CDDAFeed # Slots PROVE Space = Slots - 1 - Queued
<1> DEFINE x == CDDAPlay - CDDAFeed - 1
<1>1. x \in Int /\ Slots \in Nat \ {0} /\ x % Slots = Space
  BY Numbers DEF Space
<1>2. CASE CDDAFeed >= CDDAPlay
  <2>1. x \in -Slots..-1
    BY <1>2, Numbers
  <2>2. Space = x + Slots
    <3> HIDE DEF x
    <3> QED BY <1>1, <2>1, Remainder
  <2> QED BY <1>2, <2>2, Numbers DEF Queued
<1>3. CASE ~(CDDAFeed >= CDDAPlay)
  <2>1. x \in 0..(Slots - 1)
    BY <1>3, Numbers
  <2>2. Space = x
    <3> HIDE DEF x
    <3> QED BY <1>1, <2>1, Remainder
  <2> QED BY <1>3, <2>2, Numbers DEF Queued
<1> QED BY <1>2, <1>3

LEMMA HeardTypes ==
  ASSUME TypeOK
  PROVE  \A k \in 0..Queued : /\ Heard(k) \in Sound \cup {Nothing}
                              /\ Heard(k).play \in Nat /\ Heard(k).sector \in Int
<1>1. ASSUME NEW k \in 0..Queued PROVE Heard(k) \in Sound \cup {Nothing}
  <2>1. CASE k = 0
    BY <2>1, Numbers DEF Heard, Stream
  <2>2. CASE k # 0
    <3>1. Slot(CDDAPlay, k - 1) \in 0..(Slots - 1)
      BY <2>2, Numbers DEF Slot
    <3> QED BY <2>2, <3>1, Numbers DEF Heard, Stream
  <2> QED BY <2>1, <2>2
<1>2. ASSUME NEW x \in Sound \cup {Nothing} PROVE x.play \in Nat /\ x.sector \in Int
  BY DEF Sound, Nothing, Play
<1> QED BY <1>1, <1>2

(* A step that leaves the ring alone. *)
LEMMA RingKept ==
  ASSUME TypeOK, TypeOK', RingOrder, UNCHANGED <<ring, CDDAFeed, CDDAPlay, last>>,
         dropped \subseteq dropped', plays <= plays',
         \A q \in Play : q <= plays => start'[q] = start[q]
  PROVE  RingOrder' /\ Queued' = Queued /\ Heard(Queued)' = Heard(Queued)
<1>1. Queued' = Queued
  BY DEF Queued
<1>2. ASSUME NEW k PROVE Heard(k)' = Heard(k)
  BY DEF Heard
<1>3. Heard(Queued)' = Heard(Queued)
  BY <1>1 DEF Heard
<1>4. plays \in Nat /\ plays' \in Nat /\ plays <= Plays /\ Queued \in Nat
  BY Numbers DEF TypeOK
<1>5. ASSUME NEW k \in 0..Queued PROVE Heard(k)'.play <= plays'
  <2>1. Heard(k).play <= plays /\ Heard(k).play \in Nat
    BY HeardTypes DEF RingOrder
  <2> QED BY <1>2, <1>4, <2>1
<1>6. ASSUME NEW k \in 1..Queued
      PROVE  Follows(dropped', start', Heard(k - 1)', Heard(k)')
  <2>1. k - 1 \in 0..Queued /\ k \in 0..Queued
    BY <1>4
  <2>2. /\ Heard(k - 1).play \in Nat /\ Heard(k).play \in Nat /\ Heard(k).play <= plays
        /\ Follows(dropped, start, Heard(k - 1), Heard(k))
    BY <2>1, HeardTypes DEF RingOrder
  <2>3. Heard(k).play > Heard(k - 1).play => start'[Heard(k).play] = start[Heard(k).play]
    BY <1>4, <2>2 DEF Play
  <2>4. Follows(dropped', start', Heard(k - 1), Heard(k))
    BY <2>2, <2>3, FollowsKept
  <2>5. Heard(k - 1)' = Heard(k - 1) /\ Heard(k)' = Heard(k)
    BY DEF Heard
  <2> QED BY <2>4, <2>5
<1> QED BY <1>1, <1>3, <1>5, <1>6 DEF RingOrder

(* What a step of the thread has to leave behind, where the ring stays. *)
LEMMA ThreadOrder ==
  ASSUME IInv, TypeOK', InOrder, NEW p \in Play, playthread(p),
         UNCHANGED <<ring, CDDAFeed, CDDAPlay, last, dry, start>>, dropped \subseteq dropped',
         ~dry /\ RingOrder /\ ChunkOf(p) /\ RingOrder' /\ thread'[p].pc # "end" => ChunkOf(p)'
  PROVE  InOrder'
<1>1. /\ Live(p) /\ plays' = plays
      /\ \A q \in Play : q # p => ~Live(q) /\ thread'[q] = thread[q]
  BY OneThread
<1>2. TypeOK /\ plays <= plays'
  BY <1>1, Numbers DEF IInv
<1>3. ASSUME ~dry PROVE RingOrder' /\ ChunkOrder'
  <2>1. RingOrder /\ ChunkOf(p)
    BY <1>1, <1>3 DEF InOrder, ChunkOrder
  <2>2. RingOrder'
    BY <1>2, <2>1, RingKept
  <2>3. thread'[p].pc # "end" => ChunkOf(p)'
    BY <1>3, <2>1, <2>2
  <2>4. ASSUME NEW q \in Play, q # p PROVE ~Live(q)'
    BY <1>1, <2>4 DEF Live
  <2>5. Live(p)' => thread'[p].pc # "end"
    BY DEF Live
  <2> QED BY <2>2, <2>3, <2>4, <2>5 DEF ChunkOrder
<1> QED BY <1>3 DEF InOrder

(* The stream's end, where the ring stays. *)
LEMMA EndKept ==
  ASSUME UNCHANGED <<ring, CDDAFeed, CDDAPlay, last>>
  PROVE  Heard(Queued)' = Heard(Queued)
BY DEF Heard, Queued

LEMMA TopOrder ==
  ASSUME IInv, TypeOK', InOrder, NEW p \in Play, Top(p) PROVE InOrder'
<1>1. /\ playthread(p) /\ UNCHANGED <<ring, CDDAFeed, CDDAPlay, last, dry, start, dropped>>
      /\ cdda_cur_sector' = cdda_cur_sector /\ playing' = playing
      /\ thread[p].pc = "top" /\ sndbuffer' = <<>>
  BY DEF Top, playthread, sound, control
<1>2. /\ thread'[p].pc = IF playing THEN "fill" ELSE "end"
      /\ thread'[p].n = thread[p].n
  BY Numbers DEF Top, Go, Thread, IInv
<1>3. ASSUME ChunkOf(p), thread'[p].pc # "end" PROVE ChunkOf(p)'
  <2>1. playing /\ thread'[p].pc = "fill"
    BY <1>2, <1>3
  <2>2. Follows(dropped, start, Heard(Queued), [play |-> p, sector |-> cdda_cur_sector - 0])
    BY <1>1, <1>3, <2>1 DEF ChunkOf, Pending
  <2>3. Len(sndbuffer') = 0 /\ Pending(p)' = 0
    BY <1>1, <2>1 DEF Pending
  <2>4. Heard(Queued)' = Heard(Queued)
    BY <1>1, EndKept
  <2> QED BY <1>1, <2>1, <2>2, <2>3, <2>4 DEF ChunkOf
<1> QED BY <1>1, <1>3, ThreadOrder

(* A sector is added to the chunk. *)
LEMMA GotOrder ==
  ASSUME IInv, NEW p \in Play, thread[p].pc \in {"fill", "fetched"},
         Got(p, cdda_cur_sector), ChunkOf(p),
         UNCHANGED <<ring, CDDAFeed, CDDAPlay, last, start, dropped>>
  PROVE  ChunkOf(p)'
<1>1. TypeOK
  BY DEF IInv
<1>2. thread'[p].pc = "fill"
  BY <1>1, Numbers DEF Got, Go, Thread
<1> DEFINE new == [play |-> p, sector |-> cdda_cur_sector]
           n == Len(sndbuffer)
<1>3. sndbuffer' = Append(sndbuffer, new) /\ cdda_cur_sector' = cdda_cur_sector + 1
  BY DEF Got
<1>4. /\ n \in Nat /\ cdda_cur_sector \in Nat /\ Len(sndbuffer') = n + 1
      /\ sndbuffer'[n + 1] = new /\ \A j \in 1..n : sndbuffer'[j] = sndbuffer[j]
  <2> HIDE DEF new
  <2> QED BY <1>1, <1>3, Numbers
<1>5. ASSUME NEW j \in 1..Len(sndbuffer')
      PROVE  sndbuffer'[j] = [play |-> p, sector |-> cdda_cur_sector' - Len(sndbuffer') + j - 1]
  <2>1. CASE j \in 1..n
    <3>1. sndbuffer[j] = [play |-> p, sector |-> cdda_cur_sector - n + j - 1]
      BY <2>1 DEF ChunkOf
    <3>2. cdda_cur_sector' - Len(sndbuffer') + j - 1 = cdda_cur_sector - n + j - 1
      BY <1>3, <1>4
    <3> QED BY <1>4, <2>1, <3>1, <3>2
  <2>2. CASE j = n + 1
    <3>1. cdda_cur_sector' - Len(sndbuffer') + j - 1 = cdda_cur_sector
      BY <1>3, <1>4, <2>2
    <3> QED BY <1>4, <2>2, <3>1
  <2> QED BY <1>4, <2>1, <2>2
<1>6. Follows(dropped, start, Heard(Queued), [play |-> p, sector |-> cdda_cur_sector - n])
  BY DEF ChunkOf, Pending
<1>7. cdda_cur_sector' - Pending(p)' = cdda_cur_sector - n
  BY <1>2, <1>3, <1>4 DEF Pending
<1>8. Heard(Queued)' = Heard(Queued)
  BY EndKept
<1> HIDE DEF n
<1> QED BY <1>2, <1>5, <1>6, <1>7, <1>8 DEF ChunkOf

LEMMA FillOrder ==
  ASSUME IInv, TypeOK', InOrder, NEW p \in Play, Fill(p) PROVE InOrder'
<1>1. /\ playthread(p) /\ UNCHANGED <<ring, CDDAFeed, CDDAPlay, last, dry, start, dropped>>
      /\ playing' = playing /\ thread[p].pc = "fill"
  BY DEF Fill, playthread, sound, control
<1>2. TypeOK
  BY DEF IInv
<1>3. ASSUME ChunkOf(p) PROVE ChunkOf(p)'
  <2>1. CASE Got(p, cdda_cur_sector)
    BY <1>1, <1>3, <2>1, GotOrder
  <2>2. CASE /\ Go(p, "filled") \/ Go(p, "fetched")
             /\ UNCHANGED <<sndbuffer, cdda_cur_sector>>
    <3>1. thread'[p].pc \in {"filled", "fetched"}
      BY <1>2, <2>2, Numbers DEF Go, Thread
    <3>2. Pending(p)' = Pending(p)
      BY <1>1, <2>2, <3>1 DEF Pending
    <3>3. Heard(Queued)' = Heard(Queued)
      BY <1>1, EndKept
    <3> QED BY <1>1, <1>3, <2>2, <3>1, <3>2, <3>3 DEF ChunkOf
  <2> QED BY <2>1, <2>2 DEF Fill
<1> QED BY <1>1, <1>3, ThreadOrder

LEMMA FillFetchedOrder ==
  ASSUME IInv, TypeOK', InOrder, NEW p \in Play, FillFetched(p) PROVE InOrder'
<1>1. /\ playthread(p) /\ UNCHANGED <<ring, CDDAFeed, CDDAPlay, last, dry, start, dropped>>
      /\ playing' = playing /\ thread[p].pc = "fetched"
  BY DEF FillFetched, playthread, sound, control
<1>2. Fetched(cdda_cur_sector) = cdda_cur_sector
  <2>1. hunk.held = HunkOf(cdda_cur_sector) /\ cdda_cur_sector \in Nat
    BY <1>1, Numbers DEF IInv, CacheKept
  <2> QED BY <2>1, Division DEF Fetched
<1>3. Got(p, cdda_cur_sector)
  BY <1>2 DEF FillFetched
<1> QED BY <1>1, <1>3, GotOrder, ThreadOrder

LEMMA FilledOrder ==
  ASSUME IInv, TypeOK', InOrder, NEW p \in Play, Filled(p) PROVE InOrder'
<1>1. /\ playthread(p) /\ UNCHANGED <<ring, CDDAFeed, CDDAPlay, last, dry, start>>
      /\ UNCHANGED <<cdda_cur_sector, sndbuffer>> /\ thread[p].pc = "filled"
      /\ dropped \subseteq dropped'
  BY DEF Filled, playthread, sound, control
<1>2. TypeOK
  BY DEF IInv
<1>3. ASSUME ChunkOf(p), RingOrder, thread'[p].pc # "end" PROVE ChunkOf(p)'
  <2> DEFINE n == Len(sndbuffer)
  <2>1. /\ Follows(dropped, start, Heard(Queued), [play |-> p, sector |-> cdda_cur_sector - n])
        /\ n \in Nat /\ cdda_cur_sector \in Nat
    BY <1>1, <1>2, <1>3, Numbers DEF ChunkOf, Pending
  <2>2. Heard(Queued)' = Heard(Queued)
    BY <1>1, EndKept
  <2>3. CASE thread' = [thread EXCEPT ![p].pc = "feed", ![p].n = 0] /\ dropped' = dropped
    <3>1. thread'[p].pc = "feed"
      BY <1>2, <2>3, Numbers DEF Thread
    <3>2. Pending(p)' = n
      BY <1>1, <3>1 DEF Pending
    <3> QED BY <1>1, <1>3, <2>1, <2>2, <2>3, <3>1, <3>2 DEF ChunkOf
  <2>4. CASE Go(p, "pace") /\ dropped' = dropped \cup {sndbuffer[i] : i \in DOMAIN sndbuffer}
    <3>1. thread'[p].pc = "pace"
      BY <1>2, <2>4, Numbers DEF Go, Thread
    <3>2. Pending(p)' = 0
      BY <3>1 DEF Pending
    <3>3. ASSUME NEW i \in (cdda_cur_sector - n)..(cdda_cur_sector - 1)
          PROVE  [play |-> p, sector |-> i] \in dropped'
      <4> DEFINE j == i - cdda_cur_sector + n + 1
      <4>1. j \in 1..n /\ cdda_cur_sector - n + j - 1 = i
        BY <2>1
      <4>2. sndbuffer[j] = [play |-> p, sector |-> cdda_cur_sector - n + j - 1]
        <5>1. \A m \in 1..n : sndbuffer[m] = [play |-> p, sector |-> cdda_cur_sector - n + m - 1]
          BY <1>1, <1>3 DEF ChunkOf
        <5> HIDE DEF n, j
        <5> QED BY <4>1, <5>1
      <4>3. j \in DOMAIN sndbuffer
        <5>1. DOMAIN sndbuffer = 1..n
          BY <1>2, Numbers
        <5> QED BY <4>1, <5>1
      <4> QED BY <2>4, <4>1, <4>2, <4>3
    <3>4. Heard(Queued).sector \in Int /\ start[p] \in Int
      <4>1. Queued \in 0..Queued
        BY <1>2, Numbers
      <4> QED BY <1>2, <4>1, HeardTypes, Numbers
    <3>5. Follows(dropped', start, Heard(Queued), [play |-> p, sector |-> cdda_cur_sector])
      <4>1. cdda_cur_sector - n \in Int /\ cdda_cur_sector \in Int /\ cdda_cur_sector - n <= cdda_cur_sector
        BY <2>1
      <4> HIDE DEF n
      <4> QED BY <1>1, <2>1, <3>3, <3>4, <4>1, FollowsDropped
    <3>6. cdda_cur_sector' - 0 = cdda_cur_sector
      BY <1>1, <2>1
    <3> QED BY <1>1, <1>3, <2>2, <3>1, <3>2, <3>5, <3>6 DEF ChunkOf
  <2>5. Go(p, "end") => thread'[p].pc = "end"
    BY <1>2, Numbers DEF Go, Thread
  <2> QED BY <1>3, <2>3, <2>4, <2>5 DEF Filled
<1> QED BY <1>1, <1>3, ThreadOrder

(* There is room for the whole chunk; or the thread is to stop, and gives   *)
(* the chunk up.                                                           *)
LEMMA FeedOrder ==
  ASSUME IInv, TypeOK', InOrder, NEW p \in Play, Feed(p) PROVE InOrder'
<1>1. /\ playthread(p) /\ UNCHANGED <<ring, CDDAFeed, CDDAPlay, last, dry, start, dropped>>
      /\ UNCHANGED <<cdda_cur_sector, sndbuffer, playing>> /\ thread[p].pc = "feed"
  BY DEF Feed, playthread, sound, control
<1>2. TypeOK /\ thread[p].n = 0
  BY <1>1 DEF IInv, Chunked
<1>3. ASSUME ChunkOf(p) PROVE ChunkOf(p)'
  <2>1. Heard(Queued)' = Heard(Queued)
    BY <1>1, EndKept
  <2>2. CASE Go(p, "wrap")
    <3>1. thread'[p].pc = "wrap" /\ thread'[p].n = 0
      BY <1>2, <2>2, Numbers DEF Go, Thread
    <3>2. Pending(p)' = Pending(p)
      BY <1>1, <1>2, <3>1, Numbers DEF Pending
    <3> QED BY <1>1, <1>3, <2>1, <3>1, <3>2 DEF ChunkOf
  <2>3. CASE ~playing /\ thread' = [thread EXCEPT ![p].pc = "pace", ![p].ret = "wait"]
    <3>1. thread'[p].pc = "pace"
      BY <1>2, <2>3, Numbers DEF Thread
    <3> QED BY <1>1, <1>3, <2>3, <3>1 DEF ChunkOf
  <2> QED BY <2>2, <2>3 DEF Feed
<1> QED BY <1>1, <1>3, ThreadOrder

LEMMA PaceOrder ==
  ASSUME IInv, TypeOK', InOrder, NEW p \in Play, Pace(p) PROVE InOrder'
<1>1. /\ playthread(p) /\ UNCHANGED <<ring, CDDAFeed, CDDAPlay, last, dry, start, dropped>>
      /\ UNCHANGED <<cdda_cur_sector, sndbuffer, playing>> /\ thread[p].pc = "pace"
  BY DEF Pace, playthread, sound, control
<1>2. thread'[p].pc = "top"
  BY Numbers DEF IInv, Pace, Go, Thread
<1>3. Pending(p)' = Pending(p)
  BY <1>1, <1>2 DEF Pending
<1>4. Heard(Queued)' = Heard(Queued)
  BY <1>1, EndKept
<1>5. ASSUME ChunkOf(p) PROVE ChunkOf(p)'
  BY <1>1, <1>2, <1>3, <1>4, <1>5 DEF ChunkOf
<1> QED BY <1>1, <1>5, ThreadOrder

(* CDDAFeed returns from the end of the ring to its start: the stream is    *)
(* the same.                                                               *)
LEMMA WrapOrder ==
  ASSUME IInv, TypeOK', InOrder, NEW p \in Play, Wrap(p) PROVE InOrder'
<1>1. /\ playthread(p) /\ UNCHANGED <<ring, CDDAPlay, last, dry, start, dropped, plays>>
      /\ UNCHANGED <<cdda_cur_sector, sndbuffer, playing>> /\ thread[p].pc = "wrap"
      /\ CDDAFeed' = IF CDDAFeed = Slots THEN 0 ELSE CDDAFeed
  BY DEF Wrap, playthread, control
<1>2. TypeOK
  BY DEF IInv
<1>3. thread'[p].pc = "copy" /\ thread'[p].n = thread[p].n
  BY <1>2, Numbers DEF Wrap, Go, Thread
<1>4. /\ Live(p) /\ \A q \in Play : q # p => ~Live(q) /\ thread'[q] = thread[q]
  BY <1>1, OneThread
<1>5. ASSUME ~dry PROVE RingOrder' /\ ChunkOrder'
  <2>1. RingOrder /\ ChunkOf(p)
    BY <1>4, <1>5 DEF InOrder, ChunkOrder
  <2>2. CDDAFeed' # Slots /\ (CDDAPlay' = 0 => CDDAFeed' # Slots)
    BY <1>1, <1>2, Numbers
  <2>3. Queued' = Queued
    BY <1>1, <1>2, <2>1, Numbers DEF Queued, RingOrder
  <2>4. ASSUME NEW k PROVE Heard(k)' = Heard(k)
    BY <1>1 DEF Heard
  <2>5. Heard(Queued)' = Heard(Queued)
    BY <1>1, <2>3 DEF Heard
  <2>6. RingOrder'
    <3>1. \A k \in 0..Queued' : Heard(k)'.play <= plays'
      BY <1>1, <2>1, <2>3, <2>4 DEF RingOrder
    <3>2. \A k \in 1..Queued' : Follows(dropped', start', Heard(k - 1)', Heard(k)')
      <4>1. ASSUME NEW k PROVE Heard(k - 1)' = Heard(k - 1)
        BY <1>1 DEF Heard
      <4> QED BY <1>1, <2>1, <2>3, <2>4, <4>1 DEF RingOrder
    <3> QED BY <2>2, <3>1, <3>2 DEF RingOrder
  <2>7. Pending(p)' = Pending(p)
    BY <1>1, <1>3 DEF Pending
  <2>8. ChunkOf(p)'
    BY <1>1, <1>3, <2>1, <2>2, <2>5, <2>7 DEF ChunkOf
  <2>9. ASSUME NEW q \in Play, q # p PROVE ~Live(q)'
    BY <1>4, <2>9 DEF Live
  <2> QED BY <2>6, <2>8, <2>9 DEF ChunkOrder
<1> QED BY <1>1, <1>5 DEF InOrder

(* A piece of the chunk goes into free slots, after what is in the ring. *)
LEMMA CopyOrder ==
  ASSUME IInv, TypeOK', InOrder, NEW p \in Play, Copy(p) PROVE InOrder'
<1> DEFINE k == Piece(p)
           n == thread[p].n
           size == Len(sndbuffer)
           q0 == Queued
<1>1. /\ playthread(p) /\ UNCHANGED <<CDDAPlay, last, dry, start, dropped, plays>>
      /\ UNCHANGED <<cdda_cur_sector, sndbuffer, playing>> /\ thread[p].pc = "copy"
      /\ CDDAFeed' = CDDAFeed + k
  BY DEF Copy, playthread, control
<1>2. TypeOK /\ n \in Nat /\ n <= size /\ size \in Nat /\ cdda_cur_sector \in Nat
  BY <1>1, Numbers DEF IInv, Chunked, Thread
<1>3. k \in Nat /\ CDDAFeed + k <= Slots /\ n + k <= size /\ k <= Space
  <2>1. k \in Nat /\ CDDAFeed + k <= Slots /\ n + k <= size
    BY <1>2, PieceFits
  <2>2. size - n \in Int /\ Space \in Int /\ Slots - CDDAFeed \in Int
    BY <1>2, Room, Numbers
  <2>3. k <= Space
    BY <2>2 DEF Piece, Least
  <2> QED BY <2>1, <2>3
<1>4. /\ Live(p) /\ \A q \in Play : q # p => ~Live(q) /\ thread'[q] = thread[q]
  BY <1>1, OneThread
<1>5. /\ thread'[p].pc \in {"pace", "wrap"} /\ (thread'[p].pc = "pace" => n + k = size)
      /\ thread'[p].pc = "wrap" => thread'[p].n = n + k
  <2>1. \/ thread' = [thread EXCEPT ![p].pc = "wrap", ![p].n = n + k]
        \/ n + k = size /\ thread' = [thread EXCEPT ![p].pc = "pace", ![p].n = 0, ![p].ret = "go"]
    BY Zenon DEF Copy
  <2>2. thread \in [Play -> Thread]
    BY <1>2, Numbers
  <2> HIDE DEF k, n, size
  <2>3. ASSUME thread' = [thread EXCEPT ![p].pc = "wrap", ![p].n = n + k]
        PROVE  thread'[p].pc = "wrap" /\ thread'[p].n = n + k
    BY <2>2, <2>3 DEF Thread
  <2>4. ASSUME thread' = [thread EXCEPT ![p].pc = "pace", ![p].n = 0, ![p].ret = "go"]
        PROVE  thread'[p].pc = "pace"
    BY <2>2, <2>4 DEF Thread
  <2> QED BY <2>1, <2>3, <2>4
<1>6. Pending(p) = size - n /\ Pending(p)' = size - n - k
  <2>1. Pending(p) = size - n
    BY <1>1 DEF Pending
  <2>2. CASE thread'[p].pc = "wrap"
    <3>1. Pending(p)' = size - (n + k)
      BY <1>1, <1>5, <2>2 DEF Pending
    <3> QED BY <1>2, <1>3, <2>1, <3>1
  <2>3. CASE thread'[p].pc = "pace"
    <3>1. Pending(p)' = 0
      BY <2>3 DEF Pending
    <3>2. n + k = size
      BY <1>5, <2>3
    <3> HIDE DEF k, n, size
    <3> QED BY <1>2, <1>3, <2>1, <3>1, <3>2
  <2> QED BY <1>5, <2>2, <2>3
<1> HIDE DEF n
<1>7. ASSUME ~dry PROVE RingOrder' /\ ChunkOrder'
  <2>1. RingOrder /\ ChunkOf(p) /\ CDDAFeed # Slots
    BY <1>1, <1>4, <1>7 DEF InOrder, ChunkOrder, ChunkOf
  <2>2. /\ q0 \in 0..Slots /\ Slots \in Nat /\ CDDAFeed \in 0..Slots /\ CDDAPlay \in 0..(Slots - 1)
        /\ plays \in Nat
    BY <1>2, Numbers
  <2>3. q0 + k <= Slots - 1
    BY <1>2, <1>3, <2>1, <2>2, SpaceIs
  <2> HIDE DEF k, size
  <2>4. Queued' = q0 + k
    BY <1>1, <1>3, <2>1, <2>2, <2>3 DEF Queued
  <2>5. CDDAPlay' = 0 => CDDAFeed' # Slots
    BY <1>1, <1>3, <2>1, <2>2, <2>3 DEF Queued
  <2>6. ASSUME NEW i \in 0..(q0 + k - 1)
        PROVE  Slot(CDDAPlay, i) \in 0..(Slots - 1) /\
               IF i < q0 THEN ~(CDDAFeed <= Slot(CDDAPlay, i) /\ Slot(CDDAPlay, i) < CDDAFeed + k)
               ELSE Slot(CDDAPlay, i) = CDDAFeed + (i - q0)
    BY <1>3, <2>1, <2>2, <2>3 DEF Queued, Slot
  <2>7. ASSUME NEW i \in 0..(Slots - 1)
        PROVE  ring'[i] = IF CDDAFeed <= i /\ i < CDDAFeed + k
                          THEN sndbuffer[n + 1 + i - CDDAFeed] ELSE ring[i]
    BY DEF Copy, From, k, n
  <2> HIDE DEF q0
  <2>8. ASSUME NEW i \in 0..q0 PROVE Heard(i)' = Heard(i)
    <3>1. CASE i = 0
      BY <1>1, <3>1 DEF Heard, Stream
    <3>2. CASE i # 0
      <4>1. i - 1 \in 0..(q0 + k - 1) /\ i - 1 < q0
        BY <1>3, <2>2, <3>2
      <4>2. ring'[Slot(CDDAPlay, i - 1)] = ring[Slot(CDDAPlay, i - 1)]
        BY <2>6, <2>7, <4>1
      <4> QED BY <1>1, <3>2, <4>2 DEF Heard, Stream
    <3> QED BY <3>1, <3>2
  <2> DEFINE first == cdda_cur_sector - size + n
  <2>9. ASSUME NEW i \in (q0 + 1)..(q0 + k)
        PROVE  Heard(i)' = [play |-> p, sector |-> first + (i - q0 - 1)]
    <3>1. i - 1 \in 0..(q0 + k - 1) /\ ~(i - 1 < q0) /\ i # 0 /\ i - 1 - q0 < k
      BY <1>3, <2>2
    <3>2. /\ Slot(CDDAPlay, i - 1) \in 0..(Slots - 1)
          /\ Slot(CDDAPlay, i - 1) = CDDAFeed + (i - 1 - q0)
      BY <2>6, <3>1
    <3>3. /\ CDDAFeed <= Slot(CDDAPlay, i - 1) /\ Slot(CDDAPlay, i - 1) < CDDAFeed + k
          /\ n + 1 + Slot(CDDAPlay, i - 1) - CDDAFeed = n + i - q0
      BY <1>2, <1>3, <2>2, <3>1, <3>2
    <3>4. ring'[Slot(CDDAPlay, i - 1)] = sndbuffer[n + i - q0]
      BY <2>7, <3>2, <3>3
    <3>5. n + i - q0 \in 1..size
      BY <1>2, <1>3, <2>2
    <3>6. sndbuffer[n + i - q0] = [play |-> p, sector |-> cdda_cur_sector - size + (n + i - q0) - 1]
      BY <1>1, <2>1, <3>5 DEF ChunkOf, size
    <3>7. cdda_cur_sector - size + (n + i - q0) - 1 = first + (i - q0 - 1)
      BY <1>2, <1>3, <2>2
    <3>8. Heard(i)' = ring'[Slot(CDDAPlay, i - 1)]
      BY <1>1, <3>1 DEF Heard, Stream
    <3> QED BY <3>4, <3>6, <3>7, <3>8
  <2>10. Follows(dropped, start, Heard(q0), [play |-> p, sector |-> first])
    <3>1. cdda_cur_sector - (size - n) = first
      BY <1>2
    <3>2. Follows(dropped, start, Heard(q0), [play |-> p, sector |-> cdda_cur_sector - Pending(p)])
      BY <1>1, <2>1 DEF ChunkOf, q0
    <3> QED BY <1>6, <3>1, <3>2
  <2>11. first \in Int /\ p \in Nat /\ p = plays
    BY <1>1, <1>2, OneThread DEF Play
  <2> HIDE DEF first
  <2>12. ASSUME NEW i \in 0..(q0 + k) PROVE Heard(i)'.play <= plays'
    <3>1. CASE i \in 0..q0
      BY <1>1, <2>1, <2>8, <3>1 DEF RingOrder, q0
    <3>2. CASE i \in (q0 + 1)..(q0 + k)
      BY <1>1, <2>9, <2>11, <3>2
    <3> QED BY <1>3, <2>2, <3>1, <3>2
  <2>13. ASSUME NEW i \in 1..(q0 + k)
         PROVE  Follows(dropped, start, Heard(i - 1)', Heard(i)')
    <3>0. ASSUME NEW m \in 0..q0, m = i - 1 PROVE Heard(i - 1)' = Heard(i - 1)
      <4>1. Heard(m)' = Heard(m)
        BY <2>8
      <4> QED BY <3>0, <4>1
    <3>1. CASE i <= q0
      <4>1. i \in 0..q0 /\ i - 1 \in 0..q0 /\ i \in 1..q0
        BY <2>2, <3>1
      <4>2. Heard(i)' = Heard(i) /\ Heard(i - 1)' = Heard(i - 1)
        BY <2>8, <3>0, <4>1
      <4> QED BY <2>1, <4>1, <4>2 DEF RingOrder, q0
    <3>2. CASE i = q0 + 1
      <4>1. i \in (q0 + 1)..(q0 + k) /\ i - 1 = q0 /\ q0 \in 0..q0
        BY <1>3, <2>2, <3>2
      <4>2. Heard(i)' = [play |-> p, sector |-> first + (i - q0 - 1)]
        BY <2>9, <4>1
      <4>3. Heard(i - 1)' = Heard(i - 1)
        BY <3>0, <4>1
      <4>4. first + (i - q0 - 1) = first
        BY <2>2, <2>11, <3>2
      <4> QED BY <2>10, <4>1, <4>2, <4>3, <4>4
    <3>3. CASE i > q0 + 1
      <4>1. i \in (q0 + 1)..(q0 + k) /\ i - 1 \in (q0 + 1)..(q0 + k)
        BY <1>3, <2>2, <3>3
      <4>2. Heard(i)' = [play |-> p, sector |-> first + (i - q0 - 1)]
        BY <2>9, <4>1
      <4>3. Heard(i - 1)' = [play |-> p, sector |-> first + ((i - 1) - q0 - 1)]
        <5>1. ASSUME NEW m \in (q0 + 1)..(q0 + k), m = i - 1
              PROVE  Heard(i - 1)' = [play |-> p, sector |-> first + (m - q0 - 1)]
          <6>1. Heard(m)' = [play |-> p, sector |-> first + (m - q0 - 1)]
            BY <2>9
          <6> QED BY <5>1, <6>1
        <5> QED BY <4>1, <5>1
      <4>4. /\ first + ((i - 1) - q0 - 1) \in Int
            /\ first + (i - q0 - 1) = (first + ((i - 1) - q0 - 1)) + 1
        BY <2>2, <2>11
      <4> QED BY <4>2, <4>3, <4>4, FollowsOn
    <3> QED BY <1>3, <2>2, <3>1, <3>2, <3>3
  <2>14. RingOrder'
    BY <1>1, <2>4, <2>5, <2>12, <2>13 DEF RingOrder
  <2>15. Follows(dropped, start, Heard(Queued)', [play |-> p, sector |-> cdda_cur_sector - (size - n - k)])
    <3>1. CASE k = 0
      <4>1. q0 \in 0..q0 /\ q0 + k = q0 /\ cdda_cur_sector - (size - n - k) = first
        BY <1>2, <2>2, <3>1 DEF first
      <4>2. Heard(Queued)' = Heard(q0)
        <5>1. ASSUME NEW m \in 0..q0, m = q0 PROVE Heard(Queued)' = Heard(m)
          <6>1. Heard(m)' = Heard(m)
            BY <2>8
          <6> QED BY <2>4, <4>1, <5>1, <6>1 DEF Heard
        <5> QED BY <4>1, <5>1
      <4> QED BY <2>10, <4>1, <4>2
    <3>2. CASE k > 0
      <4>1. ASSUME NEW m \in (q0 + 1)..(q0 + k), m = q0 + k
            PROVE  Heard(Queued)' = [play |-> p, sector |-> first + (m - q0 - 1)]
        <5>1. Heard(m)' = [play |-> p, sector |-> first + (m - q0 - 1)]
          BY <2>9
        <5> QED BY <2>4, <4>1, <5>1 DEF Heard
      <4>2. Heard(Queued)' = [play |-> p, sector |-> first + (k - 1)]
        <5>1. q0 + k \in (q0 + 1)..(q0 + k) /\ (q0 + k) - q0 - 1 = k - 1
          BY <1>3, <2>2, <3>2
        <5> QED BY <4>1, <5>1
      <4>3. cdda_cur_sector - (size - n - k) = (first + (k - 1)) + 1 /\ first + (k - 1) \in Int
        BY <1>2, <1>3 DEF first
      <4> QED BY <4>2, <4>3, FollowsOn
    <3> QED BY <1>3, <3>1, <3>2
  <2>16. ChunkOf(p)'
    <3>1. \A j \in 1..Len(sndbuffer') :
            sndbuffer'[j] = [play |-> p, sector |-> cdda_cur_sector' - Len(sndbuffer') + j - 1]
      BY <1>1, <2>1 DEF ChunkOf
    <3> QED BY <1>1, <1>5, <1>6, <2>15, <3>1 DEF ChunkOf
  <2>17. ASSUME NEW q \in Play, q # p PROVE ~Live(q)'
    BY <1>4, <2>17 DEF Live
  <2> QED BY <2>14, <2>16, <2>17 DEF ChunkOrder
<1> QED BY <1>1, <1>7 DEF InOrder

(* A step of the emulator that neither mixes nor starts a playback. *)
LEMMA OthersOrder ==
  ASSUME TypeOK, TypeOK', InOrder,
         UNCHANGED <<ring, CDDAFeed, CDDAPlay, last, dry, sndbuffer, thread, plays, start, dropped>>,
         playing' => playing,
         cdda_cur_sector' = cdda_cur_sector \/ \A p \in Play : ~Live(p)
  PROVE  InOrder'
<1>1. ASSUME ~dry PROVE RingOrder' /\ ChunkOrder'
  <2>1. RingOrder /\ ChunkOrder
    BY <1>1 DEF InOrder
  <2>2. RingOrder' /\ Heard(Queued)' = Heard(Queued)
    <3>1. plays <= plays'
      BY Numbers
    <3> QED BY <2>1, <3>1, RingKept
  <2>3. ASSUME NEW p \in Play, Live(p)' PROVE ChunkOf(p)'
    <3>1. Live(p) /\ cdda_cur_sector' = cdda_cur_sector
      BY <2>3 DEF Live
    <3>2. ChunkOf(p) /\ Pending(p)' = Pending(p)
      BY <2>1, <3>1 DEF ChunkOrder, Pending
    <3> QED BY <2>2, <3>1, <3>2 DEF ChunkOf
  <2> QED BY <2>2, <2>3 DEF ChunkOrder
<1> QED BY <1>1 DEF InOrder

(* A new playback may follow whatever is still in the ring. *)
LEMMA StartOrder ==
  ASSUME IInv, TypeOK', InOrder, ISOplay, image # "none" PROVE InOrder'
<1>1. TypeOK /\ emu.at = "then" /\ emu.sector \in Int /\ plays \in Nat /\ plays + 1 \in Play
  <2>1. TypeOK /\ emu \in Emu /\ emu.at = "then" /\ plays + 1 \in Play
    BY DEF IInv, TypeOK, ISOplay, Counted
  <2>2. emu.sector \in Int /\ plays \in Nat
    BY <2>1, Numbers DEF Emu
  <2> QED BY <2>1, <2>2
<1>2. PICK m \in Play : m = plays + 1
  BY <1>1
<1>3. /\ UNCHANGED <<ring, CDDAFeed, CDDAPlay, last, dry, dropped>>
      /\ cdda_cur_sector' = emu.sector /\ plays' = m
      /\ thread' = [thread EXCEPT ![m].pc = "top"]
      /\ start' = [start EXCEPT ![m] = emu.sector]
  BY <1>2 DEF ISOplay, sound
<1>4. \A q \in Play : ~Live(q)
  BY <1>1 DEF IInv, AloneWhenStopped
<1>5. ASSUME NEW q \in Play, q # m PROVE ~Live(q)'
  <2>1. thread'[q] = thread[q]
    BY <1>1, <1>3, <1>5, Numbers
  <2> QED BY <1>4, <2>1 DEF Live
<1>6. thread'[m].pc = "top" /\ start'[m] = emu.sector
  BY <1>1, <1>3, Numbers DEF Thread
<1>7. \A q \in Play : q <= plays => start'[q] = start[q]
  BY <1>1, <1>2, <1>3, Numbers
<1>8. ASSUME ~dry PROVE RingOrder' /\ ChunkOrder'
  <2>1. RingOrder /\ plays <= plays'
    BY <1>1, <1>2, <1>3, <1>8 DEF InOrder
  <2>2. RingOrder' /\ Heard(Queued)' = Heard(Queued)
    BY <1>1, <1>3, <1>7, <2>1, RingKept
  <2>3. m > Heard(Queued).play
    <3>1. Queued \in 0..Queued
      BY <1>1, Numbers
    <3>2. Heard(Queued).play <= plays /\ Heard(Queued).play \in Nat
      BY <1>1, <2>1, <3>1, HeardTypes DEF RingOrder
    <3> QED BY <1>1, <1>2, <3>2
  <2>4. Pending(m)' = 0
    BY <1>6 DEF Pending
  <2>5. Follows(dropped', start', Heard(Queued), [play |-> m, sector |-> emu.sector])
    BY <1>1, <1>6, <2>3 DEF Follows, AllIn
  <2>6. emu.sector - 0 = emu.sector
    BY <1>1
  <2>7. ChunkOf(m)'
    BY <1>3, <1>6, <2>2, <2>4, <2>5, <2>6 DEF ChunkOf
  <2> QED BY <1>5, <2>2, <2>7 DEF ChunkOrder
<1> QED BY <1>3, <1>8 DEF InOrder

(* One sector is mixed: the next of the stream. *)
LEMMA MixNext ==
  ASSUME TypeOK, MixXA, RingOrder
  PROVE  Queued > 0 /\ last' = Heard(1) /\ Follows(dropped, start, last, last')
<1>1. Queued > 0
  BY Numbers DEF MixXA, CanMix, Queued
<1>2. Heard(1) = ring[CDDAPlay] /\ Heard(0) = last
  BY Numbers DEF Heard, Stream, Slot
<1>3. Follows(dropped, start, Heard(1 - 1), Heard(1))
  <2>1. 1 \in 1..Queued
    BY <1>1, Numbers
  <2> QED BY <2>1 DEF RingOrder
<1>4. 1 - 1 = 0
  OBVIOUS
<1>5. last' = Heard(1)
  BY <1>2 DEF MixXA
<1> QED BY <1>1, <1>2, <1>3, <1>4, <1>5

LEMMA MixOrder ==
  ASSUME IInv, TypeOK', InOrder, MixXA PROVE InOrder'
<1>1. TypeOK /\ TypeOK'
  BY DEF IInv
<1>2. /\ UNCHANGED <<ring, CDDAFeed, playing, cdda_cur_sector, sndbuffer, thread>>
      /\ UNCHANGED <<plays, start, dropped>>
      /\ CDDAPlay # CDDAFeed /\ (CDDAPlay # Slots - 1 \/ CDDAFeed # 0)
      /\ dry' = (dry \/ (CDDAPlay = Slots - 1 /\ CDDAFeed = Slots))
  BY DEF MixXA, CanMix, control
<1>n. Slots \in Nat /\ Slots > 1 /\ CDDAFeed \in 0..Slots /\ CDDAPlay \in 0..(Slots - 1)
  BY <1>1, Numbers
<1>q. Queued \in 0..Slots
  BY <1>1, Numbers
<1>3. CDDAPlay' = IF CDDAPlay = Slots - 1 THEN 0 ELSE CDDAPlay + 1
  <2>1. CDDAPlay' = (CDDAPlay + 1) % Slots
    BY DEF MixXA
  <2>2. /\ CDDAPlay + 1 \in Int /\ Slots \in Nat \ {0}
        /\ CDDAPlay = Slots - 1 => CDDAPlay + 1 = Slots
        /\ CDDAPlay # Slots - 1 => CDDAPlay + 1 \in 0..(Slots - 1)
    BY <1>n
  <2>3. /\ CDDAPlay + 1 \in 0..(Slots - 1) => (CDDAPlay + 1) % Slots = CDDAPlay + 1
        /\ CDDAPlay + 1 = Slots => (CDDAPlay + 1) % Slots = 0
    BY <2>2, Remainder
  <2> QED BY <2>1, <2>2, <2>3
<1>4. ASSUME ~dry' PROVE RingOrder' /\ ChunkOrder'
  <2>1. RingOrder /\ ChunkOrder
    BY <1>2, <1>4 DEF InOrder
  <2>2. ~(CDDAPlay = Slots - 1 /\ CDDAFeed = Slots)
    BY <1>2, <1>4
  <2>3. Queued > 0 /\ last' = Heard(1)
    BY <1>1, <2>1, MixNext
  <2>4. Queued' = Queued - 1
    <3>1. CASE CDDAPlay = Slots - 1
      <4>1. CDDAPlay' = 0 /\ CDDAFeed' = CDDAFeed /\ CDDAFeed # CDDAPlay /\ CDDAFeed # Slots /\ CDDAFeed # 0
        BY <1>2, <1>3, <2>2, <3>1
      <4>2. CDDAFeed \in 0..(Slots - 1) /\ CDDAFeed < CDDAPlay
        BY <1>n, <3>1, <4>1
      <4>3. Queued' = CDDAFeed /\ Queued = CDDAFeed - CDDAPlay + Slots
        BY <1>n, <4>1, <4>2 DEF Queued
      <4> QED BY <1>n, <3>1, <4>3
    <3>2. CASE CDDAPlay # Slots - 1
      <4>1. CDDAPlay' = CDDAPlay + 1 /\ CDDAFeed' = CDDAFeed /\ CDDAFeed # CDDAPlay
        BY <1>2, <1>3, <3>2
      <4>2. CASE CDDAFeed >= CDDAPlay
        <5>1. CDDAFeed >= CDDAPlay + 1
          BY <1>n, <4>1, <4>2
        <5>2. Queued' = CDDAFeed - (CDDAPlay + 1) /\ Queued = CDDAFeed - CDDAPlay
          BY <4>1, <4>2, <5>1 DEF Queued
        <5> QED BY <1>n, <5>2
      <4>3. CASE ~(CDDAFeed >= CDDAPlay)
        <5>1. ~(CDDAFeed >= CDDAPlay + 1)
          BY <1>n, <4>3
        <5>2. Queued' = CDDAFeed - (CDDAPlay + 1) + Slots /\ Queued = CDDAFeed - CDDAPlay + Slots
          BY <4>1, <4>3, <5>1 DEF Queued
        <5> QED BY <1>n, <5>2
      <4> QED BY <4>2, <4>3
    <3> QED BY <3>1, <3>2
  <2>5. CDDAPlay' = 0 => CDDAFeed' # Slots
    BY <1>n, <1>2, <1>3, <2>2
  <2>6. ASSUME NEW k \in 0..(Queued - 1) PROVE Heard(k)' = Heard(k + 1)
    <3>1. CASE k = 0
      <4>1. Heard(k)' = last' /\ k + 1 = 1
        BY <3>1 DEF Heard, Stream
      <4> QED BY <2>3, <4>1
    <3>2. CASE k # 0
      <4>1. Slot(CDDAPlay', k - 1) = Slot(CDDAPlay, k)
        <5>1. k \in Nat /\ k >= 1 /\ k < Slots
          BY <1>n, <1>q, <3>2
        <5>2. CASE CDDAPlay = Slots - 1
          <6>1. Slot(CDDAPlay', k - 1) = k - 1
            BY <1>n, <1>3, <5>1, <5>2 DEF Slot
          <6> QED BY <1>n, <5>1, <5>2, <6>1 DEF Slot
        <5>3. CASE CDDAPlay # Slots - 1
          <6>1. CDDAPlay' = CDDAPlay + 1 /\ (CDDAPlay + 1) + (k - 1) = CDDAPlay + k
            BY <1>n, <1>3, <5>1, <5>3
          <6> QED BY <1>n, <5>1, <6>1 DEF Slot
        <5> QED BY <5>2, <5>3
      <4>2. (k + 1) - 1 = k /\ k + 1 # 0
        BY <1>1, Numbers
      <4> QED BY <1>2, <3>2, <4>1, <4>2 DEF Heard, Stream
    <3> QED BY <3>1, <3>2
  <2>7. ASSUME NEW k \in 0..(Queued - 1) PROVE Heard(k)'.play <= plays'
    <3>1. k + 1 \in 0..Queued
      BY <1>1, Numbers
    <3> QED BY <1>2, <2>1, <2>6, <3>1 DEF RingOrder
  <2>8. ASSUME NEW k \in 1..(Queued - 1)
        PROVE  Follows(dropped', start', Heard(k - 1)', Heard(k)')
    <3>1. k \in 0..(Queued - 1) /\ k - 1 \in 0..(Queued - 1) /\ k + 1 \in 1..Queued
          /\ (k - 1) + 1 = k /\ (k + 1) - 1 = k
      BY <1>1, Numbers
    <3>2. ASSUME NEW m \in 0..(Queued - 1), m = k - 1 PROVE Heard(k - 1)' = Heard(k)
      <4>1. Heard(m)' = Heard(m + 1)
        BY <2>6
      <4>2. m + 1 = k
        BY <3>1, <3>2
      <4> QED BY <3>2, <4>1, <4>2
    <3>3. Heard(k - 1)' = Heard(k) /\ Heard(k)' = Heard(k + 1)
      BY <2>6, <3>1, <3>2
    <3>4. Follows(dropped, start, Heard((k + 1) - 1), Heard(k + 1))
      BY <2>1, <3>1 DEF RingOrder
    <3> QED BY <1>2, <3>1, <3>3, <3>4
  <2>9. RingOrder'
    BY <2>4, <2>5, <2>7, <2>8 DEF RingOrder
  <2>10. Heard(Queued)' = Heard(Queued)
    <3>1. ASSUME NEW m \in 0..(Queued - 1), m = Queued - 1 PROVE Heard(Queued)' = Heard(Queued)
      <4>1. Heard(m)' = Heard(m + 1) /\ m + 1 = Queued
        BY <1>1, <2>6, <3>1, Numbers
      <4>2. Heard(Queued)' = Heard(m)'
        BY <2>4, <3>1 DEF Heard
      <4> QED BY <4>1, <4>2
    <3>2. Queued - 1 \in 0..(Queued - 1)
      BY <1>1, <2>3, Numbers
    <3> QED BY <3>1, <3>2
  <2>11. ASSUME NEW p \in Play, Live(p)' PROVE ChunkOf(p)'
    <3>1. Live(p) /\ Pending(p)' = Pending(p)
      BY <1>2, <2>11 DEF Live, Pending
    <3>2. ChunkOf(p)
      BY <2>1, <3>1 DEF ChunkOrder
    <3> QED BY <1>2, <2>10, <3>1, <3>2 DEF ChunkOf
  <2> QED BY <2>9, <2>11 DEF ChunkOrder
<1> QED BY <1>4 DEF InOrder

LEMMA OrderInit == Init => InOrder
<1> SUFFICES ASSUME Init PROVE InOrder
  OBVIOUS
<1>1. Queued = 0 /\ last = Nothing /\ plays = 0 /\ CDDAFeed = 0 /\ Slots # 0
  BY DEF Init, Queued
<1>2. Heard(0).play <= plays
  BY <1>1 DEF Heard, Stream, Nothing
<1>3. RingOrder
  BY <1>1, <1>2 DEF RingOrder
<1>4. ChunkOrder
  BY DEF Init, NotStarted, ChunkOrder, Live
<1> QED BY <1>3, <1>4 DEF InOrder

LEMMA OrderStep ==
  ASSUME ImagesLocked, IInv, InOrder, [Next]_vars PROVE InOrder'
<1>1. TypeOK /\ TypeOK'
  BY ThreadInv, EmulatorInv, StutterInv DEF Next, IInv
<1>2. CASE UNCHANGED vars
  BY <1>1, <1>2, OthersOrder DEF vars, disc, sound, control
<1>3. ASSUME NEW p \in Play, playthread(p) PROVE InOrder'
  BY <1>1, <1>3, TopOrder, FillOrder, FillFetchedOrder, FilledOrder, FeedOrder, WrapOrder,
     CopyOrder, PaceOrder DEF playthread
<1>4. CASE Emulator
  <2>1. CASE MixXA
    BY <1>1, <2>1, MixOrder
  <2>2. CASE ISOplay /\ image # "none"
    BY <1>1, <2>2, StartOrder
  <2>3. CASE ISOplay /\ image = "none"
    <3>1. /\ UNCHANGED <<ring, CDDAFeed, CDDAPlay, last, dry, sndbuffer, thread, plays, start>>
          /\ UNCHANGED <<dropped, playing, cdda_cur_sector>>
      BY <2>3 DEF ISOplay, sound
    <3> QED BY <1>1, <3>1, OthersOrder
  <2>4. CASE ISOopen
    <3>1. \A p \in Play : ~Live(p)
      BY <2>4 DEF ISOopen, IInv, AloneWhenStopped
    <3>2. UNCHANGED <<ring, CDDAFeed, CDDAPlay, last, dry, sndbuffer, thread, plays, start, dropped,
                      playing>>
      BY <2>4 DEF ISOopen, sound, control
    <3> QED BY <1>1, <3>1, <3>2, OthersOrder
  <2>5. CASE stopCDDA
    <3>1. UNCHANGED <<ring, CDDAFeed, CDDAPlay, last, dry, sndbuffer, thread, plays, start, dropped,
                      cdda_cur_sector>> /\ playing' = FALSE
      BY <2>5 DEF stopCDDA, sound
    <3> QED BY <1>1, <3>1, OthersOrder
  <2>6. CASE \/ (\E s \in Starts : CdlPlay(s)) \/ ISOstop \/ Join \/ Stopped \/ FreeImage
             \/ (\E want \in {"free", "exit"} : ISOclose(want))
             \/ (\E s \in Reads : ISOreadTrack(s)) \/ ReadFetched \/ Mute \/ Menu
    <3> DEFINE kept == <<ring, CDDAFeed, CDDAPlay, last, dry, sndbuffer, thread, plays, start, dropped,
                         cdda_cur_sector, playing>>
    <3>2. ASSUME \/ (\E s \in Starts : CdlPlay(s))
                 \/ ISOstop
                 \/ Join
                 \/ Stopped
                 \/ FreeImage
          PROVE  UNCHANGED kept
      BY <3>2 DEF CdlPlay, ISOstop, Join, Stopped, FreeImage, sound
    <3>3. ASSUME \/ (\E want \in {"free", "exit"} : ISOclose(want)) \/ Mute \/ Menu
          PROVE  UNCHANGED kept
      BY <3>3 DEF ISOclose, Mute, Menu, sound
    <3>4. ASSUME NEW s \in Reads, ISOreadTrack(s) PROVE UNCHANGED kept
      BY <3>4 DEF ISOreadTrack, sound
    <3>5. ASSUME ReadFetched PROVE UNCHANGED kept
      BY <3>5 DEF ReadFetched, sound
    <3>1. UNCHANGED kept
      BY <2>6, <3>2, <3>3, <3>4, <3>5
    <3> QED BY <1>1, <3>1, OthersOrder
  <2> QED BY <1>4, <2>1, <2>2, <2>3, <2>4, <2>5, <2>6 DEF Emulator
<1> QED BY <1>2, <1>3, <1>4 DEF Next

NextHeard ==
  last' # last /\ ~dry =>
    \/ last'.play = last.play /\ NextIs(last.play, last.sector + 1, last'.sector)
    \/ last'.play > last.play /\ NextIs(last'.play, start[last'.play], last'.sector)

LEMMA NextHeardStep == ASSUME IInv, InOrder, [Next]_vars PROVE [NextHeard]_vars
<1> SUFFICES ASSUME Next, last' # last, ~dry PROVE NextHeard
  BY DEF NextHeard, vars, sound
<1>1. MixXA
  BY DEF Next, playthread, Top, Fill, FillFetched, Filled, Feed, Wrap, Copy, Pace, Emulator, CdlPlay,
         ISOstop, ISOclose, stopCDDA, Join, ISOplay, Stopped, FreeImage, ISOopen, ISOreadTrack,
         ReadFetched, Mute, Menu, sound
<1>2. TypeOK /\ RingOrder
  BY DEF IInv, InOrder
<1>3. Follows(dropped, start, last, last')
  BY <1>1, <1>2, MixNext
<1> QED BY <1>3 DEF NextHeard, NextIs, Follows, AllIn

(* However the ring is split, the thread stopped and started again, and     *)
(* whatever is muted: what is mixed next is what comes next of the playback *)
(* that was asked for, as long as the ring has not run dry at its very end. *)
THEOREM InOrderAlways == ASSUME ImagesLocked PROVE Spec => HeardInOrder
<1>1. IInv /\ InOrder /\ [Next]_vars => InOrder'
  BY OrderStep
<1>2. IInv /\ InOrder /\ [Next]_vars => [NextHeard]_vars
  BY NextHeardStep
<1>3. Spec => [][NextHeard]_vars
  BY <1>1, <1>2, OrderInit, Invariance, PTL DEF Spec
<1> QED BY <1>3 DEF HeardInOrder, NextHeard
=============================================================================

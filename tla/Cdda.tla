-------------------------------- MODULE Cdda --------------------------------
(***************************************************************************)
(* The thread that plays audio tracks (cdriso.c) and the ring through which *)
(* it hands its sound to the mixer (dfsound/xa.c).  The emulator's thread   *)
(* starts and stops it for the CD-ROM controller, reads data sectors of the *)
(* same image meanwhile, mixes, changes the image, and at the end frees the *)
(* image and the ring.  No lock guards the ring or the variables; only the  *)
(* hunk of a CHD image that was read last is shared under a lock.           *)
(*                                                                         *)
(* A slot of the ring takes one sector, and each access to a shared         *)
(* variable is a step, taken in program order.  The controller stops a      *)
(* playback before it starts another (AudioFollowsPlay of CdRom).           *)
(***************************************************************************)
EXTENDS Integers, Sequences

CONSTANTS
  Slots,        \* of the ring
  Chunk,        \* the sectors read at a time
  First,        \* the audio track's first sector
  Sectors,      \* the length of the image
  HunkSectors,  \* of a hunk of the image
  Images,       \* the kinds of image
  Starts,       \* where playing is started
  Reads,        \* the data sectors that are read
  Plays         \* how often playing is started (bound)

(* A plain image is read through a handle for each reader; "compressed"     *)
(* stands for pbp and cbin images, read through cdHandle without the lock.  *)
ASSUME CddaAssumption ==
  /\ Chunk \in Nat \ {0} /\ Slots \in Nat /\ Slots > Chunk + 1
  /\ First \in Nat /\ Sectors \in Nat /\ HunkSectors \in Nat \ {0}
  /\ Images \subseteq {"plain", "chd", "compressed"}
  /\ Starts \subseteq 0..Sectors /\ Reads \subseteq 0..(Sectors - 1) /\ Plays \in Nat

VARIABLES
  playing,          \* what keeps the thread going
  cdda_cur_sector,  \* the next sector to play
  image,            \* what is open, or "none"
  hunk,             \* the cache's hunk, and who holds its lock
  sndbuffer,        \* the chunk
  thread,           \* the playback threads: at most one has not ended
  ring, CDDAFeed, CDDAPlay,
  muted, stop,      \* cdr.Muted; whether the emulator is in the menu
  emu,              \* what the emulator's thread is doing
  plays, start,     \* playbacks started, and from where
  dropped,          \* the sectors that were read while muted
  last,             \* the sector mixed last
  dry               \* the mixer passed the end of the ring with CDDAFeed there

disc == <<image, hunk>>
sound == <<ring, CDDAFeed, CDDAPlay, last, dry>>
control == <<muted, stop, emu, plays, start>>
vars == <<playing, cdda_cur_sector, disc, sndbuffer, thread, sound, control, dropped>>

Play == 1..Plays
Sound == [play : Play, sector : 0..(Sectors - 1)]
Nothing == [play |-> 0, sector |-> 0]
HunkOf(s) == s \div HunkSectors
Hunk == [held : -1..HunkOf(Sectors), lock : {"free", "thread", "emulator"}]

(* What a thread does next; n is how much of sndbuffer it has handed over,  *)
(* ret the last answer of SPU_playCDDAchannel.                             *)
Steps == {"none", "top", "fill", "fetched", "filled", "feed", "wrap", "copy", "pace", "end"}
Thread == [pc : Steps, n : 0..Chunk, ret : {"none", "wait", "go"}]
NotStarted == [pc |-> "none", n |-> 0, ret |-> "none"]

(* Where the emulator's thread is: in its main loop, in stopCDDA, in        *)
(* pthread_join, or about to do what it stopped the playback for.           *)
Emu == [at : {"run", "stop", "join", "then", "fetched", "done"},
        want : {"run", "play", "free", "exit"}, sector : 0..Sectors]
Idle == [at |-> "run", want |-> "run", sector |-> 0]

Init ==
  /\ playing = FALSE /\ cdda_cur_sector = 0
  /\ image \in Images
  /\ hunk = [held |-> -1, lock |-> "free"]
  /\ sndbuffer = <<>>
  /\ thread = [p \in Play |-> NotStarted]
  /\ ring = [i \in 0..(Slots - 1) |-> Nothing] /\ CDDAFeed = 0 /\ CDDAPlay = 0
  /\ muted = FALSE /\ stop = FALSE
  /\ emu = Idle
  /\ plays = 0 /\ start = [p \in Play |-> 0]
  /\ dropped = {} /\ last = Nothing /\ dry = FALSE

-----------------------------------------------------------------------------
(* Reading a sector of a compressed image: the hunk is brought into the     *)
(* cache, then the sector is taken out of it.                               *)

(* Fault: nothing is locked. *)
CacheFreeAlways == TRUE

CacheFree == image = "chd" => hunk.lock = "free"

Fetch(s, who) ==
  /\ CacheFree
  /\ hunk' = [held |-> HunkOf(s), lock |-> IF image = "chd" THEN who ELSE hunk.lock]

Fetched(s) == hunk.held * HunkSectors + (s % HunkSectors)
Release == hunk' = [hunk EXCEPT !.lock = "free"]

-----------------------------------------------------------------------------
(* The thread *)

Go(p, pc) == thread' = [thread EXCEPT ![p].pc = pc]
Live(p) == thread[p].pc \notin {"none", "end"}

Top(p) ==
  /\ thread[p].pc = "top"
  /\ Go(p, IF playing THEN "fill" ELSE "end")
  /\ sndbuffer' = <<>>
  /\ UNCHANGED <<playing, cdda_cur_sector, disc, sound, control, dropped>>

Got(p, s) ==
  /\ sndbuffer' = Append(sndbuffer, [play |-> p, sector |-> s])
  /\ cdda_cur_sector' = cdda_cur_sector + 1
  /\ Go(p, "fill")

(* One sector, if there is room and the image has it: silence before the    *)
(* track begins, else read, at once or by way of the cache.                 *)
Fill(p) ==
  LET s == cdda_cur_sector
  IN /\ thread[p].pc = "fill"
     /\ \/ /\ Len(sndbuffer) = Chunk \/ s >= Sectors
           /\ Go(p, "filled") /\ UNCHANGED <<sndbuffer, cdda_cur_sector, hunk>>
        \/ /\ Len(sndbuffer) < Chunk /\ s < Sectors
           /\ s < First \/ image = "plain"
           /\ Got(p, s) /\ UNCHANGED hunk
        \/ /\ Len(sndbuffer) < Chunk /\ First <= s /\ s < Sectors
           /\ image # "plain"
           /\ Fetch(s, "thread")
           /\ Go(p, "fetched") /\ UNCHANGED <<sndbuffer, cdda_cur_sector>>
  /\ UNCHANGED <<playing, image, sound, control, dropped>>

FillFetched(p) ==
  /\ thread[p].pc = "fetched"
  /\ Got(p, Fetched(cdda_cur_sector))
  /\ Release
  /\ UNCHANGED <<playing, image, sound, control, dropped>>

AtEnd == sndbuffer = <<>>

(* Nothing was read: the end.  A muted chunk is dropped. *)
Filled(p) ==
  /\ thread[p].pc = "filled"
  /\ IF AtEnd
       THEN playing' = FALSE /\ Go(p, "end") /\ UNCHANGED dropped
       ELSE /\ UNCHANGED playing
            /\ IF ~muted /\ playing
                 THEN thread' = [thread EXCEPT ![p].pc = "feed", ![p].n = 0] /\ UNCHANGED dropped
                 ELSE /\ Go(p, "pace")
                      /\ dropped' = dropped \cup {sndbuffer[i] : i \in DOMAIN sndbuffer}
  /\ UNCHANGED <<cdda_cur_sector, disc, sndbuffer, sound, control>>

(* FeedCDDA.  CDDAFeed may rest at the end of the ring, one past the last   *)
(* slot; one slot stays empty.                                             *)
Space == (CDDAPlay - CDDAFeed - 1) % Slots

(* Fault: the thread waits for room even when it is to stop. *)
FeedStubborn(p) ==
  /\ thread[p].pc = "feed"
  /\ Space >= Len(sndbuffer) /\ Go(p, "wrap")
  /\ UNCHANGED <<playing, cdda_cur_sector, disc, sndbuffer, sound, control, dropped>>

(* There is room for the chunk, or the thread waits for it while it is to   *)
(* play on.                                                                *)
Feed(p) ==
  /\ thread[p].pc = "feed"
  /\ \/ Space >= Len(sndbuffer) /\ Go(p, "wrap")
     \/ /\ Space < Len(sndbuffer) /\ ~playing
        /\ thread' = [thread EXCEPT ![p].pc = "pace", ![p].ret = "wait"]
  /\ UNCHANGED <<playing, cdda_cur_sector, disc, sndbuffer, sound, control, dropped>>

Wrap(p) ==
  /\ thread[p].pc = "wrap"
  /\ CDDAFeed' = IF CDDAFeed = Slots THEN 0 ELSE CDDAFeed
  /\ Go(p, "copy")
  /\ UNCHANGED <<playing, cdda_cur_sector, disc, sndbuffer, ring, CDDAPlay, last, dry, control, dropped>>

Least(a, b) == IF a < b THEN a ELSE b

(* As much as there is room for before the end of the ring. *)
Piece(p) == Least(Least(Len(sndbuffer) - thread[p].n, Space), Slots - CDDAFeed)

(* Fault: each piece is taken from the start of the chunk. *)
FromStart(p) == 0

From(p) == thread[p].n

Copy(p) ==
  LET k == Piece(p)
      n == thread[p].n
  IN /\ thread[p].pc = "copy"
     /\ ring' = [i \in 0..(Slots - 1) |->
                   IF CDDAFeed <= i /\ i < CDDAFeed + k
                   THEN sndbuffer[From(p) + 1 + i - CDDAFeed] ELSE ring[i]]
     /\ CDDAFeed' = CDDAFeed + k
     /\ thread' = IF n + k = Len(sndbuffer)
                  THEN [thread EXCEPT ![p].pc = "pace", ![p].n = 0, ![p].ret = "go"]
                  ELSE [thread EXCEPT ![p].pc = "wrap", ![p].n = n + k]
     /\ UNCHANGED <<playing, cdda_cur_sector, disc, sndbuffer, CDDAPlay, last, dry, control, dropped>>

(* After a chunk that was not handed over the thread sleeps; then, and only *)
(* then, it also waits while the emulator is in the menu.                   *)
Pace(p) ==
  /\ thread[p].pc = "pace"
  /\ thread[p].ret = "go" \/ ~stop \/ ~playing
  /\ Go(p, "top")
  /\ UNCHANGED <<playing, cdda_cur_sector, disc, sndbuffer, sound, control, dropped>>

playthread(p) ==
  \/ Top(p) \/ Fill(p) \/ FillFetched(p) \/ Filled(p)
  \/ Feed(p) \/ Wrap(p) \/ Copy(p) \/ Pace(p)

-----------------------------------------------------------------------------
(* The emulator *)

Running == emu.at = "run" /\ ~stop
StopFor(want) == emu' = [Idle EXCEPT !.at = "stop", !.want = want]

(* CdlPlay: StopCdda, then CDR_play. *)
CdlPlay(s) ==
  /\ Running /\ plays < Plays
  /\ emu' = [at |-> "stop", want |-> "play", sector |-> s]
  /\ UNCHANGED <<playing, cdda_cur_sector, disc, sndbuffer, thread, sound, muted, stop, plays, start, dropped>>

(* ISOstop, from the controller, or from the menu. *)
ISOstop ==
  /\ emu.at = "run" /\ StopFor("run")
  /\ UNCHANGED <<playing, cdda_cur_sector, disc, sndbuffer, thread, sound, muted, stop, plays, start, dropped>>

(* ISOclose stops the thread before it frees what the thread reads.         *)
ISOclose(want) ==
  /\ emu.at = "run" /\ image # "none"
  /\ StopFor(want)
  /\ UNCHANGED <<playing, cdda_cur_sector, image, hunk, sndbuffer, thread, sound, muted, stop, plays, start, dropped>>

(* Fault: the thread is told to stop but not waited for. *)
StopCDDANoJoin ==
  /\ emu.at = "stop"
  /\ playing' = FALSE /\ emu' = [emu EXCEPT !.at = "then"]
  /\ UNCHANGED <<cdda_cur_sector, disc, sndbuffer, thread, sound, muted, stop, plays, start, dropped>>

stopCDDA ==
  /\ emu.at = "stop"
  /\ playing' = FALSE
  /\ emu' = [emu EXCEPT !.at = IF playing THEN "join" ELSE "then"]
  /\ UNCHANGED <<cdda_cur_sector, disc, sndbuffer, thread, sound, muted, stop, plays, start, dropped>>

Join ==
  /\ emu.at = "join" /\ thread[plays].pc = "end"
  /\ emu' = [emu EXCEPT !.at = "then"]
  /\ UNCHANGED <<playing, cdda_cur_sector, disc, sndbuffer, thread, sound, muted, stop, plays, start, dropped>>

(* ISOplay and startCDDA, where the playback has just been stopped. *)
ISOplay ==
  /\ emu.at = "then" /\ emu.want = "play"
  /\ emu' = Idle
  /\ IF image = "none"
       THEN UNCHANGED <<playing, cdda_cur_sector, thread, plays, start>>
       ELSE /\ cdda_cur_sector' = emu.sector
            /\ playing' = TRUE
            /\ plays' = plays + 1
            /\ thread' = [thread EXCEPT ![plays + 1].pc = "top"]
            /\ start' = [start EXCEPT ![plays + 1] = emu.sector]
  /\ UNCHANGED <<disc, sndbuffer, sound, muted, stop, dropped>>

Stopped ==
  /\ emu.at = "then" /\ emu.want = "run"
  /\ emu' = Idle
  /\ UNCHANGED <<playing, cdda_cur_sector, disc, sndbuffer, thread, sound, muted, stop, plays, start, dropped>>

(* The rest of ISOclose; at the exit the ring goes next. *)
FreeImage ==
  /\ emu.at = "then" /\ emu.want \in {"free", "exit"}
  /\ image' = "none" /\ hunk' = [held |-> -1, lock |-> "free"]
  /\ emu' = IF emu.want = "exit" THEN [Idle EXCEPT !.at = "done"] ELSE Idle
  /\ UNCHANGED <<playing, cdda_cur_sector, sndbuffer, thread, sound, muted, stop, plays, start, dropped>>

ISOopen ==
  /\ emu.at = "run" /\ image = "none"
  /\ image' \in Images /\ cdda_cur_sector' = 0
  /\ UNCHANGED <<playing, hunk, sndbuffer, thread, sound, control, dropped>>

(* ISOreadTrack, where the cache is used. *)
ISOreadTrack(s) ==
  /\ Running /\ image \in {"chd", "compressed"}
  /\ Fetch(s, "emulator")
  /\ emu' = [Idle EXCEPT !.at = "fetched", !.sector = s]
  /\ UNCHANGED <<playing, cdda_cur_sector, image, sndbuffer, thread, sound, muted, stop, plays, start, dropped>>

ReadFetched ==
  /\ emu.at = "fetched"
  /\ emu' = Idle /\ Release
  /\ UNCHANGED <<playing, cdda_cur_sector, image, sndbuffer, thread, sound, muted, stop, plays, start, dropped>>

CanMix == CDDAPlay # CDDAFeed /\ (CDDAPlay # Slots - 1 \/ CDDAFeed # 0)

(* MixXA: one slot; the mixer stops one short of the end of the ring when    *)
(* CDDAFeed is back at its start.                                           *)
MixXA ==
  /\ Running /\ CanMix
  /\ last' = ring[CDDAPlay]
  /\ CDDAPlay' = (CDDAPlay + 1) % Slots
  /\ dry' = (dry \/ (CDDAPlay = Slots - 1 /\ CDDAFeed = Slots))
  /\ UNCHANGED <<playing, cdda_cur_sector, disc, sndbuffer, thread, ring, CDDAFeed, control, dropped>>

(* The guest mutes and demutes, the player opens and leaves the menu. *)
Mute ==
  /\ Running
  /\ muted' = ~muted
  /\ UNCHANGED <<playing, cdda_cur_sector, disc, sndbuffer, thread, sound, stop, emu, plays, start, dropped>>

Menu ==
  /\ emu.at = "run"
  /\ stop' = ~stop
  /\ UNCHANGED <<playing, cdda_cur_sector, disc, sndbuffer, thread, sound, muted, emu, plays, start, dropped>>

Emulator ==
  \/ (\E s \in Starts : CdlPlay(s)) \/ ISOplay
  \/ ISOstop \/ (\E want \in {"free", "exit"} : ISOclose(want)) \/ stopCDDA \/ Join \/ Stopped
  \/ FreeImage \/ ISOopen
  \/ (\E s \in Reads : ISOreadTrack(s)) \/ ReadFetched
  \/ MixXA \/ Mute \/ Menu

Next == (\E p \in Play : playthread(p)) \/ Emulator

(* The threads are scheduled, a call that was begun goes on, a running      *)
(* emulator mixes once per frame, and whoever waits for the lock of the     *)
(* cache gets it: the other holds it for a small part of the time only.     *)
Fairness ==
  /\ \A p \in Play : WF_vars(playthread(p)) /\ SF_vars(Fill(p))
  /\ WF_vars(stopCDDA) /\ WF_vars(Join) /\ WF_vars(ReadFetched)
  /\ WF_vars(Stopped \/ FreeImage \/ ISOplay)
  /\ SF_vars(MixXA)

Spec == Init /\ [][Next]_vars /\ Fairness

-----------------------------------------------------------------------------
TypeOK ==
  /\ playing \in BOOLEAN /\ cdda_cur_sector \in 0..Sectors
  /\ image \in Images \cup {"none"}
  /\ hunk \in Hunk
  /\ sndbuffer \in Seq(Sound) /\ Len(sndbuffer) <= Chunk
  /\ thread \in [Play -> Thread]
  /\ ring \in [0..(Slots - 1) -> Sound \cup {Nothing}]
  /\ CDDAFeed \in 0..Slots /\ CDDAPlay \in 0..(Slots - 1)
  /\ muted \in BOOLEAN /\ stop \in BOOLEAN /\ emu \in Emu
  /\ plays \in 0..Plays /\ start \in [Play -> 0..Sectors]
  /\ dropped \subseteq Sound /\ last \in Sound \cup {Nothing} /\ dry \in BOOLEAN

(* What a thread may be working with when the emulator frees it: the image   *)
(* while it reads, the ring while it feeds.  Once stopCDDA has returned, so *)
(* before anything is freed or a new playback begins, no thread is left     *)
(* that reads or feeds.                                                     *)
AloneWhenStopped ==
  /\ \A p \in Play : Live(p) => p = plays /\ image # "none" /\ emu.at # "done"
  /\ emu.at = "then" => \A p \in Play : ~Live(p)

(* A read in progress finds the cache as it left it. *)
CacheKept ==
  /\ emu.at = "fetched" => hunk.held = HunkOf(emu.sector)
  /\ \A p \in Play : thread[p].pc = "fetched" => hunk.held = HunkOf(cdda_cur_sector)

(* What may come after sector a of a playback (or at its start): the next   *)
(* that was not dropped.                                                    *)
NextIs(p, a, b) == a <= b /\ \A s \in a..(b - 1) : [play |-> p, sector |-> s] \in dropped

(* What is mixed is what was asked for: each playback from its start, in    *)
(* order, no sector twice and none left out but while muted, and none of an *)
(* older playback after one of a newer.  (Unless the ring ran dry with      *)
(* CDDAFeed resting at its very end: then the mixer goes round it.)         *)
HeardInOrder ==
  [][last' # last /\ ~dry =>
       \/ last'.play = last.play /\ NextIs(last.play, last.sector + 1, last'.sector)
       \/ last'.play > last.play /\ NextIs(last'.play, start[last'.play], last'.sector)]_vars

(* stopCDDA returns: the thread leaves every wait it can be in, for room in *)
(* a ring that nobody empties meanwhile, and for the menu to close.         *)
(* (Unless the ring ran dry as above: mixed further between the thread's    *)
(* test for room and its return to the start of the ring, it looks full,    *)
(* and FeedCDDA goes round its loop until somebody mixes.)  And a playback  *)
(* that is not held up by the menu comes to its end: at the end of the      *)
(* image, if it is not stopped before.                                      *)
PlaybackEnds ==
  /\ (emu.at = "join" /\ ~dry) ~> (emu.at = "then")
  /\ \A p \in Play : Live(p) ~> (~Live(p) \/ stop \/ dry)
=============================================================================

--------------------------- MODULE SessionProofs ---------------------------
(***************************************************************************)
(* Proofs about Session, for every set of discs and players and every      *)
(* length of the ring: a reset is held only for a disc that is not known   *)
(* yet, a resume point is saved only from a memory card left alone, it is  *)
(* the oldest snapshot, and filename.txt names the disc it was taken from. *)
(***************************************************************************)
EXTENDS Session, SequenceTheorems, TLAPS

(* The flags of the card tell how long it has been left alone: memcardFlag *)
(* is clear only after a whole interval, both flags only after two.        *)
QuietMeansCalm ==
  /\ card \in Cards
  /\ ~card.flag => card.calm >= 1
  /\ CardQuiet => card.calm = 2

(* disc and out are records. *)
Shape ==
  /\ disc = [inserted |-> disc.inserted, id |-> disc.id, old |-> disc.old,
              unknown |-> disc.unknown, lid |-> disc.lid]
  /\ out = [filename |-> out.filename, point |-> out.point]

ResetInv == Shape /\ QuietMeansCalm /\ SaveAfterQuiet /\ HeldForDisc

-----------------------------------------------------------------------------
(* The timer keeps the meaning of the flags, blocked or not. *)
LEMMA SyncKeepsQuiet ==
  ASSUME NEW s, NEW elapsed \in BOOLEAN, QuietMeansCalm, SyncState(s, elapsed)
  PROVE  QuietMeansCalm'
<1> DEFINE shifts == elapsed /\ ~Blocked
           fires == shifts /\ CardQuiet /\ card.reset
           calm == IF elapsed /\ card.calm < 2 THEN card.calm + 1 ELSE card.calm
           old == IF shifts THEN card.flag ELSE card.old
<1>1. card' = [flag |-> card.flag /\ ~shifts, old |-> old,
               reset |-> card.reset /\ ~fires, calm |-> calm]
  BY DEF SyncState
<1>2. /\ card.flag \in BOOLEAN /\ card.old \in BOOLEAN /\ card.reset \in BOOLEAN
      /\ card.calm \in 0..2
  BY DEF QuietMeansCalm, Cards
<1>3. shifts \in BOOLEAN /\ fires \in BOOLEAN
  BY DEF Blocked, CardQuiet
<1>4. calm \in 0..2 /\ calm >= card.calm /\ (elapsed => calm >= 1)
      /\ (elapsed /\ card.calm >= 1 => calm = 2)
  BY <1>2
<1>5. old \in BOOLEAN
  BY <1>2, <1>3
<1> HIDE DEF fires, calm, old
<1>6. card' \in Cards
  BY <1>1, <1>2, <1>3, <1>4, <1>5 DEF Cards
<1>7. ~card'.flag => card'.calm >= 1
  <2>1. CASE shifts
    BY <2>1, <1>1, <1>4
  <2>2. CASE ~shifts
    BY <2>2, <1>1, <1>2, <1>4 DEF QuietMeansCalm
  <2> QED BY <2>1, <2>2
<1>8. ~card'.flag /\ ~card'.old => card'.calm = 2
  <2>1. CASE shifts
    BY <2>1, <1>1, <1>2, <1>4 DEF QuietMeansCalm, old
  <2>2. CASE ~shifts
    BY <2>2, <1>1, <1>2, <1>4 DEF QuietMeansCalm, CardQuiet, old
  <2> QED BY <2>1, <2>2
<1> QED
  BY <1>6, <1>7, <1>8 DEF QuietMeansCalm, CardQuiet

(* A disc that could not be looked at is as unknown as it was. *)
LEMMA UnidentifiedShape ==
  ASSUME Shape, NEW d \in Unidentified
  PROVE  /\ d.unknown = disc.unknown
         /\ d = [inserted |-> d.inserted, id |-> d.id, old |-> d.old,
                 unknown |-> d.unknown, lid |-> d.lid]
BY DEF Shape, Unidentified

(* Looking at the disc lets a held reset go when it finds what it is. *)
LEMMA LidKeepsHeld ==
  ASSUME NEW s, NEW t, Shape, HeldForDisc, LidEvent(s, t), UNCHANGED out
  PROVE  Shape' /\ HeldForDisc'
<1>1. CASE disc' = disc /\ hold' = hold
  BY <1>1 DEF HeldForDisc, Shape
<1>2. CASE disc' = Identified /\ hold' = FALSE
  BY <1>2 DEF HeldForDisc, Shape, Identified
<1>3. CASE disc' \in Unidentified /\ hold' = hold
  BY <1>3, UnidentifiedShape DEF HeldForDisc, Shape
<1> QED
  BY <1>1, <1>2, <1>3 DEF LidEvent

(* A reset that is carried out saves from a quiet card; one that is not    *)
(* leaves the flags of the card alone, and is held only for an unknown disc. *)
LEMMA ResetKeeps ==
  ASSUME ResetInv, ResetEvent, UNCHANGED <<disc, auto, ring>>
  PROVE  ResetInv'
<1> USE DEF ResetInv
<1>1. HeldForDisc'
  BY DEF HeldForDisc, ResetEvent
<1>2. CASE ~CardQuiet /\ card' = [card EXCEPT !.reset = TRUE] /\ UNCHANGED <<quit, out>>
  BY <1>1, <1>2 DEF Shape, QuietMeansCalm, CardQuiet, Cards, SaveAfterQuiet
<1>3. CASE UNCHANGED <<card, quit, out>>
  BY <1>1, <1>3 DEF Shape, QuietMeansCalm, CardQuiet, SaveAfterQuiet
<1>4. CASE /\ CardQuiet /\ card' = card
           /\ \/ out' = [filename |-> FileName(disc), point |-> {Point}]
              \/ out' = [out EXCEPT !.filename = NoDisc]
  <2>1. Point.calm = 2
    BY <1>4 DEF Point, QuietMeansCalm
  <2>2. \A p \in out'.point : p.calm = 2
    BY <1>4, <2>1 DEF Shape, SaveAfterQuiet
  <2>3. out' = [filename |-> out'.filename, point |-> out'.point]
    BY <1>4 DEF Shape
  <2> QED BY <1>1, <1>4, <2>2, <2>3 DEF Shape, QuietMeansCalm, CardQuiet, SaveAfterQuiet
<1> QED
  BY <1>2, <1>3, <1>4 DEF ResetEvent

(* Loading a state and changing the disc never make the disc known. *)
LEMMA DiscKeeps ==
  ASSUME ResetInv, UNCHANGED <<card, hold, out>>,
         \/ LoadState \/ Snapshot
         \/ \E opened \in BOOLEAN : SwapImage(opened) \/ NextDisc(opened)
  PROVE  ResetInv'
<1> USE DEF ResetInv
<1>1. Shape' /\ HeldForDisc'
  BY DEF Shape, HeldForDisc, LoadState, Snapshot, SwapImage, NextDisc
<1>2. QuietMeansCalm' /\ SaveAfterQuiet'
  BY DEF QuietMeansCalm, CardQuiet, SaveAfterQuiet
<1> QED
  BY <1>1, <1>2

LEMMA OthersKeep ==
  ASSUME ResetInv, UNCHANGED <<card, hold, disc, out>>
  PROVE  ResetInv'
BY DEF ResetInv, Shape, QuietMeansCalm, CardQuiet, SaveAfterQuiet, HeldForDisc

-----------------------------------------------------------------------------
LEMMA ResetInit == Init => ResetInv
BY DEF Init, ResetInv, Shape, QuietMeansCalm, Cards, CardQuiet, SaveAfterQuiet, HeldForDisc

LEMMA ResetStep == ResetInv /\ [Next]_vars => ResetInv'
<1> SUFFICES ASSUME ResetInv, [Next]_vars PROVE ResetInv'
  OBVIOUS
<1>1. ASSUME NEW vblank \in BOOLEAN, NEW key, NEW elapsed \in BOOLEAN,
             NEW tested \in BOOLEAN, IrqTest(vblank, key, elapsed, tested)
      PROVE  ResetInv'
  <2>1. PICK s, t : LidEvent(s, t) /\ SyncState(t, elapsed)
    BY <1>1 DEF IrqTest
  <2>2. QuietMeansCalm'
    BY <2>1, SyncKeepsQuiet DEF ResetInv
  <2>3. UNCHANGED out
    BY <1>1 DEF IrqTest
  <2>4. Shape' /\ HeldForDisc'
    BY <2>1, <2>3, LidKeepsHeld DEF ResetInv
  <2> QED BY <2>2, <2>3, <2>4 DEF ResetInv, SaveAfterQuiet
<1>2. CASE UseCard
  <2>1. card' \in Cards /\ card'.flag
    <3>1. card \in Cards
      BY DEF ResetInv, QuietMeansCalm
    <3>2. card' = [card EXCEPT !.flag = TRUE, !.calm = 0]
      BY <1>2 DEF UseCard
    <3>3. card' = [flag |-> TRUE, old |-> card.old, reset |-> card.reset, calm |-> 0]
      BY <3>1, <3>2 DEF Cards
    <3> QED BY <3>1, <3>3 DEF Cards
  <2>2. UNCHANGED <<hold, disc, out>>
    BY <1>2 DEF UseCard
  <2> QED BY <2>1, <2>2 DEF ResetInv, Shape, QuietMeansCalm, CardQuiet, SaveAfterQuiet,
                            HeldForDisc
<1>3. CASE DoSync
  BY <1>3, DiscKeeps DEF DoSync
<1>4. CASE DoReset \/ SaveOnExit
  BY <1>4, ResetKeeps DEF DoReset, SaveOnExit
<1>5. CASE DoPowerOff
  BY <1>5 DEF DoPowerOff, ResetInv, Shape, QuietMeansCalm, CardQuiet, SaveAfterQuiet,
              HeldForDisc
<1>6. CASE DoChangeDisc
  BY <1>6, DiscKeeps DEF DoChangeDisc
<1>7. CASE DoLoad \/ MenuLoad
  BY <1>7, DiscKeeps DEF DoLoad, MenuLoad
<1>8. CASE MenuSwap
  BY <1>8, DiscKeeps DEF MenuSwap
<1>9. CASE MenuRestart
  <2>1. CASE disc' = Identified /\ hold' = FALSE
             /\ out' = [out EXCEPT !.filename = FileName(disc')]
    BY <1>9, <2>1 DEF MenuRestart, Identified, ResetInv, Shape, QuietMeansCalm, CardQuiet,
                      SaveAfterQuiet, HeldForDisc
  <2>2. CASE disc' \in Unidentified /\ UNCHANGED <<hold, out>>
    BY <1>9, <2>2, UnidentifiedShape DEF MenuRestart, ResetInv, Shape, QuietMeansCalm,
                      CardQuiet, SaveAfterQuiet, HeldForDisc
  <2> QED BY <1>9, <2>1, <2>2 DEF MenuRestart
<1>10. CASE DoNothing \/ EnterMenu \/ ToggleAutosave \/ LeaveMenu \/ MenuExit
  BY <1>10, OthersKeep DEF DoNothing, EnterMenu, ToggleAutosave, LeaveMenu, MenuExit
<1>11. ASSUME NEW a, Alarm(a) PROVE ResetInv'
  BY <1>11, OthersKeep DEF Alarm
<1>12. CASE UNCHANGED vars
  BY <1>12, OthersKeep DEF vars
<1>13. CASE Run
  BY <1>13, <1>1, <1>2 DEF Run, Frame, OtherEvent, StatusWrite
<1> QED
  BY <1>3, <1>4, <1>5, <1>6, <1>7, <1>8, <1>9, <1>10, <1>11, <1>12, <1>13
     DEF Next, DoAction, Menu

(* However a reset button, the timer, the memory card and a disc change    *)
(* interleave, a reset is held only while the disc is unknown.             *)
THEOREM ResetHeldForDisc == Spec => []HeldForDisc
<1>1. ResetInv => HeldForDisc
  BY DEF ResetInv
<1> QED
  BY <1>1, ResetInit, ResetStep, PTL DEF Spec

(* Every resume point that is left was saved from a memory card that had   *)
(* been left alone for two intervals.                                      *)
THEOREM SavesFromQuietCard == Spec => []SaveAfterQuiet
<1>1. ResetInv => SaveAfterQuiet
  BY DEF ResetInv
<1> QED
  BY <1>1, ResetInit, ResetStep, PTL DEF Spec

-----------------------------------------------------------------------------
(* The ring: until it is full its slots are filled from the first on, then  *)
(* the one filled next is the oldest, and they are ordered from there on.   *)
SlotOf(k) ==
  IF ring.filled < Count THEN k - 1
  ELSE IF ring.last + k - 1 < Count THEN ring.last + k - 1 ELSE ring.last + k - 1 - Count

RingWalk ==
  /\ ring \in Rings
  /\ Len(ring.order) = ring.filled
  /\ ring.filled < Count => ring.last = ring.filled
  /\ \A k \in 1..ring.filled : ring.order[k] = SlotOf(k)

LEMMA CountPositive == Count \in Nat \ {0}
  BY SessionAssumption

LEMMA NextSlot ==
  ASSUME NEW n \in Slots
  PROVE  (n + 1) % Count = IF n + 1 = Count THEN 0 ELSE n + 1
<1>1. Count \in Nat \ {0} /\ n \in Nat /\ n < Count
  BY CountPositive DEF Slots
<1>2. CASE n + 1 = Count
  BY <1>1, <1>2
<1>3. CASE n + 1 # Count
  BY <1>1, <1>3
<1> QED BY <1>2, <1>3

(* The slot written over is the head of the order, or not in it. *)
LEMMA HeadRemoved ==
  ASSUME NEW S, NEW s \in Seq(S), NEW e, s # <<>>, s[1] = e
  PROVE  RemoveFirst(s, e) = Tail(s)
<1>1. Len(s) \in Nat \ {0}
  OBVIOUS
<1> DEFINE I == {i \in 1..Len(s) : s[i] = e}
<1>2. 1 \in I /\ I \subseteq Nat \ {0}
  BY <1>1
<1>3. Min(I) = 1
  <2>1. \A i \in I : 1 =< i
    BY <1>2
  <2>2. \A m \in I : (\A i \in I : m =< i) => m = 1
    BY <1>2, <2>1
  <2> HIDE DEF I
  <2>3. Min(I) \in I /\ \A i \in I : Min(I) =< i
    BY <1>2, <2>1 DEF Min
  <2> QED BY <2>2, <2>3
<1>4. SelectInSeq(s, LAMBDA v : v = e) = 1
  BY <1>2, <1>3 DEF SelectInSeq
<1>5. RemoveFirst(s, e) = SubSeq(s, 1, 0) \o SubSeq(s, 2, Len(s))
  <2>1. \E i \in 1..Len(s) : s[i] = e
    BY <1>1
  <2>2. RemoveFirst(s, e) = RemoveAt(s, SelectInSeq(s, LAMBDA v : v = e))
    BY <2>1 DEF RemoveFirst
  <2>3. RemoveFirst(s, e) = RemoveAt(s, 1)
    BY <1>4, <2>2
  <2> QED BY <2>3 DEF RemoveAt
<1>6. SubSeq(s, 1, 0) = <<>>
  BY SubSeqEmpty
<1>7. SubSeq(s, 2, Len(s)) = Tail(s) /\ Tail(s) \in Seq(S)
  BY TailIsSubSeq, HeadTailProperties
<1> QED BY <1>5, <1>6, <1>7, ConcatEmptySeq

LEMMA AbsentRemoved ==
  ASSUME NEW s, NEW e, \A i \in 1..Len(s) : s[i] # e
  PROVE  RemoveFirst(s, e) = s
  BY DEF RemoveFirst

(* The discs the snapshots are of, the oldest first. *)
Label(k) == ring.stateid[ring.order[k]]
Labelled == \A k \in 1..ring.filled : Label(k) \in Discs

LEMMA EmptyWalk ==
  ASSUME RingWalk, ring' = EmptyRing PROVE RingWalk' /\ Labelled'
<1>1. ring \in Rings /\ 0 \in Slots /\ 0 \in 0..Count
  BY CountPositive DEF RingWalk, Slots
<1>2. ring' = [filled |-> 0, last |-> 0, stateid |-> ring.stateid, order |-> <<>>]
  BY <1>1 DEF EmptyRing, Rings
<1>3. ring' \in Rings
  BY <1>1, <1>2 DEF Rings
<1>4. RingWalk'
  BY <1>2, <1>3 DEF RingWalk
<1> QED BY <1>2, <1>4 DEF Labelled

(* What is taken over when the disc cannot be named is the name before it. *)
Named == IF disc.id # NoDisc THEN disc.id ELSE disc.old

LEMMA SnapshotWalk ==
  ASSUME RingWalk, disc.id \in Files, disc.old \in Discs, Snapshot
  PROVE  /\ RingWalk'
         /\ ring'.filled > 0 /\ ring'.order[1] = OldestAfter
         /\ ring'.stateid = [ring.stateid EXCEPT ![ring.last] = Named]
         /\ \A k \in 1..ring'.filled - 1 :
              /\ ring'.order[k] \in Slots /\ ring'.order[k] # ring.last
              /\ \E j \in 1..ring.filled :
                   /\ ring'.order[k] = ring.order[j]
                   /\ j = IF ring.filled < Count THEN k ELSE k + 1
         /\ ring'.order[ring'.filled] = ring.last
<1> DEFINE f == ring.filled
           f2 == IF f < Count THEN f + 1 ELSE Count
           next == IF ring.last + 1 = Count THEN 0 ELSE ring.last + 1
           kept == RemoveFirst(ring.order, ring.last)
<1>1. /\ Count \in Nat \ {0} /\ f \in 0..Count /\ ring.last \in Nat /\ ring.last < Count
      /\ ring.last \in Slots /\ ring.order \in Seq(Slots) /\ Len(ring.order) = f
      /\ ring.stateid \in [Slots -> Files]
  BY CountPositive DEF RingWalk, Rings, Slots
<1>2. (ring.last + 1) % Count = next
  BY <1>1, NextSlot
<1>3. Named \in Files
  BY DEF Named, Files
<1>4. ring' = [filled |-> f2, last |-> next,
               stateid |-> [ring.stateid EXCEPT ![ring.last] = Named],
               order |-> Append(kept, ring.last)]
  BY <1>2 DEF Snapshot, Named
<1>5. next \in Slots /\ f2 \in 1..Count
  BY <1>1 DEF Slots
<1>8. /\ ring'.filled = f2 /\ ring'.last = next /\ ring'.order = Append(kept, ring.last)
      /\ ring'.stateid = [ring.stateid EXCEPT ![ring.last] = Named]
  BY <1>4
<1>6. CASE f < Count
  <2>1. ring.last = f /\ \A k \in 1..f : ring.order[k] = k - 1
    BY <1>6 DEF RingWalk, SlotOf
  <2>2. kept = ring.order
    <3>1. \A i \in 1..Len(ring.order) : ring.order[i] # ring.last
      BY <1>1, <2>1
    <3> QED BY <3>1, AbsentRemoved
  <2> DEFINE order == Append(ring.order, ring.last)
  <2>3. /\ order \in Seq(Slots) /\ Len(order) = f + 1 /\ order[f + 1] = ring.last
        /\ \A k \in 1..f : order[k] = ring.order[k]
    BY <1>1, AppendProperties
  <2>4. ring'.order = order /\ ring'.filled = f + 1 /\ ring'.last = next
    BY <1>6, <1>8, <2>2
  <2> HIDE DEF order
  <2>5. ring' \in Rings
    BY <1>1, <1>3, <1>4, <1>5, <2>2, <2>3 DEF Rings, order
  <2>6. ASSUME NEW k \in 1..f + 1 PROVE order[k] = k - 1
    <3>1. CASE k = f + 1
      BY <1>1, <2>1, <2>3, <3>1
    <3>2. CASE k \in 1..f
      BY <2>1, <2>3, <3>2
    <3> QED BY <1>1, <3>1, <3>2
  <2>7. f + 1 < Count => next = f + 1
    BY <1>1, <2>1
  <2>8. f + 1 = Count => next = 0
    BY <1>1, <2>1
  <2>9. \A k \in 1..f + 1 : k - 1 = SlotOf(k)'
    BY <1>1, <1>6, <2>4, <2>7, <2>8 DEF SlotOf
  <2>10. RingWalk'
    BY <1>1, <2>3, <2>4, <2>5, <2>6, <2>7, <2>9 DEF RingWalk
  <2>11. order[1] = OldestAfter
    <3>1. order[1] = 0
      BY <1>1, <2>6
    <3>2. f < Count - 1 \/ next = 0
      BY <1>1, <1>6, <2>8
    <3> QED BY <1>2, <3>1, <3>2 DEF OldestAfter
  <2>12. ASSUME NEW k \in 1..f
         PROVE  order[k] \in Slots /\ order[k] # ring.last /\ order[k] = ring.order[k]
    <3>1. ring.order[k] = k - 1 /\ order[k] = ring.order[k] /\ k - 1 # f
      BY <1>1, <2>1, <2>3
    <3> QED BY <1>1, <2>1, <3>1 DEF Slots
  <2>13. ring'.filled - 1 = f /\ 1..f = 1..ring'.filled - 1
    BY <1>1, <2>4
  <2>14. \A k \in 1..ring'.filled - 1 :
           /\ ring'.order[k] \in Slots /\ ring'.order[k] # ring.last
           /\ \E j \in 1..f :
                ring'.order[k] = ring.order[j] /\ j = IF f < Count THEN k ELSE k + 1
    BY <1>6, <2>4, <2>12, <2>13
  <2>15. ring'.filled > 0 /\ ring'.order[ring'.filled] = ring.last
    BY <1>1, <2>3, <2>4
  <2> QED BY <1>8, <2>4, <2>10, <2>11, <2>14, <2>15
<1>7. CASE f = Count
  <2>1. \A k \in 1..Count : ring.order[k] = IF ring.last + k - 1 < Count THEN ring.last + k - 1
                                            ELSE ring.last + k - 1 - Count
    BY <1>7 DEF RingWalk, SlotOf
  <2>2. ring.order # <<>> /\ ring.order[1] = ring.last
    BY <1>1, <1>7, <2>1
  <2>3. kept = Tail(ring.order)
    BY <1>1, <2>2, HeadRemoved
  <2>4. /\ kept \in Seq(Slots) /\ Len(kept) = Count - 1
        /\ \A k \in 1..Count - 1 : kept[k] = ring.order[k + 1]
    BY <1>1, <1>7, <2>2, <2>3, HeadTailProperties
  <2> HIDE DEF kept
  <2> DEFINE order == Append(kept, ring.last)
  <2>5. /\ order \in Seq(Slots) /\ Len(order) = Count /\ order[Count] = ring.last
        /\ \A k \in 1..Count - 1 : order[k] = kept[k]
    BY <1>1, <2>4, AppendProperties
  <2>6. ring'.order = order /\ ring'.filled = Count /\ ring'.last = next
    BY <1>1, <1>7, <1>8
  <2> HIDE DEF order
  <2>7. ring' \in Rings
    BY <1>1, <1>3, <1>4, <1>5, <2>5 DEF Rings, order
  <2>8. \A k \in 1..Count - 1 : order[k] = ring.order[k + 1]
    BY <2>4, <2>5
  <2>9. \A k \in 1..Count : order[k] = IF next + k - 1 < Count THEN next + k - 1
                                       ELSE next + k - 1 - Count
    <3>1. ASSUME NEW k \in 1..Count - 1
          PROVE order[k] = IF next + k - 1 < Count THEN next + k - 1 ELSE next + k - 1 - Count
      <4>1. order[k] = ring.order[k + 1] /\ k + 1 \in 1..Count
        BY <1>1, <2>8
      <4>2. ring.order[k + 1] = IF ring.last + k < Count THEN ring.last + k
                                ELSE ring.last + k - Count
        BY <1>1, <2>1, <4>1
      <4>3. CASE ring.last + 1 = Count
        <5>1. next = 0 /\ order[k] = ring.last + k - Count
          BY <1>1, <4>1, <4>2, <4>3
        <5> QED BY <1>1, <4>3, <5>1
      <4>4. CASE ring.last + 1 # Count
        <5>1. next = ring.last + 1
          BY <4>4
        <5> QED BY <1>1, <4>1, <4>2, <5>1
      <4> QED BY <4>3, <4>4
    <3>2. order[Count] = IF next + Count - 1 < Count THEN next + Count - 1
                         ELSE next + Count - 1 - Count
      BY <1>1, <2>5
    <3> QED BY <1>1, <3>1, <3>2
  <2>10. RingWalk'
    BY <1>1, <2>5, <2>6, <2>7, <2>9 DEF RingWalk, SlotOf
  <2>11. order[1] = OldestAfter
    <3>1. order[1] = next
      BY <1>1, <1>5, <2>9 DEF Slots
    <3> QED BY <1>1, <1>2, <1>7, <3>1 DEF OldestAfter
  <2>12. ASSUME NEW k \in 1..Count - 1
         PROVE  /\ order[k] \in Slots /\ order[k] # ring.last
                /\ order[k] = ring.order[k + 1] /\ k + 1 \in 1..Count
    <3>1. order[k] = ring.order[k + 1] /\ k + 1 \in 1..Count
      BY <1>1, <2>8
    <3> DEFINE o == IF ring.last + k < Count THEN ring.last + k ELSE ring.last + k - Count
    <3>2. ring.order[k + 1] = o
      <4>1. ring.order[k + 1] = IF ring.last + (k + 1) - 1 < Count THEN ring.last + (k + 1) - 1
                                ELSE ring.last + (k + 1) - 1 - Count
        BY <2>1, <3>1
      <4>2. ring.last + (k + 1) - 1 = ring.last + k
        BY <1>1
      <4> QED BY <4>1, <4>2
    <3>3. o \in Slots /\ o # ring.last
      BY <1>1 DEF Slots
    <3> HIDE DEF o
    <3> QED BY <3>1, <3>2, <3>3
  <2>13. \A k \in 1..ring'.filled - 1 :
           /\ ring'.order[k] \in Slots /\ ring'.order[k] # ring.last
           /\ \E j \in 1..f :
                ring'.order[k] = ring.order[j] /\ j = IF f < Count THEN k ELSE k + 1
    BY <1>1, <1>7, <2>6, <2>12
  <2>14. ring'.filled > 0 /\ ring'.order[ring'.filled] = ring.last
    BY <1>1, <2>5, <2>6
  <2> QED BY <1>8, <2>6, <2>10, <2>11, <2>13, <2>14
<1> QED BY <1>1, <1>6, <1>7

-----------------------------------------------------------------------------
(* Types, and with them the ring. *)
SlotType == [action : Actions, old : Actions, stop : BOOLEAN]
DiscType == [inserted : Discs, id : Files, old : Discs, unknown : BOOLEAN, lid : BOOLEAN]
AutoType == [on : BOOLEAN, buf : {"not", "yes", "off"}, blocking : 0..Blocking,
             resume_play : BOOLEAN, sync : BOOLEAN]

SessInv == TypeOK /\ ResetInv /\ RingWalk /\ Labelled

LEMMA PlayerIs ==
  ASSUME player \in Players
  PROVE  /\ player.discs \subseteq Discs /\ player.keys \cup {"none"} \subseteq Actions
         /\ player.alarms \subseteq {"power", "hot"}
  BY SessionAssumption DEF Actions

LEMMA SetActionTyped ==
  ASSUME NEW s \in SlotType, NEW a \in Actions
  PROVE  SetAction(s, a) \in SlotType
<1> DEFINE old == IF a = "none" THEN "none" ELSE s.old
           stop == s.stop \/ (a # "none" /\ a # s.old)
<1>1. SetAction(s, a) = [action |-> a, old |-> old, stop |-> stop]
  BY DEF SetAction
<1>2. old \in Actions /\ stop \in BOOLEAN
  BY DEF SlotType, Actions
<1> HIDE DEF old, stop
<1> QED BY <1>1, <1>2 DEF SlotType

LEMMA UpdateInputTyped ==
  ASSUME slot \in SlotType, NEW key \in Actions
  PROVE  UpdateInput(slot, key) \in SlotType
<1>1. {"sync", "power_off", "reset"} \subseteq Actions
  BY DEF Actions
<1> DEFINE pressed == SetAction(slot, key)
           synced == When(auto.sync /\ key # "cd_change", pressed, "sync")
           powered == When("power" \in alarms, synced, "power_off")
<1>2. pressed \in SlotType
  BY SetActionTyped
<1> HIDE DEF pressed
<1>3. synced \in SlotType
  BY <1>1, <1>2, SetActionTyped DEF When
<1> HIDE DEF synced
<1>4. powered \in SlotType
  BY <1>1, <1>3, SetActionTyped DEF When
<1> HIDE DEF powered
<1>5. When("hot" \in alarms, powered, "reset") \in SlotType
  BY <1>1, <1>4, SetActionTyped DEF When
<1> QED BY <1>5 DEF UpdateInput, powered, synced, pressed

LEMMA WalkKept ==
  ASSUME RingWalk, Labelled, ring' = ring PROVE RingWalk' /\ Labelled'
  BY DEF RingWalk, SlotOf, Labelled, Label

LEMMA SyncTyped ==
  ASSUME TypeOK, RingWalk, Labelled,
         NEW s \in SlotType, NEW elapsed \in BOOLEAN, SyncState(s, elapsed)
  PROVE  RingWalk' /\ Labelled' /\ auto' \in AutoType /\ slot' \in SlotType
<1>1. ring' = EmptyRing \/ ring' = ring
  BY DEF SyncState
<1>2. RingWalk' /\ Labelled'
  BY <1>1, WalkKept, EmptyWalk
<1>3. auto \in AutoType /\ Blocking \in Nat
  BY SessionAssumption DEF TypeOK, AutoType
<1> DEFINE buf == IF auto.on THEN "yes" ELSE IF auto.buf = "yes" THEN "off" ELSE auto.buf
           blocking == IF elapsed /\ Blocked THEN auto.blocking + 1 ELSE auto.blocking
           sync == auto.sync \/ (elapsed /\ auto.on /\ ~Blocked /\ ~card.flag)
<1>4. auto' = [auto EXCEPT !.buf = buf, !.blocking = blocking, !.sync = sync]
  BY DEF SyncState
<1>5. buf \in {"not", "yes", "off"} /\ blocking \in 0..Blocking /\ sync \in BOOLEAN
  <2>1. buf \in {"not", "yes", "off"} /\ sync \in BOOLEAN
    BY <1>3 DEF AutoType
  <2>2. blocking \in 0..Blocking
    BY <1>3 DEF AutoType, Blocked
  <2> QED BY <2>1, <2>2
<1> HIDE DEF buf, blocking, sync
<1>6. auto' \in AutoType
  BY <1>3, <1>4, <1>5 DEF AutoType
<1>7. slot' \in SlotType
  <2>1. slot' = s \/ slot' = SetAction(s, "reset")
    BY DEF SyncState, When
  <2> QED BY <2>1, SetActionTyped DEF Actions
<1> QED BY <1>2, <1>6, <1>7

LEMMA LidTyped ==
  ASSUME TypeOK, NEW s, NEW t, LidEvent(s, t)
  PROVE  disc' \in DiscType /\ hold' \in BOOLEAN
<1>1. disc \in DiscType /\ hold \in BOOLEAN /\ auto.on \in BOOLEAN
  BY DEF TypeOK, DiscType
<1>2. Identified \in DiscType
  BY <1>1 DEF Identified, DiscType, Files
<1>3. Unidentified \subseteq DiscType
  BY <1>1 DEF Unidentified, DiscType, Files
<1> QED BY <1>1, <1>2, <1>3 DEF LidEvent

LEMMA PointTyped ==
  ASSUME TypeOK
  PROVE  Point \in Points /\ FileName(disc) \in Files
<1>1. disc \in DiscType /\ out.filename \in Files /\ card \in Cards /\ ring \in Rings
  BY DEF TypeOK, DiscType
<1>2. disc.id \in Files /\ disc.old \in Discs /\ disc.old \in Files /\ card.calm \in 0..2
      /\ (disc.id # NoDisc => disc.id \in Discs)
  BY <1>1 DEF DiscType, Cards, Files
<1>3. PointName \in Discs
  BY <1>2 DEF PointName
<1>4. OldIndex \in Slots
  BY <1>1, CountPositive DEF OldIndex, Rings, Slots
<1>5. ring.stateid[OldIndex] \in Files
  BY <1>1, <1>4 DEF Rings
<1>6. Point \in Points
  <2> DEFINE content == IF auto.on THEN ring.stateid[OldIndex] ELSE disc.id
  <2>1. content \in Files
    BY <1>2, <1>5
  <2>2. Point = [name |-> PointName, calm |-> card.calm, content |-> content]
    BY DEF Point
  <2> HIDE DEF content
  <2> QED BY <1>2, <1>3, <2>1, <2>2 DEF Points
<1> QED BY <1>1, <1>2, <1>6 DEF FileName

LEMMA ResetTyped ==
  ASSUME TypeOK, Shape, ResetEvent
  PROVE  /\ hold' \in BOOLEAN /\ quit' \in BOOLEAN
         /\ out'.filename \in Files /\ out'.point \subseteq Points
<1>1. hold \in BOOLEAN /\ quit \in BOOLEAN /\ out.filename \in Files /\ out.point \subseteq Points
      /\ NoDisc \in Files /\ auto.on \in BOOLEAN /\ disc.unknown \in BOOLEAN
  BY DEF TypeOK, Files
<1>2. hold' \in BOOLEAN
  BY <1>1 DEF ResetEvent
<1>3. quit' \in BOOLEAN
  BY <1>1 DEF ResetEvent
<1>4. out' = out \/ out' = [filename |-> FileName(disc), point |-> {Point}]
      \/ out' = [out EXCEPT !.filename = NoDisc]
  BY DEF ResetEvent
<1>5. Point \in Points /\ FileName(disc) \in Files
  BY PointTyped
<1>6. CASE out' = out
  BY <1>1, <1>2, <1>3, <1>6
<1>7. CASE out' = [filename |-> FileName(disc), point |-> {Point}]
  BY <1>2, <1>3, <1>5, <1>7
<1>8. CASE out' = [out EXCEPT !.filename = NoDisc]
  <2>1. out = [filename |-> out.filename, point |-> out.point]
    BY DEF Shape
  <2>2. out'.filename = NoDisc /\ out'.point = out.point
    BY <1>8, <2>1
  <2> QED BY <1>1, <1>2, <1>3, <2>2
<1> QED BY <1>4, <1>6, <1>7, <1>8

LEMMA SnapshotLabels ==
  ASSUME RingWalk, disc.id \in Files, disc.old \in Discs, Snapshot
  PROVE  /\ ring'.filled > 0 /\ \A k : k = ring'.filled => Label(k)' = Named
         /\ \A k \in 1..ring'.filled - 1 :
              \E j \in 1..ring.filled :
                Label(k)' = Label(j) /\ j = IF ring.filled < Count THEN k ELSE k + 1
         /\ disc' = [disc EXCEPT !.old = IF Label(1)' = disc.id THEN disc.id ELSE disc.old]
<1>1. /\ ring'.filled > 0 /\ ring'.order[1] = OldestAfter
      /\ ring'.stateid = [ring.stateid EXCEPT ![ring.last] = Named]
      /\ ring'.order[ring'.filled] = ring.last
  BY SnapshotWalk
<1>2. ring.last \in Slots /\ ring.stateid \in [Slots -> Files]
  BY DEF RingWalk, Rings
<1>3. \A k : k = ring'.filled => Label(k)' = Named
  BY <1>1, <1>2 DEF Label
<1>4. ASSUME NEW k \in 1..ring'.filled - 1
      PROVE  \E j \in 1..ring.filled :
                Label(k)' = Label(j) /\ j = IF ring.filled < Count THEN k ELSE k + 1
  <2>1. ring'.order[k] \in Slots /\ ring'.order[k] # ring.last
    BY SnapshotWalk
  <2>2. PICK j \in 1..ring.filled :
               /\ ring'.order[k] = ring.order[j]
               /\ j = IF ring.filled < Count THEN k ELSE k + 1
    BY SnapshotWalk
  <2>3. Label(k)' = Label(j)
    BY <1>1, <1>2, <2>1, <2>2 DEF Label
  <2> QED BY <2>2, <2>3
<1>5. disc' = [disc EXCEPT !.old = IF Label(1)' = disc.id THEN disc.id ELSE disc.old]
  <2>1. disc' = [disc EXCEPT !.old = IF [ring.stateid EXCEPT ![ring.last] = Named][OldestAfter]
                                        = disc.id THEN disc.id ELSE disc.old]
    BY DEF Snapshot, Named
  <2> QED BY <1>1, <2>1 DEF Label
<1> QED BY <1>1, <1>3, <1>4, <1>5

LEMMA SnapshotTyped ==
  ASSUME disc \in DiscType, RingWalk, Labelled, Snapshot
  PROVE  RingWalk' /\ Labelled' /\ disc' \in DiscType
<1>1. disc.id \in Files /\ disc.old \in Discs /\ Named \in Discs /\ ring.filled \in Nat
  BY DEF DiscType, Named, Files, RingWalk, Rings
<1>2. RingWalk' /\ ring'.filled \in Nat
  <2>1. RingWalk'
    BY <1>1, SnapshotWalk
  <2> QED BY <2>1 DEF RingWalk, Rings
<1>3. Labelled'
  <2> SUFFICES ASSUME NEW k \in 1..ring'.filled PROVE Label(k)' \in Discs
    BY DEF Labelled
  <2>1. CASE k = ring'.filled
    BY <1>1, <2>1, SnapshotLabels
  <2>2. CASE k \in 1..ring'.filled - 1
    <3>1. PICK j \in 1..ring.filled : Label(k)' = Label(j)
      BY <1>1, <2>2, SnapshotLabels
    <3> QED BY <3>1 DEF Labelled
  <2> QED BY <1>2, <2>1, <2>2
<1>4. Label(1)' \in Discs
  <2>1. 1 \in 1..ring'.filled
    BY <1>1, <1>2, SnapshotLabels
  <2> QED BY <1>3, <2>1 DEF Labelled
<1>5. disc' = [disc EXCEPT !.old = IF Label(1)' = disc.id THEN disc.id ELSE disc.old]
  BY <1>1, SnapshotLabels
<1>6. disc' \in DiscType
  BY <1>1, <1>4, <1>5 DEF DiscType
<1> QED BY <1>2, <1>3, <1>6

LEMMA SessInit == Init => SessInv
<1> SUFFICES ASSUME Init PROVE SessInv
  OBVIOUS
<1>1. PICK d \in player.discs, on \in BOOLEAN, resumed \in BOOLEAN :
        /\ pc = "run" /\ quit = FALSE /\ hold = FALSE /\ alarms = {}
        /\ slot = [action |-> "none", old |-> "none", stop |-> FALSE]
        /\ card = [flag |-> FALSE, old |-> FALSE, reset |-> FALSE, calm |-> 2]
        /\ disc = [inserted |-> d, id |-> d, old |-> d, unknown |-> FALSE, lid |-> FALSE]
        /\ auto = [on |-> on, buf |-> "not", blocking |-> 0, resume_play |-> resumed,
                   sync |-> FALSE]
        /\ ring = [filled |-> 0, last |-> 0, stateid |-> [i \in Slots |-> NoDisc],
                   order |-> <<>>]
        /\ out = [filename |-> IF player.exitdir THEN NoDisc ELSE d, point |-> {}]
  BY DEF Init
<1>2. player \in Players /\ d \in Discs
  BY <1>1, PlayerIs DEF Init
<1>3. 0 \in Slots /\ 0 \in 0..Count /\ 0 \in 0..Blocking
  BY CountPositive, SessionAssumption DEF Slots
<1>4. ring \in Rings
  BY <1>1, <1>3 DEF Rings, Files
<1>5. RingWalk /\ Labelled
  BY <1>1, <1>4 DEF RingWalk, Labelled
<1>6. card \in Cards
  BY <1>1 DEF Cards
<1>7. /\ slot \in SlotType /\ disc \in DiscType /\ auto \in AutoType
      /\ out.filename \in Files /\ out.point \subseteq Points
  BY <1>1, <1>2, <1>3 DEF SlotType, DiscType, AutoType, Actions, Files
<1>8. TypeOK
  BY <1>1, <1>2, <1>4, <1>6, <1>7 DEF TypeOK, SlotType, DiscType, AutoType
<1> QED BY <1>5, <1>8, ResetInit DEF SessInv

(* What the types of a step come to, once the ring and the card are settled. *)
LEMMA TypesTogether ==
  ASSUME TypeOK, ResetInv', RingWalk', UNCHANGED player,
         pc' \in {"run", "left", "menu", "exit", "done"},
         slot' \in SlotType, quit' \in BOOLEAN, hold' \in BOOLEAN,
         disc' \in DiscType, auto' \in AutoType, alarms' \subseteq player.alarms,
         out'.filename \in Files, out'.point \subseteq Points
  PROVE  TypeOK'
<1>1. card' \in Cards /\ ring' \in Rings
  BY DEF ResetInv, QuietMeansCalm, RingWalk
<1>2. player' \in Players
  BY DEF TypeOK
<1> QED BY <1>1, <1>2 DEF TypeOK, SlotType, DiscType, AutoType

(* Loading a state, and what the player does with the disc, keep types and ring. *)
LEMMA LoadTyped ==
  ASSUME SessInv, LoadState
  PROVE  RingWalk' /\ Labelled' /\ disc' \in DiscType /\ auto' \in AutoType
<1>1. ring' = EmptyRing \/ ring' = ring
  BY DEF LoadState
<1>2. RingWalk' /\ Labelled'
  BY <1>1, WalkKept, EmptyWalk DEF SessInv
<1>3. disc \in DiscType /\ auto \in AutoType
  BY DEF SessInv, TypeOK, DiscType, AutoType
<1>4. disc' \in DiscType
  BY <1>3 DEF LoadState, DiscType
<1>5. auto' \in AutoType
  BY <1>3 DEF LoadState, AutoType
<1> QED BY <1>2, <1>4, <1>5

LEMMA SwapTyped ==
  ASSUME SessInv, NEW opened \in BOOLEAN, SwapImage(opened) \/ NextDisc(opened)
  PROVE  disc' \in DiscType
<1>1. disc \in DiscType /\ player.discs \subseteq Discs /\ NoDisc \in Files
  BY PlayerIs DEF SessInv, TypeOK, DiscType, Files
<1>2. disc.lid \in BOOLEAN /\ (disc.lid \/ opened) \in BOOLEAN
  BY <1>1 DEF DiscType
<1>3. CASE SwapImage(opened)
  BY <1>1, <1>2, <1>3 DEF SwapImage, DiscType
<1>4. CASE NextDisc(opened)
  BY <1>1, <1>2, <1>4 DEF NextDisc, DiscType
<1> QED BY <1>3, <1>4

(* The action that was pending ends, or the frontend leaves the menu. *)
LEMMA ReturnTyped ==
  ASSUME slot \in SlotType, quit' \in BOOLEAN, Return \/ Resume
  PROVE  pc' \in {"run", "exit"} /\ slot' \in SlotType
<1>1. CASE Return
  <2> DEFINE action == IF quit' THEN slot.action ELSE "none"
  <2>1. slot' = [action |-> action, old |-> slot.action, stop |-> quit']
    BY <1>1 DEF Return
  <2>2. action \in Actions /\ slot.action \in Actions
    BY DEF SlotType, Actions
  <2> HIDE DEF action
  <2> QED BY <1>1, <2>1, <2>2 DEF Return, SlotType
<1>2. CASE Resume
  BY <1>2 DEF Resume, SlotType, Actions
<1> QED BY <1>1, <1>2

LEMMA SessStep == SessInv /\ [Next]_vars => SessInv'
<1> SUFFICES ASSUME SessInv, [Next]_vars PROVE SessInv'
  OBVIOUS
<1> USE DEF SessInv
<1>0. ResetInv'
  BY ResetStep
<1>t. /\ slot \in SlotType /\ disc \in DiscType /\ auto \in AutoType
      /\ player \in Players /\ alarms \subseteq player.alarms
      /\ quit \in BOOLEAN /\ hold \in BOOLEAN
      /\ pc \in {"run", "left", "menu", "exit", "done"}
      /\ out.filename \in Files /\ out.point \subseteq Points
  BY DEF TypeOK, SlotType, DiscType, AutoType
<1>o. /\ slot.action \in Actions /\ slot.old \in Actions /\ slot.stop \in BOOLEAN
      /\ NoDisc \in Files
      /\ out = [filename |-> out.filename, point |-> out.point]
  BY <1>t DEF SlotType, ResetInv, Shape, Files
<1>1. ASSUME NEW vblank \in BOOLEAN, NEW key \in player.keys \cup {"none"},
             NEW elapsed \in BOOLEAN, NEW tested \in BOOLEAN,
             IrqTest(vblank, key, elapsed, tested)
      PROVE  SessInv'
  <2> DEFINE s == IF vblank THEN UpdateInput(slot, key) ELSE slot
  <2>1. PICK t \in {s, SetAction(s, "reset")} : LidEvent(s, t) /\ SyncState(t, elapsed)
    BY <1>1 DEF IrqTest
  <2>2. s \in SlotType
    <3>1. key \in Actions
      BY <1>t, PlayerIs
    <3> QED BY <1>t, <3>1, UpdateInputTyped
  <2> HIDE DEF s
  <2>3. t \in SlotType
    BY <2>1, <2>2, SetActionTyped DEF Actions
  <2>4. RingWalk' /\ Labelled' /\ auto' \in AutoType /\ slot' \in SlotType
    BY <2>1, <2>3, SyncTyped
  <2>5. disc' \in DiscType /\ hold' \in BOOLEAN
    BY <2>1, LidTyped
  <2>6. UNCHANGED <<player, quit, alarms, out>> /\ pc' \in {"run", "left"}
    BY <1>1 DEF IrqTest
  <2>7. TypeOK'
    BY <1>0, <1>t, <2>4, <2>5, <2>6, TypesTogether
  <2> QED BY <1>0, <2>4, <2>7
<1>2. ASSUME UNCHANGED <<player, disc, ring, alarms>>, slot' \in SlotType,
             auto' \in AutoType, quit' \in BOOLEAN, hold' \in BOOLEAN,
             out'.filename \in Files, out'.point \subseteq Points,
             pc' \in {"run", "left", "menu", "exit", "done"}
      PROVE  SessInv'
  <2>1. RingWalk' /\ Labelled'
    BY <1>2, WalkKept
  <2>2. TypeOK'
    BY <1>0, <1>2, <1>t, <2>1, TypesTogether
  <2> QED BY <1>0, <2>1, <2>2
<1>3. ASSUME UNCHANGED <<player, auto, ring, alarms, quit, out>>, hold' = hold,
             slot' \in SlotType, disc' \in DiscType,
             pc' \in {"run", "left", "menu", "exit", "done"}
      PROVE  SessInv'
  <2>1. RingWalk' /\ Labelled'
    BY <1>3, WalkKept
  <2>2. TypeOK'
    BY <1>0, <1>3, <1>t, <2>1, TypesTogether
  <2> QED BY <1>0, <2>1, <2>2
<1>4. CASE UseCard
  BY <1>2, <1>4, <1>t DEF UseCard
<1>5. CASE DoNothing
  <2>1. slot' \in SlotType
    BY <1>5, <1>o DEF DoNothing, SlotType, Actions
  <2> QED BY <1>2, <1>5, <1>t, <2>1 DEF DoNothing
<1>6. CASE DoSync
  <2>1. RingWalk' /\ Labelled' /\ disc' \in DiscType
    BY <1>6, <1>t, SnapshotTyped DEF DoSync
  <2>2. UNCHANGED <<player, quit, card, hold, alarms, out>> /\ Return
        /\ auto' = [auto EXCEPT !.sync = FALSE]
    BY <1>6 DEF DoSync
  <2>3. auto' \in AutoType
    BY <1>t, <2>2 DEF AutoType
  <2>4. pc' \in {"run", "exit"} /\ slot' \in SlotType
    BY <1>t, <2>2, ReturnTyped
  <2>5. TypeOK'
    BY <1>0, <1>t, <2>1, <2>2, <2>3, <2>4, TypesTogether
  <2> QED BY <1>0, <2>1, <2>5
<1>7. CASE DoReset
  <2>1. ResetEvent /\ UNCHANGED <<player, disc, auto, ring, alarms>> /\ Return
    BY <1>7 DEF DoReset
  <2>2. /\ hold' \in BOOLEAN /\ quit' \in BOOLEAN
        /\ out'.filename \in Files /\ out'.point \subseteq Points
    BY <2>1, ResetTyped DEF ResetInv
  <2>3. pc' \in {"run", "exit"} /\ slot' \in SlotType
    BY <1>t, <2>1, <2>2, ReturnTyped
  <2> QED BY <1>2, <1>t, <2>1, <2>2, <2>3
<1>8. CASE SaveOnExit
  <2>1. /\ ResetEvent /\ UNCHANGED <<player, disc, auto, ring, alarms>>
        /\ pc' = "done" /\ slot' = [slot EXCEPT !.action = "reset", !.old = "reset"]
    BY <1>8 DEF SaveOnExit
  <2>2. /\ hold' \in BOOLEAN /\ quit' \in BOOLEAN
        /\ out'.filename \in Files /\ out'.point \subseteq Points
    BY <2>1, ResetTyped DEF ResetInv
  <2>3. slot' \in SlotType
    BY <1>t, <2>1 DEF SlotType, Actions
  <2> QED BY <1>2, <1>t, <2>1, <2>2, <2>3
<1>9. CASE DoPowerOff
  <2>1. /\ quit' = TRUE /\ out' = [out EXCEPT !.filename = NoDisc] /\ Return
        /\ UNCHANGED <<player, card, hold, disc, auto, ring, alarms>>
    BY <1>9 DEF DoPowerOff
  <2>2. out'.filename = NoDisc /\ out'.point = out.point
    BY <1>o, <2>1
  <2>3. pc' \in {"run", "exit"} /\ slot' \in SlotType
    BY <1>t, <2>1, ReturnTyped
  <2> QED BY <1>2, <1>o, <1>t, <2>1, <2>2, <2>3
<1>10. CASE DoChangeDisc
  <2>1. PICK opened \in BOOLEAN : SwapImage(opened)
    BY <1>10 DEF DoChangeDisc
  <2>2. UNCHANGED <<player, quit, card, hold, auto, ring, alarms, out>> /\ Return
    BY <1>10 DEF DoChangeDisc
  <2>3. disc' \in DiscType
    BY <2>1, SwapTyped
  <2>4. pc' \in {"run", "exit"} /\ slot' \in SlotType
    BY <1>t, <2>2, ReturnTyped
  <2> QED BY <1>3, <2>2, <2>3, <2>4
<1>11. CASE DoLoad \/ MenuLoad
  <2>1. LoadState /\ UNCHANGED <<player, quit, card, hold, alarms, out>> /\ (Return \/ Resume)
    BY <1>11 DEF DoLoad, MenuLoad
  <2>2. RingWalk' /\ Labelled' /\ disc' \in DiscType /\ auto' \in AutoType
    BY <2>1, LoadTyped
  <2>3. pc' \in {"run", "exit"} /\ slot' \in SlotType
    BY <1>t, <2>1, ReturnTyped
  <2>4. TypeOK'
    BY <1>0, <1>t, <2>1, <2>2, <2>3, TypesTogether
  <2> QED BY <1>0, <2>2, <2>4
<1>12. CASE EnterMenu
  <2>1. slot' \in SlotType
    BY <1>12, <1>t DEF EnterMenu, SlotType
  <2> QED BY <1>2, <1>12, <1>t, <2>1 DEF EnterMenu
<1>13. CASE ToggleAutosave
  <2>1. auto' \in AutoType
    BY <1>13, <1>t DEF ToggleAutosave, AutoType
  <2> QED BY <1>2, <1>13, <1>t, <2>1 DEF ToggleAutosave
<1>14. CASE MenuSwap
  <2>1. /\ UNCHANGED <<player, quit, card, hold, auto, ring, alarms, out>>
        /\ Resume \/ UNCHANGED <<pc, slot>>
        /\ \E opened \in BOOLEAN : SwapImage(opened) \/ NextDisc(opened)
    BY <1>14 DEF MenuSwap
  <2>2. disc' \in DiscType
    BY <2>1, SwapTyped
  <2>3. pc' \in {"run", "left", "menu", "exit", "done"} /\ slot' \in SlotType
    BY <1>t, <2>1, ReturnTyped
  <2> QED BY <1>3, <2>1, <2>2, <2>3
<1>15. CASE MenuRestart
  <2>1. Resume /\ UNCHANGED <<player, quit, card, auto, ring, alarms>>
    BY <1>15 DEF MenuRestart
  <2>2. disc' \in DiscType /\ hold' \in BOOLEAN
    <3>1. Identified \in DiscType /\ Unidentified \subseteq DiscType
      BY <1>t DEF Identified, Unidentified, DiscType, Files, AutoType
    <3> QED BY <1>15, <1>t, <3>1 DEF MenuRestart
  <2>3. out'.filename \in Files /\ out'.point \subseteq Points
    <3>1. CASE out' = [out EXCEPT !.filename = FileName(disc')]
      <4>1. FileName(disc') \in Files
        BY <1>t, <2>2 DEF FileName, DiscType, Files
      <4> QED BY <1>o, <1>t, <3>1, <4>1
    <3> QED BY <1>15, <1>t, <3>1 DEF MenuRestart
  <2>4. pc' \in {"run", "exit"} /\ slot' \in SlotType
    BY <1>t, <2>1, ReturnTyped
  <2>5. RingWalk' /\ Labelled'
    BY <2>1, WalkKept
  <2>6. TypeOK'
    BY <1>0, <1>t, <2>1, <2>2, <2>3, <2>4, <2>5, TypesTogether
  <2> QED BY <1>0, <2>5, <2>6
<1>16. CASE LeaveMenu
  <2>1. pc' \in {"run", "exit"} /\ slot' \in SlotType
    BY <1>16, <1>t, ReturnTyped DEF LeaveMenu
  <2> QED BY <1>2, <1>16, <1>t, <2>1 DEF LeaveMenu
<1>17. CASE MenuExit
  <2>1. slot' \in SlotType
    BY <1>17, <1>t DEF MenuExit, SlotType
  <2> QED BY <1>2, <1>17, <1>t, <2>1 DEF MenuExit
<1>18. ASSUME NEW a \in player.alarms, Alarm(a) PROVE SessInv'
  <2>1. /\ UNCHANGED <<player, pc, slot, quit, card, hold, disc, auto, ring, out>>
        /\ alarms' = alarms \cup {a}
    BY <1>18 DEF Alarm
  <2>2. RingWalk' /\ Labelled'
    BY <2>1, WalkKept
  <2>3. TypeOK'
    BY <1>0, <1>t, <2>1, <2>2, TypesTogether
  <2> QED BY <1>0, <2>2, <2>3
<1>19. CASE UNCHANGED vars
  BY <1>2, <1>19, <1>t DEF vars
<1>20. CASE Run
  BY <1>1, <1>4, <1>20 DEF Run, KeyOrNone, Frame, OtherEvent, StatusWrite
<1> QED
  BY <1>5, <1>6, <1>7, <1>8, <1>9, <1>10, <1>11, <1>12, <1>13, <1>14, <1>15, <1>16, <1>17,
     <1>18, <1>19, <1>20 DEF Next, DoAction, Menu

(* Every variable of the session stays what it is meant to be: the flags of *)
(* the ring, the timer's counts and the pending action above all.           *)
THEOREM SessionTypeOK == Spec => []TypeOK
<1>1. SessInv => TypeOK
  BY DEF SessInv
<1> QED
  BY <1>1, SessInit, SessStep, PTL DEF Spec

LEMMA OldestIsFirst ==
  ASSUME SessInv, ring.filled > 0
  PROVE  OldIndex = ring.order[1]
<1>1. /\ ring.filled \in 0..Count /\ ring.last \in Slots
      /\ \A k \in 1..ring.filled : ring.order[k] = SlotOf(k)
  BY DEF SessInv, RingWalk, Rings
<1>2. ring.order[1] = SlotOf(1)
  BY <1>1
<1> QED BY <1>1, <1>2, CountPositive DEF SlotOf, OldIndex, Slots

(* The slot SaveStateWork takes is the oldest snapshot, for every length of *)
(* the ring.                                                               *)
THEOREM OldestIsServed == Spec => []OldestServed
<1>1. ASSUME SessInv PROVE OldestServed
  <2>1. ring.order \in Seq(Slots) /\ Len(ring.order) = ring.filled
    BY <1>1 DEF SessInv, RingWalk, Rings
  <2> QED BY <1>1, <2>1, OldestIsFirst DEF OldestServed
<1> QED
  BY <1>1, SessInit, SessStep, PTL DEF Spec

-----------------------------------------------------------------------------
(* What filename.txt says with AB_EXIT_DIR, for players who change discs   *)
(* only once the ring holds one disc, and who leave autosave, "next disc"  *)
(* and "reset game" alone.                                                 *)
ExitPlayersWait ==
  \A p \in Players : p.exitdir => p.patient /\ p.menu \cap {"autosave", "next", "restart"} = {}

(* With autosave on the ring turns from one disc to the next: what has been *)
(* taken of the disc in the drive comes last, and the _old disc is that of  *)
(* the oldest snapshot.  A drive that still looks at a disc has not added   *)
(* to the ring under another name.                                         *)
Turning ==
  /\ ring.filled > 0 => Label(1) = disc.old
  /\ \A k \in 1..ring.filled : Label(k) \in {disc.old, disc.id}
  /\ \A j, k \in 1..ring.filled : j < k /\ Label(j) = disc.id => Label(k) = disc.id
  /\ disc.lid /\ ring.filled > 0 => disc.id \in {NoDisc, disc.old}

ExitInv == player.exitdir =>
  /\ disc.id \in {NoDisc, disc.inserted}
  /\ out.filename # NoDisc => pc \in {"exit", "done"} /\ (auto.on \/ disc.id # NoDisc)
  /\ auto.on => Turning
  /\ CleanExit

LEMMA TurningEmpty ==
  ASSUME RingWalk, ring' = EmptyRing PROVE Turning'
<1>1. ring'.filled = 0
  BY DEF RingWalk, Rings, EmptyRing
<1> QED BY <1>1 DEF Turning

(* A ring that stays, and a disc of which only what is not asked here changes. *)
LEMMA TurningKept ==
  ASSUME Turning, ring' = ring, disc'.old = disc.old, disc'.id = disc.id,
         disc'.lid => disc.lid
  PROVE  Turning'
  BY DEF Turning, Label

(* The disc can no longer be named: all snapshots are of the one before.    *)
LEMMA TurningForgets ==
  ASSUME Turning, Labelled, ring' = ring, disc'.old = disc.old, disc'.id = NoDisc,
         \A k \in 1..ring.filled : Label(k) = disc.old
  PROVE  Turning'
<1>1. \A k \in 1..ring.filled : Label(k) # NoDisc
  BY SessionAssumption DEF Labelled
<1>2. \A k \in 1..ring.filled : Label(k)' = Label(k)
  BY DEF Label
<1>3. ring'.filled > 0 => Label(1)' = disc'.old
  BY DEF Turning, Label
<1> QED BY <1>1, <1>2, <1>3 DEF Turning

(* While the drive looks at a disc, or does not know its name, the ring     *)
(* holds one disc.                                                         *)
LEMMA OneDisc ==
  ASSUME Turning, Labelled, disc.lid \/ disc.id = NoDisc, ring.filled \in Nat
  PROVE  \A k \in 1..ring.filled : Label(k) = disc.old
<1> SUFFICES ASSUME NEW k \in 1..ring.filled PROVE Label(k) = disc.old
  OBVIOUS
<1>1. Label(k) # NoDisc
  BY SessionAssumption DEF Labelled
<1>2. Label(k) \in {disc.old, disc.id} /\ ring.filled > 0
  BY DEF Turning
<1> QED BY <1>1, <1>2 DEF Turning

LEMMA TurningLid ==
  ASSUME SessInv, Turning, auto.on, disc.id \in {NoDisc, disc.inserted},
         NEW s, NEW t, LidEvent(s, t), ring' = ring
  PROVE  Turning' /\ disc'.id \in {NoDisc, disc'.inserted}
<1>1. /\ ring.filled \in Nat /\ Labelled
      /\ disc = [inserted |-> disc.inserted, id |-> disc.id, old |-> disc.old,
                 unknown |-> disc.unknown, lid |-> disc.lid]
  BY DEF SessInv, RingWalk, Rings, ResetInv, Shape
<1>2. CASE disc' = disc
  BY <1>2, TurningKept
<1>3. CASE disc.lid /\ disc' = Identified
  <2>1. /\ disc'.id = disc.inserted /\ disc'.inserted = disc.inserted
        /\ disc'.old = disc.old /\ disc'.lid = FALSE
    BY <1>1, <1>3 DEF Identified
  <2>2. CASE disc.id = disc.inserted
    BY <2>1, <2>2, TurningKept
  <2>3. CASE disc.id = NoDisc
    <3>1. \A k \in 1..ring.filled : Label(k) = disc.old
      BY <1>1, <2>3, OneDisc
    <3>2. \A k \in 1..ring.filled : Label(k)' = disc.old
      BY <3>1 DEF Label
    <3>3. ring'.filled > 0 => Label(1)' = disc'.old
      BY <1>1, <2>1, <3>2
    <3> QED BY <2>1, <3>2, <3>3 DEF Turning
  <2> QED BY <2>1, <2>2, <2>3
<1>4. CASE disc.lid /\ disc' = [disc EXCEPT !.lid = FALSE]
  <2>1. disc'.id = disc.id /\ disc'.inserted = disc.inserted /\ disc'.old = disc.old
        /\ disc'.lid = FALSE
    BY <1>1, <1>4
  <2> QED BY <2>1, TurningKept
<1>5. CASE disc.lid /\ disc' = [disc EXCEPT !.lid = FALSE, !.id = NoDisc]
  <2>1. disc'.id = NoDisc /\ disc'.old = disc.old
    BY <1>1, <1>5
  <2>2. \A k \in 1..ring.filled : Label(k) = disc.old
    BY <1>1, <1>5, OneDisc
  <2> QED BY <1>1, <2>1, <2>2, TurningForgets
<1> QED BY <1>2, <1>3, <1>4, <1>5 DEF LidEvent, Unidentified

(* A patient player changes discs only when the ring holds one. *)
LEMMA TurningSwap ==
  ASSUME SessInv, Turning, player.patient, NEW opened \in BOOLEAN, SwapImage(opened),
         ring' = ring
  PROVE  Turning' /\ disc'.id = NoDisc
<1>1. /\ ring.filled \in Nat /\ Labelled /\ ring.order \in Seq(Slots)
      /\ Len(ring.order) = ring.filled
      /\ disc = [inserted |-> disc.inserted, id |-> disc.id, old |-> disc.old,
                 unknown |-> disc.unknown, lid |-> disc.lid]
  BY DEF SessInv, RingWalk, Rings, ResetInv, Shape
<1>2. disc'.id = NoDisc /\ disc'.old = disc.old
  BY <1>1 DEF SwapImage
<1>3. ASSUME NEW k \in 1..ring.filled PROVE Label(k) = disc.old
  <2>1. Settled /\ ring.order[k] \in Slots /\ ring.filled # 0 /\ 1 \in 1..ring.filled
        /\ ring.order[1] \in Slots
    BY <1>1 DEF SwapImage
  <2>2. Label(k) = disc.id /\ Label(1) = disc.id
    BY <2>1 DEF Settled, Label
  <2> QED BY <1>1, <2>1, <2>2 DEF Turning
<1> QED BY <1>1, <1>2, <1>3, TurningForgets

(* A snapshot moves the ring on by one disc, and the _old disc with it. *)
LEMMA TurningSnapshot ==
  ASSUME SessInv, Turning, disc.id \in {NoDisc, disc.inserted}, Snapshot
  PROVE  Turning' /\ disc'.id = disc.id /\ disc'.inserted = disc.inserted
<1> DEFINE n == ring.filled
           m == ring'.filled
           at(k) == IF ring.filled < Count THEN k ELSE k + 1
<1>1. /\ n \in Nat /\ Labelled /\ disc.id \in Files /\ disc.old \in Discs
      /\ disc = [inserted |-> disc.inserted, id |-> disc.id, old |-> disc.old,
                 unknown |-> disc.unknown, lid |-> disc.lid]
      /\ RingWalk
  BY DEF SessInv, RingWalk, Rings, ResetInv, Shape, TypeOK
<1>2. /\ m > 0 /\ \A k : k = m => Label(k)' = Named
      /\ \A k \in 1..m - 1 : \E j \in 1..n : Label(k)' = Label(j) /\ j = at(k)
      /\ disc' = [disc EXCEPT !.old = IF Label(1)' = disc.id THEN disc.id ELSE disc.old]
  BY <1>1, SnapshotLabels
<1>3. RingWalk' /\ Labelled' /\ m \in Nat
  <2>1. disc \in DiscType
    BY DEF SessInv, TypeOK, DiscType
  <2> QED BY <1>1, <2>1, SnapshotTyped DEF RingWalk, Rings
<1> DEFINE now(k) == ring'.stateid[ring'.order[k]]
<1>4. \A k : Label(k)' = now(k)
  BY DEF Label
<1> HIDE DEF now
<1>5. /\ now(m) = Named
      /\ \A k \in 1..m - 1 : at(k) \in 1..n /\ now(k) = Label(at(k))
      /\ disc' = [disc EXCEPT !.old = IF now(1) = disc.id THEN disc.id ELSE disc.old]
      /\ \A k \in 1..m : now(k) \in Discs
  BY <1>2, <1>3, <1>4 DEF Labelled
<1>6. /\ disc'.id = disc.id /\ disc'.inserted = disc.inserted /\ disc'.lid = disc.lid
      /\ disc'.old = IF now(1) = disc.id THEN disc.id ELSE disc.old
  BY <1>1, <1>5
<1>7. Named \in {disc.old, disc.id} /\ (disc.id # NoDisc => Named = disc.id)
  BY DEF Named
<1>8. ASSUME NEW k \in 1..m PROVE now(k) \in {disc.old, disc.id}
  <2>1. k = m \/ k \in 1..m - 1
    BY <1>3
  <2>2. CASE k \in 1..m - 1
    BY <1>5, <2>2 DEF Turning
  <2> QED BY <1>5, <1>7, <2>1, <2>2
<1>9. NoDisc \notin Discs
  BY SessionAssumption
<1>10. ASSUME NEW j \in 1..m, NEW k \in 1..m, j < k, now(j) = disc.id
       PROVE  now(k) = disc.id
  <2>1. disc.id # NoDisc
    BY <1>5, <1>9, <1>10
  <2>2. CASE k = m
    BY <1>5, <1>7, <2>1, <2>2
  <2>3. CASE k # m
    <3>1. j \in 1..m - 1 /\ k \in 1..m - 1
      BY <1>3, <1>10, <2>3
    <3>2. at(j) \in 1..n /\ at(k) \in 1..n /\ at(j) < at(k)
      BY <1>5, <1>10, <3>1
    <3>3. now(j) = Label(at(j)) /\ now(k) = Label(at(k))
      BY <1>5, <3>1
    <3> QED BY <1>10, <3>2, <3>3 DEF Turning
  <2> QED BY <2>2, <2>3
<1>11. 1 \in 1..m
  BY <1>2, <1>3
<1>12. now(1) = disc'.old
  BY <1>6, <1>8, <1>11
<1>13. ASSUME NEW k \in 1..m PROVE now(k) \in {disc'.old, disc'.id}
  <2>1. CASE now(1) = disc.id
    <3>1. k = 1 \/ 1 < k
      OBVIOUS
    <3> QED BY <1>6, <1>10, <1>11, <2>1, <3>1
  <2>2. CASE now(1) # disc.id
    BY <1>6, <1>8, <2>2
  <2> QED BY <2>1, <2>2
<1>14. ASSUME disc.lid PROVE disc.id \in {NoDisc, disc'.old}
  <2>1. CASE disc.id = NoDisc
    BY <2>1
  <2>2. CASE disc.id # NoDisc
    <3>1. CASE m = 1
      BY <1>5, <1>7, <1>12, <2>2, <3>1
    <3>2. CASE m # 1
      <4>1. 1 \in 1..m - 1
        BY <1>2, <1>3, <3>2
      <4>2. at(1) \in 1..n
        BY <1>5, <4>1
      <4>3. n > 0
        BY <1>1, <4>2
      <4>4. disc.id = disc.old
        BY <1>14, <2>2, <4>3 DEF Turning
      <4> QED BY <1>6, <4>4
    <3> QED BY <3>1, <3>2
  <2> QED BY <2>1, <2>2
<1>15. Turning'
  <2>1. \A k \in 1..m : Label(k)' = now(k)
    BY <1>4
  <2>2. m > 0 => Label(1)' = disc'.old
    BY <1>4, <1>12
  <2>3. \A k \in 1..m : Label(k)' \in {disc'.old, disc'.id}
    BY <1>13, <2>1
  <2>4. \A j, k \in 1..m : j < k /\ Label(j)' = disc'.id => Label(k)' = disc'.id
    BY <1>6, <1>10, <2>1
  <2>5. disc'.lid /\ m > 0 => disc'.id \in {NoDisc, disc'.old}
    BY <1>6, <1>14
  <2> QED BY <2>2, <2>3, <2>4, <2>5 DEF Turning
<1> QED BY <1>6, <1>15

LEMMA ExitInit == Init => ExitInv
<1> SUFFICES ASSUME Init, player.exitdir PROVE ExitInv
  BY DEF ExitInv
<1>1. \E d : disc = [inserted |-> d, id |-> d, old |-> d, unknown |-> FALSE, lid |-> FALSE]
  BY DEF Init
<1>2. ring.filled = 0 /\ out.filename = NoDisc
  BY DEF Init
<1> QED BY <1>1, <1>2 DEF ExitInv, Turning, CleanExit

(* A step that leaves filename.txt and the resume point alone. *)
LEMMA ExitKept ==
  ASSUME ExitInv, player.exitdir, UNCHANGED <<player, out>>, auto'.on = auto.on,
         pc \in {"exit", "done"} => pc' \in {"exit", "done"} /\ disc'.id = disc.id,
         disc'.id \in {NoDisc, disc'.inserted},
         auto.on => Turning'
  PROVE  ExitInv'
  BY DEF ExitInv, CleanExit

(* A step that removes filename.txt. *)
LEMMA ExitRemoved ==
  ASSUME ExitInv, player.exitdir, UNCHANGED <<player, auto, ring, disc>>,
         out'.filename = NoDisc
  PROVE  ExitInv'
<1>1. auto.on => Turning'
  BY TurningKept DEF ExitInv
<1> QED BY <1>1 DEF ExitInv, CleanExit

(* A resume point that is saved is of the disc filename.txt names. *)
LEMMA ExitSaved ==
  ASSUME SessInv, ExitInv, player.exitdir, ResetEvent, pc \notin {"run", "menu"},
         quit' => pc' \in {"exit", "done"}, pc = "exit" => pc' \in {"exit", "done"},
         pc = "done" => pc' = "done",
         UNCHANGED <<player, disc, auto, ring>>
  PROVE  ExitInv'
<1>1. auto.on => Turning /\ Turning'
  BY TurningKept DEF ExitInv
<1>2. CASE UNCHANGED out
  BY <1>1, <1>2, ExitKept DEF ExitInv
<1>3. CASE out' = [out EXCEPT !.filename = NoDisc]
  <2>1. out'.filename = NoDisc
    BY <1>3 DEF SessInv, ResetInv, Shape
  <2> QED BY <2>1, ExitRemoved
<1>4. CASE /\ HasPoint /\ out' = [filename |-> FileName(disc), point |-> {Point}]
           /\ quit' = TRUE
  <2>1. /\ out'.filename = FileName(disc) /\ Point \in out'.point
        /\ pc' \in {"exit", "done"}
    BY <1>4
  <2>2. Point.name = PointName
        /\ Point.content = IF auto.on THEN ring.stateid[OldIndex] ELSE disc.id
    BY DEF Point
  <2>3. ASSUME auto.on PROVE Point.name = FileName(disc) /\ Point.content = FileName(disc)
    <3>1. ring.filled > 0
      BY <1>4, <2>3, CountPositive DEF HasPoint
    <3>2. OldIndex = ring.order[1]
      BY <3>1, OldestIsFirst
    <3>3. Label(1) = disc.old
      BY <1>1, <2>3, <3>1 DEF Turning
    <3> QED BY <2>2, <2>3, <3>2, <3>3 DEF Label, PointName, FileName
  <2>4. ASSUME ~auto.on, FileName(disc) # NoDisc
        PROVE  disc.id # NoDisc /\ Point.name = FileName(disc) /\ Point.content = FileName(disc)
    <3>1. disc.id # NoDisc
      BY <2>4 DEF FileName, ExitInv
    <3> QED BY <2>2, <2>4, <3>1 DEF PointName, FileName
  <2>5. CleanExit'
    BY <2>1, <2>3, <2>4 DEF CleanExit
  <2> QED BY <1>1, <2>1, <2>4, <2>5 DEF ExitInv
<1> QED BY <1>2, <1>3, <1>4 DEF ResetEvent

LEMMA ExitStep ==
  ASSUME ExitPlayersWait
  PROVE  SessInv /\ ExitInv /\ [Next]_vars => ExitInv'
<1> SUFFICES ASSUME SessInv, ExitInv, [Next]_vars, player'.exitdir PROVE ExitInv'
  BY DEF ExitInv
<1>0. UNCHANGED player
  BY DEF Next, Run, Frame, OtherEvent, StatusWrite, IrqTest, UseCard, DoAction, DoNothing, DoSync,
         DoReset, DoPowerOff, DoChangeDisc, DoLoad, EnterMenu, Menu, ToggleAutosave,
         MenuLoad, MenuSwap, MenuRestart, LeaveMenu, MenuExit, SaveOnExit, Alarm, vars
<1>p. /\ player.exitdir /\ player.patient
      /\ "autosave" \notin player.menu /\ "next" \notin player.menu
      /\ "restart" \notin player.menu
  <2>1. player \in Players
    BY DEF SessInv, TypeOK
  <2> QED BY <1>0, <2>1 DEF ExitPlayersWait
<1>i. /\ disc.id \in {NoDisc, disc.inserted} /\ (auto.on => Turning)
      /\ disc = [inserted |-> disc.inserted, id |-> disc.id, old |-> disc.old,
                 unknown |-> disc.unknown, lid |-> disc.lid]
      /\ auto \in AutoType /\ RingWalk
  BY <1>p DEF ExitInv, SessInv, ResetInv, Shape, TypeOK, AutoType
<1>1. ASSUME NEW vblank \in BOOLEAN, NEW key, NEW elapsed \in BOOLEAN,
             NEW tested \in BOOLEAN, IrqTest(vblank, key, elapsed, tested)
      PROVE  ExitInv'
  <2>1. PICK s, t : LidEvent(s, t) /\ SyncState(t, elapsed)
    BY <1>1 DEF IrqTest
  <2>2. auto'.on = auto.on
    BY <1>i, <2>1 DEF SyncState, AutoType
  <2>3. disc'.id \in {NoDisc, disc'.inserted}
    BY <1>i, <2>1 DEF LidEvent, Identified, Unidentified
  <2>4. ring' = ring \/ ring' = EmptyRing
    BY <2>1 DEF SyncState
  <2>5. auto.on => Turning'
    BY <1>i, <2>1, <2>4, TurningLid, TurningEmpty
  <2>6. pc = "run" /\ UNCHANGED out
    BY <1>1 DEF IrqTest
  <2> QED BY <1>0, <1>p, <2>2, <2>3, <2>5, <2>6, ExitKept
<1>2. CASE UNCHANGED <<disc, ring, out>> /\ auto' = auto
           /\ (pc' = pc \/ pc \in {"run", "left", "menu"})
  <2>1. auto.on => Turning'
    BY <1>2, <1>i, TurningKept
  <2> QED BY <1>0, <1>p, <1>2, <1>i, <2>1, ExitKept
<1>3. CASE DoSync
  <2>1. /\ Snapshot /\ auto' = [auto EXCEPT !.sync = FALSE] /\ UNCHANGED out /\ pc = "left"
    BY <1>3 DEF DoSync, Do
  <2>2. auto'.on = auto.on
    BY <1>i, <2>1 DEF AutoType
  <2>3. disc'.id = disc.id /\ disc'.inserted = disc.inserted
    BY <1>i, <2>1 DEF Snapshot
  <2>4. auto.on => Turning'
    BY <1>i, <2>1, TurningSnapshot
  <2> QED BY <1>0, <1>p, <1>i, <2>1, <2>2, <2>3, <2>4, ExitKept
<1>4. CASE DoReset
  <2>1. ResetEvent /\ pc = "left" /\ UNCHANGED <<player, disc, auto, ring>>
        /\ (quit' => pc' = "exit")
    BY <1>4 DEF DoReset, Do, Return
  <2> QED BY <1>p, <2>1, ExitSaved
<1>5. CASE SaveOnExit
  <2>1. ResetEvent /\ pc = "exit" /\ pc' = "done" /\ UNCHANGED <<player, disc, auto, ring>>
    BY <1>5 DEF SaveOnExit
  <2> QED BY <1>p, <2>1, ExitSaved
<1>6. CASE DoPowerOff
  <2>1. out' = [out EXCEPT !.filename = NoDisc] /\ UNCHANGED <<player, disc, auto, ring>>
    BY <1>6 DEF DoPowerOff
  <2>2. out'.filename = NoDisc
    BY <2>1 DEF SessInv, ResetInv, Shape
  <2> QED BY <1>p, <2>1, <2>2, ExitRemoved
<1>7. ASSUME NEW opened \in BOOLEAN, SwapImage(opened), UNCHANGED <<auto, ring, out>>,
             pc \in {"left", "menu"}
      PROVE  ExitInv'
  <2>1. disc'.id = NoDisc
    BY <1>i, <1>7 DEF SwapImage
  <2>2. auto.on => Turning'
    BY <1>p, <1>i, <1>7, TurningSwap
  <2> QED BY <1>0, <1>p, <1>7, <2>1, <2>2, ExitKept
<1>8. CASE DoLoad \/ MenuLoad
  <2>1. LoadState /\ UNCHANGED out /\ pc \in {"left", "menu"}
    BY <1>8 DEF DoLoad, MenuLoad, Do, InMenu
  <2>2. auto'.on = auto.on
    BY <1>i, <2>1 DEF LoadState, AutoType
  <2>3. disc'.id = disc.id /\ disc'.inserted = disc.inserted
    BY <1>i, <2>1 DEF LoadState
  <2>4. auto.on => Turning'
    BY <1>i, <2>1, TurningEmpty DEF LoadState
  <2> QED BY <1>0, <1>p, <1>i, <2>1, <2>2, <2>3, <2>4, ExitKept
<1>9. CASE DoChangeDisc
  <2>1. \E opened \in BOOLEAN : SwapImage(opened)
    BY <1>9 DEF DoChangeDisc
  <2>2. UNCHANGED <<auto, ring, out>> /\ pc = "left"
    BY <1>9 DEF DoChangeDisc, Do
  <2> QED BY <1>7, <2>1, <2>2
<1>10. CASE MenuSwap
  <2>1. \E opened \in BOOLEAN : SwapImage(opened)
    BY <1>10, <1>p DEF MenuSwap, InMenu
  <2>2. UNCHANGED <<auto, ring, out>> /\ pc = "menu"
    BY <1>10 DEF MenuSwap, InMenu
  <2> QED BY <1>7, <2>1, <2>2
<1>11. ~ToggleAutosave /\ ~MenuRestart
  BY <1>p DEF ToggleAutosave, MenuRestart, InMenu
<1>12. CASE DoNothing \/ EnterMenu \/ LeaveMenu \/ MenuExit \/ UseCard
  BY <1>2, <1>12 DEF DoNothing, EnterMenu, Do, LeaveMenu, MenuExit, InMenu, UseCard
<1>13. ASSUME NEW a, Alarm(a) PROVE ExitInv'
  BY <1>2, <1>13 DEF Alarm
<1>14. CASE UNCHANGED vars
  BY <1>2, <1>14 DEF vars
<1>15. CASE Run
  BY <1>1, <1>12, <1>15 DEF Run, Frame, OtherEvent, StatusWrite
<1> QED
  BY <1>3, <1>4, <1>5, <1>6, <1>8, <1>9, <1>10, <1>11, <1>12, <1>13, <1>14, <1>15
     DEF Next, DoAction, Menu

(* With AB_EXIT_DIR, filename.txt is only left by a session that saved a    *)
(* resume point under the name it gives, of the disc it gives, for every    *)
(* number of discs and length of the ring; from players who change discs    *)
(* only once the ring holds one.                                           *)
THEOREM ExitsAreClean == ExitPlayersWait => (Spec => []CleanExit)
<1> SUFFICES ASSUME ExitPlayersWait PROVE Spec => []CleanExit
  OBVIOUS
<1>1. ExitInv => CleanExit
  BY DEF ExitInv, CleanExit
<1> QED
  BY <1>1, SessInit, SessStep, ExitInit, ExitStep, PTL DEF Spec
=============================================================================

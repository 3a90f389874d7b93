---------------------------- MODULE RootCounters ----------------------------
(***************************************************************************)
(* The root counters (libpcsxcore/psxcounters.c): the guest's timers, kept *)
(* as the cycle at which they were last zero and as the cycles from there  *)
(* to what comes next, their target or their overflow, and the counter of  *)
(* scan lines that makes vblanks and frames.  psxRcntUpdate runs as an     *)
(* event, up to Late cycles after it is due, because the core only looks   *)
(* between two blocks.  Cycles are u32 and wrap; Clock stands for 2^32 and *)
(* Overflow for 2^16.  Left out are the status bits of the mode register,  *)
(* the corrections for single titles, and what a vblank does besides       *)
(* counting (EmuUpdate, GPU_updateLace, SPU_async).                        *)
(***************************************************************************)
EXTENDS Integers, Sequences, FiniteSets

CONSTANTS
  Clock, Overflow,
  Timers,           \* the guest's timers
  Rates,            \* cycles per count, for the clocks a timer may have
  Targets, Counts,  \* the targets and counts the guest writes
  Modes,            \* the modes it writes, records of Mode
  Late,             \* the length of the longest block
  VBlankStart, HSyncTotal,
  LineCycles, LineFraction  \* a line takes LineCycles / LineFraction cycles:
                            \* 8791293 / 2^12 or 8864320 / 2^12

Half == Clock \div 2
Mode == [toTarget : BOOLEAN, onTarget : BOOLEAN, onOverflow : BOOLEAN, regenerate : BOOLEAN]

ASSUME CountersAssumption ==
  /\ {Clock, Overflow, Late, VBlankStart, HSyncTotal, LineCycles, LineFraction} \subseteq Nat \ {0}
  /\ Modes \subseteq Mode /\ Rates \subseteq Nat \ {0} /\ Targets \cup Counts \subseteq 0..Overflow-1
  /\ 1 \in Rates /\ 0 \in Targets
  /\ \A r \in Rates : Late < Overflow * r /\ Overflow * r + 2 * Late < Half
  /\ VBlankStart < HSyncTotal
  /\ Late < LineCycles \div LineFraction
  /\ VBlankStart * LineCycles < (Half - 2 * Late) * LineFraction
  /\ HSyncTotal - VBlankStart <= VBlankStart

VARIABLES
  cycle,    \* psxRegs.cycle
  timer,    \* rcnts[0..2]: of the mode the clear on target (toTarget) and
            \* what raises the interrupt; whether it has been raised (irqState,
            \* and `irq' if by the last step)
  base,     \* rcnts[3], hSyncCount, hsync_steps, base_cycle
  next,     \* psxNextCounter and psxNextsCounter
  overrun,  \* cycles the core has run past the event that is due
  ideal,    \* timers that never are late: the cycles since they were zero,
            \* what they have passed that psxRcntUpdate has not seen yet,
            \* whether the last step had to raise the interrupt (want), and
            \* whether it was raised since the guest set the mode (told)
  beam,     \* a beam that never is late, in fractions of a cycle since the
            \* top of the frame; NoBeam until the first line after a start
  vblanks   \* vblanks in this frame, up to 2

vars == <<cycle, timer, base, next, overrun, ideal, beam, vblanks>>

Wrap(n) == n % Clock
Signed(n) == IF Wrap(n) < Half THEN Wrap(n) ELSE Wrap(n) - Clock
Since(start) == Wrap(cycle - start)

NoBeam == -1
Disabled == Clock - 1   \* the rate of a timer that Rc2Disable stops
LineTarget == LineCycles \div LineFraction
FrameLength == HSyncTotal * LineCycles

TypeOK ==
  /\ cycle \in 0..Clock-1 /\ overrun \in 0..Late
  /\ timer \in [Timers -> [mode : Mode, rate : Rates \cup {Disabled}, target : Targets,
                           counterState : {"target", "overflow"}, cycle : 0..Clock-1,
                           cycleStart : 0..Clock-1, irqState : BOOLEAN, irq : BOOLEAN]]
  /\ base.hSyncCount \in 0..HSyncTotal-1 /\ base.hsync_steps \in Nat
  /\ base.cycle \in 0..Half /\ base.cycleStart \in 0..Clock-1 /\ base.base_cycle \in 0..LineFraction-1
  /\ next.counter \in 0..Half-1 /\ next.start \in 0..Clock-1
  /\ beam \in {NoBeam} \cup 0..FrameLength-1 /\ vblanks \in 0..2
  /\ \A i \in Timers : ideal[i].owed \in Seq({"target", "overflow"})

-----------------------------------------------------------------------------
(* _psxRcntWcount *)
Wcount(t, value) ==
  [t EXCEPT !.cycleStart = Wrap(cycle - value * t.rate), !.irq = FALSE,
            !.counterState = IF value < t.target THEN "target" ELSE "overflow",
            !.cycle = Wrap((IF value < t.target THEN t.target ELSE Overflow) * t.rate)]

(* _psxRcntRcount *)
Rcount(t) == (Since(t.cycleStart) \div t.rate) % Overflow

(* psxRcntSet: how long to the first counter's next event; not at all if    *)
(* one is overdue.                                                         *)
ToUpdate(t) == LET d == Signed(t.cycle - Since(t.cycleStart)) IN IF d < 0 THEN 0 ELSE d

RcntSet(timers, b) ==
  LET all == {ToUpdate(timers[i]) : i \in Timers} \cup {ToUpdate(b), Half - 1}
  IN  [counter |-> CHOOSE d \in all : \A e \in all : d <= e, start |-> cycle]

Idle == [mode |-> [toTarget |-> FALSE, onTarget |-> FALSE, onOverflow |-> FALSE, regenerate |-> FALSE],
         rate |-> 1, target |-> 0, counterState |-> "overflow", cycle |-> Overflow, cycleStart |-> 0,
         irqState |-> FALSE, irq |-> FALSE]

(* psxRcntInit *)
Init ==
  /\ cycle = 0 /\ overrun = 0 /\ beam = NoBeam /\ vblanks = 0
  /\ timer = [i \in Timers |-> Idle]
  /\ base = [cycleStart |-> 0, cycle |-> LineTarget, hSyncCount |-> 0, hsync_steps |-> 1, base_cycle |-> 0]
  /\ ideal = [i \in Timers |-> [phase |-> 0, owed |-> <<>>, want |-> FALSE, told |-> FALSE]]
  /\ next = RcntSet(timer, base)

-----------------------------------------------------------------------------
(* psxRcntReset, its second half and its first. *)
Overflows(t) ==
  LET late == Wrap(Since(t.cycleStart) - Overflow * t.rate)
      fires == t.mode.onOverflow /\ (t.mode.regenerate \/ ~t.irqState)
      again == late < Wrap(t.target * t.rate)
  IN  [t EXCEPT !.cycleStart = Wrap(cycle - late),
                !.cycle = IF again THEN Wrap(t.target * t.rate) ELSE @,
                !.counterState = IF again THEN "target" ELSE @,
                !.irqState = @ \/ fires, !.irq = @ \/ fires]

(* Fault: the count starts again from the cycle of the update. *)
ReachesTargetNow(t) ==
  LET fires == t.mode.onTarget /\ (t.mode.regenerate \/ ~t.irqState)
  IN  [t EXCEPT !.cycleStart = IF t.mode.toTarget THEN cycle ELSE @,
                !.cycle = IF t.mode.toTarget THEN @ ELSE Wrap(Overflow * t.rate),
                !.counterState = IF t.mode.toTarget THEN @ ELSE "overflow",
                !.irqState = @ \/ fires, !.irq = @ \/ fires]

ReachesTarget(t) ==
  LET late  == IF t.mode.toTarget THEN Wrap(Since(t.cycleStart) - t.target * t.rate)
               ELSE Since(t.cycleStart)
      fires == t.mode.onTarget /\ (t.mode.regenerate \/ ~t.irqState)
  IN  [t EXCEPT !.cycleStart = Wrap(cycle - late),
                !.cycle = IF t.mode.toTarget THEN @ ELSE Wrap(Overflow * t.rate),
                !.counterState = IF t.mode.toTarget THEN @ ELSE "overflow",
                !.irqState = @ \/ fires, !.irq = @ \/ fires]

(* With the target behind it a counter that goes on may be past its end too. *)
Both(t) == ~t.mode.toTarget /\ Since(t.cycleStart) >= Wrap(Overflow * t.rate)

Reset(t) ==
  CASE t.counterState = "overflow" -> Overflows(t)
    [] t.counterState = "target" /\ Both(t) -> Overflows(ReachesTarget(t))
    [] OTHER -> ReachesTarget(t)

Expired(t) == Since(t.cycleStart) >= t.cycle
Updated(t) == IF Expired(t) THEN Reset([t EXCEPT !.irq = FALSE]) ELSE [t EXCEPT !.irq = FALSE]

(* Fault: the cycles by which the update is late are lost. *)
LinesFromNow(b) ==
  LET passed == b.hSyncCount + b.hsync_steps
      count  == IF passed >= HSyncTotal THEN 0 ELSE passed
      steps  == IF count < VBlankStart THEN VBlankStart - count ELSE HSyncTotal - count
      cycles == b.base_cycle + steps * LineCycles
  IN  [cycleStart |-> cycle, cycle |-> cycles \div LineFraction,
       hSyncCount |-> count, hsync_steps |-> steps, base_cycle |-> cycles % LineFraction]

(* Fault: the next stop is always the end of the frame. *)
LinesToEnd(b) ==
  LET passed == b.hSyncCount + b.hsync_steps
      count  == IF passed >= HSyncTotal THEN 0 ELSE passed
      cycles == b.base_cycle + (HSyncTotal - count) * LineCycles
  IN  [cycleStart |-> Wrap(b.cycleStart + b.cycle), cycle |-> cycles \div LineFraction,
       hSyncCount |-> count, hsync_steps |-> HSyncTotal - count, base_cycle |-> cycles % LineFraction]

(* The lines that have passed: whether a vblank begins, or a frame ends, and *)
(* how many lines to the next of the two.                                   *)
Lines(b) ==
  LET passed == b.hSyncCount + b.hsync_steps
      count  == IF passed >= HSyncTotal THEN 0 ELSE passed
      steps  == IF count < VBlankStart THEN VBlankStart - count ELSE HSyncTotal - count
      cycles == b.base_cycle + steps * LineCycles
  IN  [cycleStart |-> Wrap(b.cycleStart + b.cycle), cycle |-> cycles \div LineFraction,
       hSyncCount |-> count, hsync_steps |-> steps, base_cycle |-> cycles % LineFraction]

Start(b) == b.hSyncCount * LineCycles - (b.cycle * LineFraction + b.base_cycle - b.hsync_steps * LineCycles)
BeamOf(b) == (Start(b) + Since(b.cycleStart) * LineFraction) % FrameLength

(* How many of the passings owed this update sees. *)
Seen(t) == CASE ~Expired(t) -> 0
             [] Expired(t) /\ t.counterState = "target" /\ Both(t) -> 2
             [] OTHER -> 1

(* An ideal timer of which the update has seen n passings: what the mode    *)
(* says of them.                                                           *)
Pass(t, x, n) ==
  LET m == t.mode
      fires == /\ \E k \in 1..n : k <= Len(x.owed) /\
                    IF x.owed[k] = "target" THEN m.onTarget ELSE m.onOverflow
               /\ m.regenerate \/ ~x.told
  IN  [x EXCEPT !.owed = SubSeq(@, n + 1, Len(@)), !.want = fires, !.told = @ \/ fires]

psxRcntUpdate ==
  LET ends == Expired(base)
      b    == IF ends THEN Lines(base) ELSE base
  IN /\ timer' = [i \in Timers |-> Updated(timer[i])]
     /\ base' = b
     /\ next' = RcntSet(timer', b)
     /\ ideal' = [i \in Timers |-> Pass(timer[i], ideal[i], Seen(timer[i]))]
     /\ vblanks' = CASE ends /\ b.hSyncCount = 0 -> 0
                     [] ends /\ b.hSyncCount = VBlankStart /\ vblanks < 2 -> vblanks + 1
                     [] OTHER -> vblanks
     /\ beam' = IF ends /\ b.hSyncCount = 0 /\ beam = NoBeam THEN BeamOf(b) ELSE beam

(* irq_test at the end of a block. *)
Due == Since(next.start) >= next.counter

BlockEnd ==
  /\ Due \/ overrun > 0
  /\ overrun' = 0 /\ UNCHANGED cycle
  /\ \/ Due /\ psxRcntUpdate
     \/ ~Due /\ UNCHANGED <<timer, base, next, ideal, beam, vblanks>>

-----------------------------------------------------------------------------
(* The timers whose events cannot pass unseen: those that run, and reach    *)
(* their target later than the longest block lasts.                        *)
Followed(t) == t.rate # Disabled /\ (t.target = 0 \/ t.target * t.rate > Late)

Tick(t, x) ==
  LET p == x.phase + 1 IN
  CASE ~Followed(t) -> x
    [] Followed(t) /\ p = t.target * t.rate ->
         [x EXCEPT !.phase = IF t.mode.toTarget THEN 0 ELSE p, !.owed = Append(@, "target")]
    [] Followed(t) /\ p = Overflow * t.rate -> [x EXCEPT !.phase = 0, !.owed = Append(@, "overflow")]
    [] OTHER -> [x EXCEPT !.phase = p]

(* The guest runs for a cycle. *)
Run ==
  /\ overrun < Late /\ cycle' = Wrap(cycle + 1)
  /\ overrun' = IF overrun > 0 \/ Due THEN overrun + 1 ELSE 0
  /\ ideal' = [i \in Timers |-> Tick(timer[i], ideal[i])]
  /\ beam' = IF beam = NoBeam THEN beam ELSE (beam + LineFraction) % FrameLength
  /\ UNCHANGED <<timer, base, next, vblanks>>

(* What the guest writes; an ideal timer is set to the same count. *)
SetTo(t, told) ==
  [phase |-> IF Followed(t) THEN Since(t.cycleStart) ELSE 0, owed |-> <<>>, want |-> FALSE, told |-> told]

Written(i, t, told) ==
  /\ timer' = [timer EXCEPT ![i] = t]
  /\ ideal' = [ideal EXCEPT ![i] = SetTo(t, told)]
  /\ next' = RcntSet(timer', base)
  /\ UNCHANGED <<cycle, base, overrun, beam, vblanks>>

(* Of a timer that has not been followed only the code knows. *)
Told(i) == IF Followed(timer[i]) THEN ideal[i].told ELSE timer[i].irqState

psxRcntWcount(i, value) == Written(i, Wcount(timer[i], value), Told(i))

(* Fault: a timer set to interrupt once does not do so again. *)
psxRcntWmodeSpent(i, mode, rate) ==
  Written(i, Wcount([timer[i] EXCEPT !.mode = mode, !.rate = rate], 0), FALSE)

psxRcntWmode(i, mode, rate) ==
  Written(i, Wcount([timer[i] EXCEPT !.mode = mode, !.rate = rate, !.irqState = FALSE], 0), FALSE)

psxRcntWtarget(i, value) ==
  Written(i, Wcount([timer[i] EXCEPT !.target = value], Rcount(timer[i])), Told(i))

(* psxRcntFreeze: a state that has been saved is loaded at once. *)
Reload ==
  /\ timer' = [i \in Timers |-> Wcount(timer[i], Rcount(timer[i]))]
  /\ ideal' = [i \in Timers |-> SetTo(timer'[i], Told(i))]
  /\ LET count == Since(base.cycleStart) % Overflow IN
     base' = [base EXCEPT !.cycleStart = Wrap(cycle - count),
                          !.cycle = IF count < LineTarget THEN LineTarget ELSE Overflow,
                          !.hsync_steps = count \div LineTarget, !.base_cycle = 0]
  /\ next' = RcntSet(timer', base') /\ beam' = NoBeam
  /\ UNCHANGED <<cycle, overrun, vblanks>>

Next ==
  \/ Run \/ BlockEnd \/ Reload
  \/ \E i \in Timers :
       \/ \E value \in Counts : psxRcntWcount(i, value)
       \/ \E mode \in Modes, rate \in Rates \cup {Disabled} : psxRcntWmode(i, mode, rate)
       \/ \E value \in Targets : psxRcntWtarget(i, value)

Spec == Init /\ [][Next]_vars

-----------------------------------------------------------------------------
Times(owed, kind) == Cardinality({n \in DOMAIN owed : owed[n] = kind})

(* However late the updates are, no cycle is lost: a timer is where an ideal *)
(* one would be, but for the passings that psxRcntUpdate has yet to see,    *)
(* waits for the next of them, and is never past it by more than a block.   *)
NoDrift ==
  \A i \in Timers :
    LET t == timer[i]  x == ideal[i]
        reached == IF t.mode.toTarget THEN Times(x.owed, "target") * t.target ELSE 0
    IN Followed(t) =>
      /\ Since(t.cycleStart) = x.phase + (reached + Times(x.owed, "overflow") * Overflow) * t.rate
      /\ t.counterState = IF x.owed # <<>> THEN x.owed[1]
                          ELSE IF x.phase < t.target * t.rate THEN "target" ELSE "overflow"
      /\ Since(t.cycleStart) <= t.cycle + Late

(* An update raises a timer's interrupt when it passes what the mode says,  *)
(* each time or only the first time since the mode was set.                *)
IrqAsProgrammed ==
  \A i \in Timers : Followed(timer[i]) => timer[i].irq = ideal[i].want

(* The lines are counted as the beam draws them, whatever the fraction of a *)
(* cycle a line takes and however late, by up to a block, the updates are.  *)
BeamAgrees ==
  /\ beam # NoBeam => beam = BeamOf(base)
  /\ Since(base.cycleStart) <= base.cycle + Late

(* Every frame has its vblank, and only one, but for a frame in which a     *)
(* state was loaded.                                                       *)
FrameHasVBlank ==
  [][base' # base /\ base'.hSyncCount = 0 /\ NoBeam \notin {beam, beam'} => vblanks = 1]_vars

=============================================================================

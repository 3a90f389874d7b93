------------------------- MODULE RootCountersProofs -------------------------
(***************************************************************************)
(* Proofs about RootCounters, for every set of timers, rates and targets,  *)
(* every length of a line and every lateness the assumption admits: timers *)
(* do not drift, raise the interrupts they are programmed for, and the     *)
(* lines are counted as the beam draws them, one vblank to a frame.        *)
(***************************************************************************)
EXTENDS RootCounters, FiniteSetTheorems, SequenceTheorems, WellFoundedInduction, TLAPS

Kinds == {"target", "overflow"}
TimerType == [mode : Mode, rate : Rates \cup {Disabled}, target : Targets, counterState : Kinds,
              cycle : 0..Clock-1, cycleStart : 0..Clock-1, irqState : BOOLEAN, irq : BOOLEAN]
IdealType == [phase : Nat, owed : Seq(Kinds), want : BOOLEAN, told : BOOLEAN]
BaseType == [cycleStart : 0..Clock-1, cycle : 0..Half, hSyncCount : 0..HSyncTotal-1,
             hsync_steps : Nat, base_cycle : 0..LineFraction-1]

Typed ==
  /\ cycle \in 0..Clock-1 /\ overrun \in 0..Late
  /\ timer \in [Timers -> TimerType] /\ ideal \in [Timers -> IdealType]
  /\ base \in BaseType
  /\ next \in [counter : 0..Half-1, start : 0..Clock-1]
  /\ beam \in {NoBeam} \cup 0..FrameLength-1 /\ vblanks \in 0..2

(* The cycles to a timer's target, and to its overflow. *)
Reach(t) == t.target * t.rate
Full(t) == Overflow * t.rate

(* Where a timer that has been counting for s cycles stands to an ideal one: *)
(* nothing is owed while it is short of what it waits for, and at most the  *)
(* target and the overflow after it are.                                   *)
Place(t, x, s) ==
  \/ /\ x.owed = <<>>
     /\ s = x.phase /\ s < t.cycle /\ (t.counterState = "overflow" => Reach(t) <= s)
  \/ /\ x.owed = <<"target">> /\ t.counterState = "target" /\ s >= t.cycle
     /\ s = x.phase + (IF t.mode.toTarget THEN Reach(t) ELSE 0)
     /\ ~t.mode.toTarget => x.phase < Full(t)
  \/ /\ x.owed = <<"overflow">> /\ t.counterState = "overflow" /\ s = x.phase + Full(t)
  \/ /\ x.owed = <<"target", "overflow">> /\ t.counterState = "target" /\ ~t.mode.toTarget
     /\ s = x.phase + Full(t)

(* A timer that is not later than `late' agrees with its ideal. *)
Sound(t, x, s, late) ==
  /\ t.cycle = IF t.counterState = "target" THEN Reach(t) ELSE Full(t)
  /\ t.counterState = "target" => t.target > 0
  /\ s <= t.cycle + late
  /\ Place(t, x, s)
  /\ x.told = t.irqState /\ x.want = t.irq

TimersSound ==
  \A i \in Timers : Followed(timer[i]) =>
    Sound(timer[i], ideal[i], Since(timer[i].cycleStart), overrun)

(* The event comes no later than the first counter needs it. *)
NextSound ==
  /\ Since(next.start) <= next.counter + overrun
  /\ ~Due =>
       /\ next.counter - Since(next.start) <= base.cycle - Since(base.cycleStart)
       /\ \A i \in Timers : Followed(timer[i]) =>
            next.counter - Since(next.start) <= timer[i].cycle - Since(timer[i].cycleStart)

(* The frame is halved at the vblank once the beam is known. *)
BaseSound ==
  /\ LineTarget <= base.cycle /\ base.cycle < Half
  /\ Since(base.cycleStart) <= base.cycle + overrun
  /\ beam # NoBeam =>
       /\ \/ base.hSyncCount = 0 /\ base.hsync_steps = VBlankStart /\ vblanks = 0
          \/ /\ base.hSyncCount = VBlankStart
             /\ base.hsync_steps = HSyncTotal - VBlankStart /\ vblanks = 1
       /\ beam = BeamOf(base)

IInv == Typed /\ TimersSound /\ NextSound /\ BaseSound

-----------------------------------------------------------------------------
(* Constants, and the arithmetic of numbers that wrap.                      *)
LEMMA Bounds ==
  /\ Clock \in Nat \ {0} /\ Half \in Nat \ {0} /\ 2 * Half <= Clock
  /\ Late \in Nat \ {0} /\ 2 * Late < Half /\ Overflow \in Nat \ {0} /\ Overflow + 2 * Late < Half
  /\ LineCycles \in Nat \ {0} /\ LineFraction \in Nat \ {0}
  /\ VBlankStart \in Nat \ {0} /\ HSyncTotal \in Nat \ {0} /\ VBlankStart < HSyncTotal
  /\ HSyncTotal - VBlankStart <= VBlankStart
<1>1. /\ Clock \in Nat \ {0} /\ Late \in Nat \ {0} /\ Overflow \in Nat \ {0}
      /\ LineCycles \in Nat \ {0} /\ LineFraction \in Nat \ {0}
      /\ VBlankStart \in Nat \ {0} /\ HSyncTotal \in Nat \ {0} /\ VBlankStart < HSyncTotal
      /\ HSyncTotal - VBlankStart <= VBlankStart
  BY CountersAssumption
<1>2. Half \in Nat /\ 2 * Half <= Clock
  BY <1>1 DEF Half
<1>3. Overflow * 1 + 2 * Late < Half
  BY CountersAssumption
<1> QED BY <1>1, <1>2, <1>3

LEMMA LineBounds == LineTarget \in Nat \ {0} /\ Late < LineTarget /\ FrameLength \in Nat \ {0}
<1>1. Late < LineTarget /\ LineTarget \in Int
  BY CountersAssumption, Bounds DEF LineTarget
<1>2. HSyncTotal * LineCycles \in Nat \ {0}
  BY Bounds
<1> QED BY <1>1, <1>2, Bounds DEF FrameLength

LEMMA ModRange == ASSUME NEW n \in Nat \ {0}, NEW x \in Int PROVE x % n \in 0..n-1
  OBVIOUS

LEMMA ModSmall == ASSUME NEW n \in Nat \ {0}, NEW x \in 0..n-1 PROVE x % n = x
  OBVIOUS

LEMMA ModIs == \A n \in Nat \ {0} : \A x \in Int : x = n * (x \div n) + (x % n)
  OBVIOUS

LEMMA ModQuotient ==
  ASSUME NEW n \in Nat \ {0}, NEW x \in Int
  PROVE  \E q \in Int : x = (x % n) + q * n
<1> DEFINE d == x \div n
           a == x % n
<1>1. d \in Int /\ a \in 0..n-1
  BY ModRange
<1>2. x = n * d + a
  BY ModIs
<1> HIDE DEF d, a
<1>3. x = a + d * n
  BY <1>1, <1>2
<1> QED BY <1>1, <1>3 DEF a

LEMMA ModMultiples ==
  ASSUME NEW n \in Nat \ {0}
  PROVE  \A k \in Int : k # 0 => k * n >= n \/ k * n <= -n
  OBVIOUS

LEMMA ModUnique ==
  ASSUME NEW n \in Nat \ {0}, NEW a \in 0..n-1, NEW b \in 0..n-1, NEW k \in Int, a = b + k * n
  PROVE  a = b
  BY ModMultiples

LEMMA ModTurns ==
  ASSUME NEW n \in Nat \ {0}, NEW x \in Int, NEW k \in Int
  PROVE  (x + k * n) % n = x % n
<1> DEFINE y == x + k * n
<1>1. y \in Int /\ k * n \in Int
  OBVIOUS
<1> HIDE DEF y
<1>2. y % n \in 0..n-1 /\ x % n \in 0..n-1
  BY <1>1, ModRange
<1>3. PICK q \in Int : x = (x % n) + q * n
  BY ModQuotient
<1>4. PICK r \in Int : y = (y % n) + r * n
  BY <1>1, ModQuotient
<1> DEFINE a == y % n
           b == x % n
<1>5. a \in 0..n-1 /\ b \in 0..n-1 /\ x = b + q * n /\ y = a + r * n /\ y = x + k * n
  BY <1>2, <1>3, <1>4 DEF y
<1> HIDE DEF a, b
<1>6. a = b + (k - r + q) * n
  BY <1>5
<1>7. a = b
  BY <1>5, <1>6, ModUnique
<1> QED BY <1>7 DEF a, b, y

LEMMA ModPlus ==
  ASSUME NEW n \in Nat \ {0}, NEW x \in Int, NEW y \in Int
  PROVE  ((x % n) + y) % n = (x + y) % n
<1> DEFINE a == x % n
<1>1. PICK q \in Int : x = a + q * n
  BY ModQuotient
<1>2. a \in Int
  BY ModRange
<1> HIDE DEF a
<1>3. x + y = (a + y) + q * n
  BY <1>1, <1>2
<1>4. a + y \in Int
  BY <1>2
<1>5. ((a + y) + q * n) % n = (a + y) % n
  BY <1>4, ModTurns
<1> QED BY <1>3, <1>5 DEF a

LEMMA ModMinus ==
  ASSUME NEW n \in Nat \ {0}, NEW x \in Int, NEW y \in Int
  PROVE  (y - (x % n)) % n = (y - x) % n
<1> DEFINE a == x % n
<1>1. PICK q \in Int : x = a + q * n
  BY ModQuotient
<1>2. a \in Int
  BY ModRange
<1> HIDE DEF a
<1>3. y - a = (y - x) + q * n
  BY <1>1, <1>2
<1>4. y - x \in Int
  OBVIOUS
<1>5. ((y - x) + q * n) % n = (y - x) % n
  BY <1>4, ModTurns
<1> QED BY <1>3, <1>5 DEF a

LEMMA WrapRange == ASSUME NEW x \in Int PROVE Wrap(x) \in 0..Clock-1
  BY ModRange, Bounds DEF Wrap

LEMMA WrapSmall == ASSUME NEW x \in 0..Clock-1 PROVE Wrap(x) = x
  BY ModSmall, Bounds DEF Wrap

LEMMA WrapPlus ==
  ASSUME NEW x \in Int, NEW y \in Int PROVE Wrap(Wrap(x) + y) = Wrap(x + y)
<1>1. Clock \in Nat \ {0}
  BY Bounds
<1>2. ((x % Clock) + y) % Clock = (x + y) % Clock
  BY <1>1, ModPlus
<1> QED BY <1>2 DEF Wrap

LEMMA WrapMinus ==
  ASSUME NEW x \in Int, NEW y \in Int PROVE Wrap(y - Wrap(x)) = Wrap(y - x)
<1>1. Clock \in Nat \ {0}
  BY Bounds
<1>2. (y - (x % Clock)) % Clock = (y - x) % Clock
  BY <1>1, ModMinus
<1> QED BY <1>2 DEF Wrap

(* A start set v cycles back is v cycles ago. *)
LEMMA SinceSet ==
  ASSUME NEW c \in Int, NEW v \in 0..Clock-1
  PROVE  Wrap(c - Wrap(c - v)) = v
<1>1. Wrap(c - Wrap(c - v)) = Wrap(c - (c - v))
  BY WrapMinus, Bounds
<1>2. c - (c - v) = v
  BY Bounds
<1> QED BY <1>1, <1>2, WrapSmall

(* A cycle later it is one cycle more. *)
LEMMA SinceRun ==
  ASSUME NEW c \in Int, NEW start \in Int, Wrap(c - start) + 1 < Clock
  PROVE  Wrap(Wrap(c + 1) - start) = Wrap(c - start) + 1
<1>1. Wrap(Wrap(c + 1) + (-start)) = Wrap((c + 1) + (-start))
  BY WrapPlus
<1>2. Wrap(Wrap(c - start) + 1) = Wrap((c - start) + 1)
  BY WrapPlus
<1>3. (c + 1) + (-start) = (c - start) + 1
  OBVIOUS
<1>4. Wrap(c - start) \in 0..Clock-1 /\ Wrap(c + 1) \in 0..Clock-1
  BY WrapRange
<1>5. Wrap(Wrap(c - start) + 1) = Wrap(c - start) + 1
  BY <1>4, WrapSmall, Bounds
<1>6. Wrap(c + 1) + (-start) = Wrap(c + 1) - start
  BY <1>4
<1> QED BY <1>1, <1>2, <1>3, <1>5, <1>6

(* A start that is moved on by d cycles. *)
LEMMA SinceMoved ==
  ASSUME NEW c \in Int, NEW start \in Int, NEW d \in Nat, d <= Wrap(c - start)
  PROVE  Wrap(c - Wrap(start + d)) = Wrap(c - start) - d
<1>1. Wrap(c - Wrap(start + d)) = Wrap(c - (start + d))
  BY WrapMinus
<1>2. Wrap(Wrap(c - start) + (-d)) = Wrap((c - start) + (-d))
  BY WrapPlus
<1>3. (c - start) + (-d) = c - (start + d)
  OBVIOUS
<1>4. Wrap(c - start) \in 0..Clock-1
  BY WrapRange
<1>5. Wrap(Wrap(c - start) + (-d)) = Wrap(c - start) - d
  BY <1>4, WrapSmall, Bounds
<1> QED BY <1>1, <1>2, <1>3, <1>5

(* A difference that is not too large is read as it is. *)
LEMMA SignedSmall ==
  ASSUME NEW x \in Int, -(2 * Late) <= x, x < Half
  PROVE  Signed(x) = x
<1>1. CASE x >= 0
  <2>1. x \in 0..Clock-1
    BY <1>1, Bounds
  <2> QED BY <1>1, <2>1, WrapSmall DEF Signed
<1>2. CASE x < 0
  <2>1. x + Clock \in 0..Clock-1 /\ ~(x + Clock < Half)
    BY <1>2, Bounds
  <2>2. Wrap(x + Clock) = Wrap(x)
    <3>1. Clock \in Nat \ {0} /\ x + 1 * Clock = x + Clock
      BY Bounds
    <3>2. \A k \in Int : (x + k * Clock) % Clock = x % Clock
      BY <3>1, ModTurns
    <3>3. (x + 1 * Clock) % Clock = x % Clock
      BY <3>2
    <3> QED BY <3>1, <3>3 DEF Wrap
  <2>3. Wrap(x) = x + Clock
    BY <2>1, <2>2, WrapSmall
  <2> QED BY <2>1, <2>3, Bounds DEF Signed
<1> QED BY <1>1, <1>2

(* A timer that is followed. *)
LEMMA FollowedTimes ==
  ASSUME NEW t \in TimerType, Followed(t)
  PROVE  /\ Reach(t) \in Nat /\ Full(t) \in Nat /\ t.target \in Nat /\ t.rate \in Nat \ {0}
         /\ Reach(t) < Full(t) /\ Late < Full(t) /\ Full(t) + 2 * Late < Half
         /\ t.target = 0 => Reach(t) = 0
         /\ t.target > 0 => Late < Reach(t)
<1>1. /\ t.rate \in Rates /\ t.target \in 0..Overflow-1
      /\ t.target = 0 \/ t.target * t.rate > Late
  BY CountersAssumption DEF TimerType, Followed
<1>2. t.rate \in Nat \ {0} /\ Late < Overflow * t.rate /\ Overflow * t.rate + 2 * Late < Half
  BY <1>1, CountersAssumption
<1> DEFINE r == t.rate
           T == t.target
<1>3. r \in Nat \ {0} /\ T \in Nat /\ T < Overflow
  BY <1>1, <1>2, Bounds
<1> HIDE DEF r, T
<1>4. T * r \in Nat /\ Overflow * r \in Nat
  BY <1>3, Bounds
<1>5. T * r < Overflow * r
  BY <1>3, Bounds
<1>6. T = 0 => T * r = 0
  BY <1>3
<1> QED BY <1>1, <1>2, <1>3, <1>4, <1>5, <1>6 DEF Reach, Full, r, T

-----------------------------------------------------------------------------
(* What an ideal timer has passed is a short sequence.                      *)
LEMMA AppendTwo ==
  ASSUME NEW S, NEW a \in Seq(S), NEW e \in S, Len(a) = 1
  PROVE  /\ Append(a, e) \in Seq(S) /\ Len(Append(a, e)) = 2
         /\ Append(a, e)[1] = a[1] /\ Append(a, e)[2] = e
<1>1. Append(a, e) \in Seq(S)
  BY AppendProperties
<1>2. Len(Append(a, e)) = Len(a) + 1
  BY AppendProperties
<1>3. Append(a, e)[Len(a) + 1] = e
  BY AppendProperties
<1>4. \A i \in 1..Len(a) : Append(a, e)[i] = a[i]
  BY AppendProperties
<1> DEFINE c == Append(a, e)
<1> HIDE DEF c
<1>5. c \in Seq(S) /\ Len(c) = Len(a) + 1 /\ c[Len(a) + 1] = e /\ c[1] = a[1]
  BY <1>1, <1>2, <1>3, <1>4 DEF c
<1>6. Len(c) = 2 /\ c[2] = e
  BY <1>5
<1> QED BY <1>5, <1>6 DEF c

LEMMA BothPassed ==
  ASSUME NEW a \in Seq(Kinds), NEW e \in Kinds, Len(a) = 1, a[1] = "target", e = "overflow"
  PROVE  Append(a, e) = <<"target", "overflow">>
<1> DEFINE b == <<"target", "overflow">>
           c == Append(a, e)
<1>1. b \in Seq(Kinds) /\ Len(b) = 2 /\ b[1] = "target" /\ b[2] = "overflow"
  BY DEF Kinds
<1>2. c \in Seq(Kinds) /\ Len(c) = 2 /\ c[1] = "target" /\ c[2] = "overflow"
  BY AppendTwo
<1> HIDE DEF b, c
<1>3. \A i \in 1..Len(c) : c[i] = b[i]
  BY <1>1, <1>2
<1>4. c = b
  BY <1>1, <1>2, <1>3, SeqEqual
<1> QED BY <1>4 DEF b, c

LEMMA Passings ==
  /\ Append(<<>>, "target") = <<"target">> /\ Append(<<>>, "overflow") = <<"overflow">>
  /\ Append(<<"target">>, "overflow") = <<"target", "overflow">>
  /\ Len(<<>>) = 0 /\ Len(<<"target">>) = 1 /\ Len(<<"overflow">>) = 1
  /\ Len(<<"target", "overflow">>) = 2
  /\ <<>> # <<"target">> /\ <<>> # <<"overflow">> /\ <<"target">> # <<"overflow">>
<1>1. Append(<<>>, "target") = <<"target">> /\ Append(<<>>, "overflow") = <<"overflow">>
  OBVIOUS
<1>2. Append(<<"target">>, "overflow") = <<"target", "overflow">>
  <2>1. <<"target">> \in Seq(Kinds) /\ Len(<<"target">>) = 1 /\ <<"target">>[1] = "target"
    BY DEF Kinds
  <2>2. "overflow" \in Kinds
    BY DEF Kinds
  <2> QED BY <2>1, <2>2, BothPassed
<1>3. Len(<<>>) = 0 /\ Len(<<"target">>) = 1 /\ Len(<<"overflow">>) = 1
  OBVIOUS
<1>4. Len(<<"target", "overflow">>) = 2
  OBVIOUS
<1>5. <<>> # <<"target">> /\ <<>> # <<"overflow">>
  BY <1>3
<1>6. <<"target">> # <<"overflow">>
  OBVIOUS
<1> QED BY <1>1, <1>2, <1>3, <1>4, <1>5, <1>6

LEMMA AllSeen == ASSUME NEW s, Len(s) \in Nat PROVE SubSeq(s, Len(s) + 1, Len(s)) = <<>>
  BY SubSeqEmpty

(* Lateness only grows. *)
LEMMA SoundLater ==
  ASSUME NEW t \in TimerType, NEW x, NEW s \in Nat, NEW l \in Nat, NEW m \in Nat, l <= m,
         Sound(t, x, s, l)
  PROVE  Sound(t, x, s, m)
<1>1. t.cycle \in Nat
  BY Bounds DEF TimerType
<1>2. s <= t.cycle + m
  BY <1>1 DEF Sound
<1> QED BY <1>2 DEF Sound

(* A followed timer runs for a cycle, and its ideal with it. *)
LEMMA TickSound ==
  ASSUME NEW t \in TimerType, NEW x \in IdealType, NEW s \in Nat, NEW l \in 0..Late,
         NEW m \in 0..Late, Followed(t), Sound(t, x, s, l), s + 1 <= t.cycle + m
  PROVE  Sound(t, Tick(t, x), s + 1, m) /\ Tick(t, x) \in IdealType
<1> DEFINE p == x.phase + 1
           R == Reach(t)
           F == Full(t)
           y == Tick(t, x)
<1>1. /\ R \in Nat /\ F \in Nat /\ R < F /\ Late < F /\ (t.target = 0 => R = 0)
      /\ (t.target > 0 => Late < R) /\ t.target \in Nat /\ Late \in Nat
  BY FollowedTimes, Bounds
<1>2. p \in Nat /\ p > 0 /\ x.phase \in Nat /\ x.owed \in Seq(Kinds)
  BY DEF IdealType
<1>3. y = IF p = R THEN [x EXCEPT !.phase = IF t.mode.toTarget THEN 0 ELSE p,
                                  !.owed = Append(x.owed, "target")]
          ELSE IF p = F THEN [x EXCEPT !.phase = 0, !.owed = Append(x.owed, "overflow")]
          ELSE [x EXCEPT !.phase = p]
  <2>1. CASE p = R
    BY <1>1, <2>1 DEF Tick, Reach, Full
  <2>2. CASE p # R /\ p = F
    BY <1>1, <2>2 DEF Tick, Reach, Full
  <2>3. CASE p # R /\ p # F
    BY <1>1, <2>3 DEF Tick, Reach, Full
  <2> QED BY <1>1, <2>1, <2>2, <2>3
<1>4. /\ x = [phase |-> x.phase, owed |-> x.owed, want |-> x.want, told |-> x.told]
      /\ x.want \in BOOLEAN /\ x.told \in BOOLEAN
  BY DEF IdealType
<1> HIDE DEF p, R, F, y
<1>5. /\ y.want = x.want /\ y.told = x.told
      /\ y.phase = (IF p = R THEN (IF t.mode.toTarget THEN 0 ELSE p) ELSE IF p = F THEN 0 ELSE p)
      /\ y.owed = IF p = R THEN Append(x.owed, "target")
                  ELSE IF p = F THEN Append(x.owed, "overflow") ELSE x.owed
      /\ y = [phase |-> y.phase, owed |-> y.owed, want |-> y.want, told |-> y.told]
  BY <1>3, <1>4
<1>6. y \in IdealType
  <2>1. y.phase \in Nat
    BY <1>2, <1>5
  <2>2. y.owed \in Seq(Kinds)
    BY <1>2, <1>5 DEF Kinds
  <2> QED BY <1>4, <1>5, <2>1, <2>2 DEF IdealType
<1>7. /\ t.cycle = (IF t.counterState = "target" THEN R ELSE F)
      /\ (t.counterState = "target" => t.target > 0)
      /\ Place(t, x, s) /\ x.told = t.irqState /\ x.want = t.irq
      /\ t.counterState \in {"target", "overflow"}
  BY DEF Sound, R, F, TimerType, Kinds
<1>8. Place(t, y, s + 1)
  <2>1. CASE x.owed = <<>> /\ s = x.phase /\ s < t.cycle /\ (t.counterState = "overflow" => R <= s)
    <3>1. s + 1 = p
      BY <2>1 DEF p
    <3>2. CASE p = R
      <4>1. t.counterState = "target" /\ t.cycle = R
        BY <1>1, <1>7, <2>1, <3>1, <3>2
      <4>2. y.owed = <<"target">> /\ y.phase = IF t.mode.toTarget THEN 0 ELSE p
        BY <1>5, <2>1, <3>2, Passings
      <4> QED BY <1>1, <1>2, <3>1, <3>2, <4>1, <4>2 DEF Place, R, F
    <3>3. CASE p = F /\ p # R
      <4>1. t.counterState = "overflow"
        BY <1>1, <1>7, <2>1, <3>1, <3>3
      <4>2. y.owed = <<"overflow">> /\ y.phase = 0
        BY <1>5, <2>1, <3>3, Passings
      <4> QED BY <1>1, <3>1, <3>3, <4>1, <4>2 DEF Place, F
    <3>4. CASE p # F /\ p # R
      <4>1. y.owed = <<>> /\ y.phase = p
        BY <1>5, <2>1, <3>4
      <4>2. s + 1 < t.cycle /\ (t.counterState = "overflow" => R <= s + 1)
        BY <1>1, <1>2, <1>7, <2>1, <3>1, <3>4
      <4> QED BY <3>1, <4>1, <4>2 DEF Place, R
    <3> QED BY <3>2, <3>3, <3>4
  <2>2. CASE /\ x.owed = <<"target">> /\ t.counterState = "target" /\ s >= t.cycle
             /\ t.mode.toTarget /\ s = x.phase + R
    <3>1. p <= Late /\ p # R /\ p # F
      BY <1>1, <1>2, <1>7, <2>2 DEF p
    <3>2. y.owed = <<"target">> /\ y.phase = p
      BY <1>5, <2>2, <3>1
    <3>3. s + 1 = p + R /\ s + 1 >= t.cycle
      BY <1>1, <1>2, <1>7, <2>2 DEF p
    <3> QED BY <2>2, <3>2, <3>3 DEF Place, R
  <2>3. CASE /\ x.owed = <<"target">> /\ t.counterState = "target" /\ s >= t.cycle
             /\ ~t.mode.toTarget /\ s = x.phase /\ x.phase < F
    <3>1. s + 1 = p /\ p # R /\ p > R /\ t.cycle = R
      BY <1>1, <1>2, <1>7, <2>3 DEF p
    <3>2. CASE p = F
      <4>1. y.owed = <<"target", "overflow">> /\ y.phase = 0
        BY <1>5, <2>3, <3>1, <3>2, Passings
      <4> QED BY <1>1, <2>3, <3>1, <3>2, <4>1 DEF Place, F
    <3>3. CASE p # F
      <4>1. y.owed = <<"target">> /\ y.phase = p /\ p < F
        BY <1>1, <1>2, <1>5, <2>3, <3>1, <3>3 DEF p
      <4> QED BY <1>1, <2>3, <3>1, <4>1 DEF Place, F
    <3> QED BY <3>2, <3>3
  <2>4. CASE x.owed = <<"overflow">> /\ t.counterState = "overflow" /\ s = x.phase + F
    <3>1. p <= Late /\ p # F
      BY <1>1, <1>2, <1>7, <2>4 DEF p
    <3>2. p # R
      BY <1>1, <1>2, <3>1
    <3>3. y.owed = <<"overflow">> /\ y.phase = p
      BY <1>5, <2>4, <3>1, <3>2
    <3>4. s + 1 = p + F
      BY <1>1, <1>2, <2>4 DEF p
    <3> QED BY <2>4, <3>3, <3>4 DEF Place, F
  <2>5. CASE /\ x.owed = <<"target", "overflow">> /\ t.counterState = "target"
             /\ ~t.mode.toTarget /\ s = x.phase + F
    <3>1. p <= Late /\ p # R /\ p # F
      BY <1>1, <1>2, <1>7, <2>5 DEF p
    <3>2. y.owed = <<"target", "overflow">> /\ y.phase = p
      BY <1>5, <2>5, <3>1
    <3>3. s + 1 = p + F
      BY <1>1, <1>2, <2>5 DEF p
    <3> QED BY <2>5, <3>2, <3>3 DEF Place, F
  <2> QED BY <1>2, <1>7, <2>1, <2>2, <2>3, <2>4, <2>5 DEF Place, R, F
<1> QED BY <1>5, <1>6, <1>7, <1>8 DEF Sound, y, R, F

-----------------------------------------------------------------------------
(* What the operators of a timer return.                                    *)
LEMMA Fields ==
  ASSUME NEW t \in TimerType
  PROVE  /\ t = [mode |-> t.mode, rate |-> t.rate, target |-> t.target,
                 counterState |-> t.counterState, cycle |-> t.cycle,
                 cycleStart |-> t.cycleStart, irqState |-> t.irqState, irq |-> t.irq]
         /\ t.mode \in Mode /\ t.rate \in Rates \cup {Disabled} /\ t.target \in Targets
         /\ t.counterState \in Kinds /\ t.cycle \in 0..Clock-1 /\ t.cycleStart \in 0..Clock-1
         /\ t.irqState \in BOOLEAN /\ t.irq \in BOOLEAN
         /\ t.rate \in Nat \ {0} /\ t.target \in 0..Overflow-1
<1>1. Disabled \in Nat \ {0}
  BY Bounds DEF Disabled
<1>2. Rates \subseteq Nat \ {0} /\ Targets \subseteq 0..Overflow-1
  BY CountersAssumption
<1>3. t.rate \in Nat \ {0} /\ t.target \in 0..Overflow-1
  BY <1>1, <1>2 DEF TimerType
<1> QED BY <1>3 DEF TimerType

LEMMA ModeFields ==
  ASSUME NEW m \in Mode
  PROVE  /\ m.toTarget \in BOOLEAN /\ m.onTarget \in BOOLEAN /\ m.onOverflow \in BOOLEAN
         /\ m.regenerate \in BOOLEAN
  BY DEF Mode

(* A timer made of such parts. *)
LEMMA TimerMade ==
  ASSUME NEW m \in Mode, NEW r \in Rates \cup {Disabled}, NEW g \in Targets, NEW k \in Kinds,
         NEW c \in 0..Clock-1, NEW a \in 0..Clock-1, NEW q \in BOOLEAN, NEW i \in BOOLEAN
  PROVE  [mode |-> m, rate |-> r, target |-> g, counterState |-> k, cycle |-> c,
          cycleStart |-> a, irqState |-> q, irq |-> i] \in TimerType
  BY DEF TimerType

LEMMA SinceType ==
  ASSUME cycle \in 0..Clock-1, NEW a \in 0..Clock-1 PROVE Since(a) \in 0..Clock-1
  BY WrapRange, Bounds DEF Since

(* What of a mode raises the interrupt. *)
Fires(t, event) == event /\ (t.mode.regenerate \/ ~t.irqState)

LEMMA OverflowsIs ==
  ASSUME cycle \in 0..Clock-1, NEW t \in TimerType
  PROVE  LET u == Overflows(t)
             late == Wrap(Since(t.cycleStart) - Full(t))
             again == late < Wrap(Reach(t))
         IN  /\ u \in TimerType /\ u.mode = t.mode /\ u.rate = t.rate /\ u.target = t.target
             /\ u.cycleStart = Wrap(cycle - late)
             /\ u.cycle = IF again THEN Wrap(Reach(t)) ELSE t.cycle
             /\ u.counterState = IF again THEN "target" ELSE t.counterState
             /\ u.irqState = (t.irqState \/ Fires(t, t.mode.onOverflow))
             /\ u.irq = (t.irq \/ Fires(t, t.mode.onOverflow))
<1> DEFINE late == Wrap(Since(t.cycleStart) - Full(t))
           again == late < Wrap(Reach(t))
           fires == Fires(t, t.mode.onOverflow)
           c == IF again THEN Wrap(Reach(t)) ELSE t.cycle
           k == IF again THEN "target" ELSE t.counterState
           a == Wrap(cycle - late)
           q == t.irqState \/ fires
           i == t.irq \/ fires
           u == Overflows(t)
<1>1. Since(t.cycleStart) \in 0..Clock-1
  BY Fields, SinceType
<1>2. Full(t) \in Int /\ Reach(t) \in Int
  BY Fields, Bounds DEF Full, Reach
<1>3. late \in 0..Clock-1 /\ Wrap(Reach(t)) \in 0..Clock-1
  BY <1>1, <1>2, WrapRange, Bounds
<1>4. u = [t EXCEPT !.cycleStart = a, !.cycle = c, !.counterState = k, !.irqState = q, !.irq = i]
  BY DEF Overflows, Full, Reach, Fires
<1>5. a \in 0..Clock-1
  <2> HIDE DEF late
  <2> QED BY <1>3, WrapRange, Bounds
<1>6. c \in 0..Clock-1 /\ k \in Kinds
  BY <1>3, Fields DEF Kinds
<1>7. q \in BOOLEAN /\ i \in BOOLEAN
  BY Fields, ModeFields DEF Fires
<1> HIDE DEF a, c, k, q, i
<1>8. u = [mode |-> t.mode, rate |-> t.rate, target |-> t.target, counterState |-> k,
           cycle |-> c, cycleStart |-> a, irqState |-> q, irq |-> i]
  BY <1>4, Fields
<1> HIDE DEF u
<1>9. u \in TimerType
  BY <1>5, <1>6, <1>7, <1>8, Fields, TimerMade
<1>10. /\ u.mode = t.mode /\ u.rate = t.rate /\ u.target = t.target /\ u.cycleStart = a
       /\ u.cycle = c /\ u.counterState = k /\ u.irqState = q /\ u.irq = i
  BY <1>8
<1> QED BY <1>9, <1>10, Zenon DEF u, a, c, k, q, i

LEMMA ReachesTargetIs ==
  ASSUME cycle \in 0..Clock-1, NEW t \in TimerType
  PROVE  LET u == ReachesTarget(t)
             late == IF t.mode.toTarget THEN Wrap(Since(t.cycleStart) - Reach(t))
                     ELSE Since(t.cycleStart)
         IN  /\ u \in TimerType /\ u.mode = t.mode /\ u.rate = t.rate /\ u.target = t.target
             /\ u.cycleStart = Wrap(cycle - late)
             /\ u.cycle = IF t.mode.toTarget THEN t.cycle ELSE Wrap(Full(t))
             /\ u.counterState = IF t.mode.toTarget THEN t.counterState ELSE "overflow"
             /\ u.irqState = (t.irqState \/ Fires(t, t.mode.onTarget))
             /\ u.irq = (t.irq \/ Fires(t, t.mode.onTarget))
<1> DEFINE late == IF t.mode.toTarget THEN Wrap(Since(t.cycleStart) - Reach(t))
                   ELSE Since(t.cycleStart)
           fires == Fires(t, t.mode.onTarget)
           c == IF t.mode.toTarget THEN t.cycle ELSE Wrap(Full(t))
           k == IF t.mode.toTarget THEN t.counterState ELSE "overflow"
           a == Wrap(cycle - late)
           q == t.irqState \/ fires
           i == t.irq \/ fires
           u == ReachesTarget(t)
<1>1. Since(t.cycleStart) \in 0..Clock-1
  BY Fields, SinceType
<1>2. Full(t) \in Int /\ Reach(t) \in Int
  BY Fields, Bounds DEF Full, Reach
<1>3. late \in 0..Clock-1 /\ Wrap(Full(t)) \in 0..Clock-1
  BY <1>1, <1>2, WrapRange, Bounds
<1>4. u = [t EXCEPT !.cycleStart = a, !.cycle = c, !.counterState = k, !.irqState = q, !.irq = i]
  BY DEF ReachesTarget, Full, Reach, Fires
<1>5. a \in 0..Clock-1
  <2> HIDE DEF late
  <2> QED BY <1>3, WrapRange, Bounds
<1>6. c \in 0..Clock-1 /\ k \in Kinds
  BY <1>3, Fields DEF Kinds
<1>7. q \in BOOLEAN /\ i \in BOOLEAN
  BY Fields, ModeFields DEF Fires
<1> HIDE DEF a, c, k, q, i
<1>8. u = [mode |-> t.mode, rate |-> t.rate, target |-> t.target, counterState |-> k,
           cycle |-> c, cycleStart |-> a, irqState |-> q, irq |-> i]
  BY <1>4, Fields
<1> HIDE DEF u
<1>9. u \in TimerType
  BY <1>5, <1>6, <1>7, <1>8, Fields, TimerMade
<1>10. /\ u.mode = t.mode /\ u.rate = t.rate /\ u.target = t.target /\ u.cycleStart = a
       /\ u.cycle = c /\ u.counterState = k /\ u.irqState = q /\ u.irq = i
  BY <1>8
<1> QED BY <1>9, <1>10, Zenon DEF u, a, c, k, q, i

LEMMA IrqSet ==
  ASSUME NEW t \in TimerType, NEW f
  PROVE  [t EXCEPT !.irq = f] =
           [mode |-> t.mode, rate |-> t.rate, target |-> t.target,
            counterState |-> t.counterState, cycle |-> t.cycle,
            cycleStart |-> t.cycleStart, irqState |-> t.irqState, irq |-> f]
<1>1. t = [mode |-> t.mode, rate |-> t.rate, target |-> t.target,
           counterState |-> t.counterState, cycle |-> t.cycle,
           cycleStart |-> t.cycleStart, irqState |-> t.irqState, irq |-> t.irq]
  BY Fields
<1> QED BY <1>1

LEMMA UpdatedType ==
  ASSUME cycle \in 0..Clock-1, NEW t \in TimerType
  PROVE  /\ [t EXCEPT !.irq = FALSE] \in TimerType /\ Updated(t) \in TimerType
         /\ Updated(t).mode = t.mode /\ Updated(t).rate = t.rate /\ Updated(t).target = t.target
<1> DEFINE z == [t EXCEPT !.irq = FALSE]
           f == FALSE
<1>1. z = [mode |-> t.mode, rate |-> t.rate, target |-> t.target,
           counterState |-> t.counterState, cycle |-> t.cycle,
           cycleStart |-> t.cycleStart, irqState |-> t.irqState, irq |-> f]
  BY IrqSet, Zenon
<1>2. z \in TimerType /\ z.mode = t.mode /\ z.rate = t.rate /\ z.target = t.target
  <2>1. /\ t.mode \in Mode /\ t.rate \in Rates \cup {Disabled} /\ t.target \in Targets
        /\ t.counterState \in Kinds /\ t.cycle \in 0..Clock-1 /\ t.cycleStart \in 0..Clock-1
        /\ t.irqState \in BOOLEAN /\ f \in BOOLEAN
    BY Fields
  <2> HIDE DEF z, f
  <2>2. z \in TimerType
    BY <1>1, <2>1, TimerMade
  <2> QED BY <1>1, <2>2
<1> HIDE DEF z
<1>3. /\ Overflows(z) \in TimerType /\ Overflows(z).mode = z.mode
      /\ Overflows(z).rate = z.rate /\ Overflows(z).target = z.target
  BY <1>2, OverflowsIs
<1>4. /\ ReachesTarget(z) \in TimerType /\ ReachesTarget(z).mode = z.mode
      /\ ReachesTarget(z).rate = z.rate /\ ReachesTarget(z).target = z.target
  BY <1>2, ReachesTargetIs
<1> DEFINE w == ReachesTarget(z)
<1> HIDE DEF w
<1>5. /\ Overflows(w) \in TimerType /\ Overflows(w).mode = w.mode
      /\ Overflows(w).rate = w.rate /\ Overflows(w).target = w.target
  BY <1>4, OverflowsIs DEF w
<1>6. Updated(t) \in {z, Overflows(z), w, Overflows(w)}
  <2>1. z.counterState \in Kinds
    BY <1>2, Fields
  <2>2. Reset(z) \in {Overflows(z), w, Overflows(w)}
    <3>1. CASE z.counterState = "overflow"
      BY <3>1 DEF Reset
    <3>2. CASE z.counterState = "target" /\ Both(z)
      BY <3>2 DEF Reset, w
    <3>3. CASE z.counterState = "target" /\ ~Both(z)
      BY <3>3 DEF Reset, w
    <3> QED BY <2>1, <3>1, <3>2, <3>3 DEF Kinds
  <2> QED BY <2>2 DEF Updated, z
<1> QED BY <1>2, <1>3, <1>4, <1>5, <1>6 DEF w, z

-----------------------------------------------------------------------------
(* What an update makes of a timer, and of its ideal.                       *)
Hears(t, x, n) ==
  /\ \E k \in 1..n : k <= Len(x.owed) /\
       IF x.owed[k] = "target" THEN t.mode.onTarget ELSE t.mode.onOverflow
  /\ t.mode.regenerate \/ ~x.told

Recalls(t, x, n) == x.told \/ Hears(t, x, n)

LEMMA PassIs ==
  ASSUME NEW t \in TimerType, NEW x \in IdealType, NEW n \in 0..2
  PROVE  /\ Pass(t, x, n) = [phase |-> x.phase, owed |-> SubSeq(x.owed, n + 1, Len(x.owed)),
                             want |-> Hears(t, x, n), told |-> Recalls(t, x, n)]
         /\ Pass(t, x, n) \in IdealType
<1> DEFINE h == Hears(t, x, n)
           o == SubSeq(x.owed, n + 1, Len(x.owed))
           d == Recalls(t, x, n)
           y == Pass(t, x, n)
<1>1. x.phase \in Nat /\ x.owed \in Seq(Kinds) /\ x.want \in BOOLEAN /\ x.told \in BOOLEAN
  BY DEF IdealType
<1>2. Len(x.owed) \in Nat
  BY <1>1, LenProperties
<1>3. o \in Seq(Kinds)
  <2>1. CASE n + 1 <= Len(x.owed)
    <3>1. n + 1 \in 1..(Len(x.owed) + 1) /\ Len(x.owed) \in 0..Len(x.owed)
      BY <1>2, <2>1
    <3>2. \A i \in 1..Len(x.owed) : x.owed[i] \in Kinds
      BY <1>1, ElementOfSeq
    <3>3. \A i \in (n + 1)..Len(x.owed) : x.owed[i] \in Kinds
      BY <1>2, <3>2
    <3> QED BY <1>1, <1>2, <3>1, <3>3, SubSeqProperties
  <2>2. CASE ~(n + 1 <= Len(x.owed))
    <3>1. Len(x.owed) < n + 1
      BY <1>2, <2>2
    <3>2. o = <<>>
      BY <1>2, <3>1, SubSeqEmpty
    <3> QED BY <3>2, EmptySeq
  <2> QED BY <2>1, <2>2
<1>4. h \in BOOLEAN /\ d \in BOOLEAN
  BY DEF Hears, Recalls
<1>5. y = [x EXCEPT !.owed = o, !.want = h, !.told = d]
  BY DEF Pass, Hears, Recalls
<1> HIDE DEF h, o, d, y
<1>6. x = [phase |-> x.phase, owed |-> x.owed, want |-> x.want, told |-> x.told]
  BY DEF IdealType
<1>7. y = [phase |-> x.phase, owed |-> o, want |-> h, told |-> d]
  BY <1>5, <1>6
<1>8. y \in IdealType
  BY <1>1, <1>3, <1>4, <1>7 DEF IdealType
<1> QED BY <1>7, <1>8, Zenon DEF y, o, d, h

(* It is shown nothing, one passing, or the target and the overflow. *)
LEMMA PassNone ==
  ASSUME NEW t \in TimerType, NEW x \in IdealType, x.owed = <<>>
  PROVE  /\ Pass(t, x, 0).phase = x.phase /\ Pass(t, x, 0).owed = <<>>
         /\ Pass(t, x, 0).want = FALSE /\ Pass(t, x, 0).told = x.told
<1>1. 0 \in 0..2
  OBVIOUS
<1>2. \A n \in 0..2 :
        Pass(t, x, n) = [phase |-> x.phase, owed |-> SubSeq(x.owed, n + 1, Len(x.owed)),
                         want |-> Hears(t, x, n), told |-> Recalls(t, x, n)]
  BY PassIs, Zenon
<1>3. Pass(t, x, 0) = [phase |-> x.phase, owed |-> SubSeq(x.owed, 0 + 1, Len(x.owed)),
                       want |-> Hears(t, x, 0), told |-> Recalls(t, x, 0)]
  BY <1>1, <1>2, Zenon
<1>4. /\ Pass(t, x, 0).phase = x.phase
      /\ Pass(t, x, 0).owed = SubSeq(x.owed, 0 + 1, Len(x.owed))
      /\ Pass(t, x, 0).want = Hears(t, x, 0) /\ Pass(t, x, 0).told = Recalls(t, x, 0)
  BY <1>3
<1>5. Hears(t, x, 0) = FALSE
  BY DEF Hears
<1>6. Recalls(t, x, 0) = x.told
  BY <1>5 DEF Recalls, IdealType
<1>7. SubSeq(x.owed, 0 + 1, Len(x.owed)) = <<>>
  BY Passings, AllSeen
<1> QED BY <1>4, <1>5, <1>6, <1>7, Zenon

LEMMA PassOne ==
  ASSUME NEW t \in TimerType, NEW x \in IdealType, NEW e \in Kinds, x.owed = <<e>>,
         NEW f \in BOOLEAN,
         f <=> /\ IF e = "target" THEN t.mode.onTarget ELSE t.mode.onOverflow
               /\ t.mode.regenerate \/ ~x.told
  PROVE  /\ Pass(t, x, 1).phase = x.phase /\ Pass(t, x, 1).owed = <<>>
         /\ Pass(t, x, 1).want = f /\ Pass(t, x, 1).told = (x.told \/ f)
<1>1. 1 \in 0..2
  OBVIOUS
<1>2. \A n \in 0..2 :
        Pass(t, x, n) = [phase |-> x.phase, owed |-> SubSeq(x.owed, n + 1, Len(x.owed)),
                         want |-> Hears(t, x, n), told |-> Recalls(t, x, n)]
  BY PassIs, Zenon
<1>3. Pass(t, x, 1) = [phase |-> x.phase, owed |-> SubSeq(x.owed, 1 + 1, Len(x.owed)),
                       want |-> Hears(t, x, 1), told |-> Recalls(t, x, 1)]
  BY <1>1, <1>2, Zenon
<1>4. /\ Pass(t, x, 1).phase = x.phase
      /\ Pass(t, x, 1).owed = SubSeq(x.owed, 1 + 1, Len(x.owed))
      /\ Pass(t, x, 1).want = Hears(t, x, 1) /\ Pass(t, x, 1).told = Recalls(t, x, 1)
  BY <1>3
<1>5. Len(x.owed) = 1 /\ x.owed[1] = e
  OBVIOUS
<1>6. Hears(t, x, 1) = f
  <2>1. t.mode.onTarget \in BOOLEAN /\ t.mode.onOverflow \in BOOLEAN
    BY Fields, ModeFields
  <2>2. (\E k \in 1..1 : k <= Len(x.owed) /\
             IF x.owed[k] = "target" THEN t.mode.onTarget ELSE t.mode.onOverflow)
        <=> IF e = "target" THEN t.mode.onTarget ELSE t.mode.onOverflow
    BY <1>5, <2>1
  <2> QED BY <2>1, <2>2 DEF Hears
<1>7. Recalls(t, x, 1) = (x.told \/ f)
  BY <1>6 DEF Recalls
<1>8. SubSeq(x.owed, 1 + 1, Len(x.owed)) = <<>>
  BY <1>5, AllSeen
<1> QED BY <1>4, <1>6, <1>7, <1>8, Zenon

LEMMA PassTwo ==
  ASSUME NEW t \in TimerType, NEW x \in IdealType, x.owed = <<"target", "overflow">>,
         NEW f \in BOOLEAN,
         f <=> (t.mode.onTarget \/ t.mode.onOverflow) /\ (t.mode.regenerate \/ ~x.told)
  PROVE  /\ Pass(t, x, 2).phase = x.phase /\ Pass(t, x, 2).owed = <<>>
         /\ Pass(t, x, 2).want = f /\ Pass(t, x, 2).told = (x.told \/ f)
<1>1. 2 \in 0..2
  OBVIOUS
<1>2. \A n \in 0..2 :
        Pass(t, x, n) = [phase |-> x.phase, owed |-> SubSeq(x.owed, n + 1, Len(x.owed)),
                         want |-> Hears(t, x, n), told |-> Recalls(t, x, n)]
  BY PassIs, Zenon
<1>3. Pass(t, x, 2) = [phase |-> x.phase, owed |-> SubSeq(x.owed, 2 + 1, Len(x.owed)),
                       want |-> Hears(t, x, 2), told |-> Recalls(t, x, 2)]
  BY <1>1, <1>2, Zenon
<1>4. /\ Pass(t, x, 2).phase = x.phase
      /\ Pass(t, x, 2).owed = SubSeq(x.owed, 2 + 1, Len(x.owed))
      /\ Pass(t, x, 2).want = Hears(t, x, 2) /\ Pass(t, x, 2).told = Recalls(t, x, 2)
  BY <1>3
<1>5. Len(x.owed) = 2 /\ x.owed[1] = "target" /\ x.owed[2] = "overflow"
  OBVIOUS
<1>6. Hears(t, x, 2) = f
  <2>1. \A k \in 1..2 : k = 1 \/ k = 2
    OBVIOUS
  <2>2. t.mode.onTarget \in BOOLEAN /\ t.mode.onOverflow \in BOOLEAN
    BY Fields, ModeFields
  <2>3. (\E k \in 1..2 : k <= Len(x.owed) /\
             IF x.owed[k] = "target" THEN t.mode.onTarget ELSE t.mode.onOverflow)
        <=> t.mode.onTarget \/ t.mode.onOverflow
    <3>1. 1 \in 1..2 /\ 2 \in 1..2 /\ 1 <= 2 /\ 2 <= 2
      OBVIOUS
    <3> QED BY <1>5, <2>1, <2>2, <3>1
  <2> QED BY <2>2, <2>3 DEF Hears
<1>7. Recalls(t, x, 2) = (x.told \/ f)
  BY <1>6 DEF Recalls
<1>8. SubSeq(x.owed, 2 + 1, Len(x.owed)) = <<>>
  BY <1>5, AllSeen
<1> QED BY <1>4, <1>6, <1>7, <1>8, Zenon

(* A counter past its end. *)
LEMMA OverflowSound ==
  ASSUME cycle \in 0..Clock-1, NEW t \in TimerType, Followed(t),
         NEW s \in Int, s = Since(t.cycleStart), Full(t) <= s, s <= Full(t) + Late,
         t.counterState = "overflow", t.cycle = Full(t),
         NEW y, y.phase = s - Full(t), y.owed = <<>>,
         y.told = Overflows(t).irqState, y.want = Overflows(t).irq
  PROVE  Sound(Overflows(t), y, Since(Overflows(t).cycleStart), 0)
<1> DEFINE u == Overflows(t)
           late == Wrap(s - Full(t))
           R == Reach(t)
           F == Full(t)
<1>1. /\ R \in Nat /\ F \in Nat /\ R < F /\ Late < F /\ F + 2 * Late < Half
      /\ (t.target = 0 => R = 0) /\ t.target \in Nat /\ Late \in Nat
      /\ Half \in Nat /\ 2 * Half <= Clock /\ Clock \in Nat
  BY FollowedTimes, Bounds
<1>2. s - F \in 0..Clock-1 /\ s - F \in 0..Late
  BY <1>1
<1>3. late = s - F
  BY <1>2, WrapSmall
<1>4. Wrap(R) = R
  <2>1. R \in 0..Clock-1
    BY <1>1
  <2> QED BY <2>1, WrapSmall
<1>5. /\ u.target = t.target /\ u.rate = t.rate /\ u.mode = t.mode
      /\ u.cycleStart = Wrap(cycle - late)
      /\ u.cycle = (IF late < Wrap(R) THEN Wrap(R) ELSE t.cycle)
      /\ u.counterState = (IF late < Wrap(R) THEN "target" ELSE t.counterState)
  BY OverflowsIs
<1> HIDE DEF u, late, R, F
<1>6. Since(u.cycleStart) = s - F
  <2>1. cycle \in Int /\ late \in 0..Clock-1
    BY <1>1, <1>2, <1>3
  <2>2. Wrap(cycle - Wrap(cycle - late)) = late
    BY <2>1, SinceSet
  <2> QED BY <1>3, <1>5, <2>2 DEF Since
<1>7. Reach(u) = R /\ Full(u) = F
  BY <1>5 DEF Reach, Full, R, F
<1> DEFINE p == s - F
<1>8. p \in 0..Late /\ Since(u.cycleStart) = p /\ y.phase = p
  BY <1>2, <1>6 DEF F
<1>9. /\ u.cycle = (IF p < R THEN R ELSE F)
      /\ u.counterState = (IF p < R THEN "target" ELSE "overflow")
  BY <1>3, <1>4, <1>5 DEF F
<1> HIDE DEF p
<1>10. /\ u.cycle = (IF u.counterState = "target" THEN R ELSE F)
       /\ u.counterState = "target" => u.target > 0
       /\ p <= u.cycle + 0 /\ p < u.cycle /\ (u.counterState = "overflow" => R <= p)
  BY <1>1, <1>5, <1>8, <1>9
<1>11. Place(u, y, p)
  BY <1>7, <1>8, <1>10 DEF Place
<1> QED BY <1>7, <1>8, <1>10, <1>11 DEF Sound, u

(* A counter past its target. *)
LEMMA TargetSound ==
  ASSUME cycle \in 0..Clock-1, NEW t \in TimerType, Followed(t), t.target > 0,
         NEW s \in Int, s = Since(t.cycleStart), Reach(t) <= s, s <= Reach(t) + Late,
         t.counterState = "target", t.cycle = Reach(t),
         ~t.mode.toTarget => s < Full(t),
         NEW y, y.phase = IF t.mode.toTarget THEN s - Reach(t) ELSE s, y.owed = <<>>,
         y.told = ReachesTarget(t).irqState, y.want = ReachesTarget(t).irq
  PROVE  Sound(ReachesTarget(t), y, Since(ReachesTarget(t).cycleStart), 0)
<1> DEFINE u == ReachesTarget(t)
           R == Reach(t)
           F == Full(t)
           late == IF t.mode.toTarget THEN Wrap(s - R) ELSE s
           p == IF t.mode.toTarget THEN s - R ELSE s
<1>1. /\ R \in Nat /\ F \in Nat /\ R < F /\ Late < R /\ F + 2 * Late < Half
      /\ Late \in Nat /\ Half \in Nat /\ 2 * Half <= Clock /\ Clock \in Nat
  BY FollowedTimes, Bounds
<1>2. s \in 0..Clock-1 /\ s - R \in 0..Clock-1 /\ s - R \in 0..Late
  BY <1>1
<1>3. late = p /\ p \in 0..Clock-1
  <2>1. Wrap(s - R) = s - R
    BY <1>2, WrapSmall
  <2> QED BY <1>2, <2>1
<1>4. Wrap(F) = F
  <2>1. F \in 0..Clock-1
    BY <1>1
  <2> QED BY <2>1, WrapSmall
<1>5. /\ u.target = t.target /\ u.rate = t.rate /\ u.mode = t.mode
      /\ u.cycleStart = Wrap(cycle - late)
      /\ u.cycle = (IF t.mode.toTarget THEN t.cycle ELSE Wrap(F))
      /\ u.counterState = (IF t.mode.toTarget THEN t.counterState ELSE "overflow")
  BY ReachesTargetIs
<1> HIDE DEF late
<1>6. Since(u.cycleStart) = p
  <2> HIDE DEF p, u
  <2>1. cycle \in Int /\ late \in 0..Clock-1
    BY <1>1, <1>3
  <2>2. Wrap(cycle - Wrap(cycle - late)) = late
    BY <2>1, SinceSet
  <2> QED BY <1>3, <1>5, <2>2 DEF Since
<1>7. Reach(u) = R /\ Full(u) = F
  BY <1>5 DEF Reach, Full
<1>8. y.phase = p
  OBVIOUS
<1>9. /\ p <= (IF t.mode.toTarget THEN R ELSE F) + 0 /\ p < (IF t.mode.toTarget THEN R ELSE F)
      /\ ~t.mode.toTarget => R <= p
  BY <1>1, <1>2
<1>10. /\ u.cycle = (IF t.mode.toTarget THEN R ELSE F)
       /\ u.counterState = (IF t.mode.toTarget THEN "target" ELSE "overflow")
  BY <1>4, <1>5
<1> HIDE DEF u, R, F, p
<1>11. Place(u, y, p)
  BY <1>7, <1>8, <1>9, <1>10 DEF Place
<1>12. /\ u.cycle = (IF u.counterState = "target" THEN Reach(u) ELSE Full(u))
       /\ u.counterState = "target" => u.target > 0
  BY <1>5, <1>7, <1>10
<1>13. p <= u.cycle + 0
  BY <1>9, <1>10
<1> QED BY <1>6, <1>11, <1>12, <1>13 DEF Sound, u

(* An update of a followed timer, and what its ideal is shown. *)
LEMMA UpdatedSound ==
  ASSUME cycle \in 0..Clock-1, NEW t \in TimerType, NEW x \in IdealType, Followed(t),
         NEW l \in 0..Late, Sound(t, x, Since(t.cycleStart), l)
  PROVE  Sound(Updated(t), Pass(t, x, Seen(t)), Since(Updated(t).cycleStart), 0)
<1> DEFINE z == [t EXCEPT !.irq = FALSE]
           s == Since(t.cycleStart)
           R == Reach(t)
           F == Full(t)
           E(e) == Fires(t, e)
<1>1. z \in TimerType
  BY UpdatedType
<1>2. z = [mode |-> t.mode, rate |-> t.rate, target |-> t.target,
           counterState |-> t.counterState, cycle |-> t.cycle,
           cycleStart |-> t.cycleStart, irqState |-> t.irqState, irq |-> FALSE]
  BY IrqSet, Zenon
<1> HIDE DEF z
<1>3. /\ z.mode = t.mode /\ z.rate = t.rate /\ z.target = t.target
      /\ z.counterState = t.counterState /\ z.cycle = t.cycle
      /\ z.cycleStart = t.cycleStart /\ z.irqState = t.irqState /\ z.irq = FALSE
  BY <1>2
<1>4. Reach(z) = R /\ Full(z) = F /\ Followed(z) /\ \A e : Fires(z, e) = Fires(t, e)
  BY <1>3 DEF Reach, Full, Followed, Fires
<1>5. /\ R \in Nat /\ F \in Nat /\ R < F /\ Late < F /\ F + 2 * Late < Half
      /\ t.target \in Nat /\ (t.target = 0 => R = 0) /\ (t.target > 0 => Late < R)
      /\ Late \in Nat /\ Half \in Nat /\ 2 * Half <= Clock /\ Clock \in Nat
  BY FollowedTimes, Bounds
<1>6. s \in 0..Clock-1
  BY Fields, SinceType
<1>7. Wrap(F) = F
  <2>1. F \in 0..Clock-1
    BY <1>5
  <2> QED BY <2>1, WrapSmall
<1>8. (Expired(t) <=> s >= t.cycle) /\ (Both(t) <=> ~t.mode.toTarget /\ s >= F)
  BY <1>7 DEF Expired, Both, Full
<1>9. /\ t.cycle = (IF t.counterState = "target" THEN R ELSE F)
      /\ (t.counterState = "target" => t.target > 0)
      /\ s <= t.cycle + l /\ Place(t, x, s) /\ x.told = t.irqState /\ x.want = t.irq
      /\ t.counterState \in {"target", "overflow"}
  BY Fields DEF Sound, Kinds
<1>10. /\ t.mode.toTarget \in BOOLEAN /\ t.mode.onTarget \in BOOLEAN
       /\ t.mode.onOverflow \in BOOLEAN /\ t.mode.regenerate \in BOOLEAN
       /\ t.irqState \in BOOLEAN
  BY Fields, ModeFields
<1>11. Updated(t) = IF Expired(t) THEN Reset(z) ELSE z
  BY DEF Updated, z
<1>12. Both(z) = Both(t)
  BY <1>3 DEF Both
<1> HIDE DEF s, R, F
<1>13. CASE x.owed = <<>> /\ s = x.phase /\ s < t.cycle /\ (t.counterState = "overflow" => R <= s)
  <2>1. ~Expired(t) /\ Updated(t) = z /\ Seen(t) = 0
    BY <1>5, <1>6, <1>8, <1>9, <1>11, <1>13 DEF Seen
  <2> DEFINE y == Pass(t, x, 0)
  <2>2. y.phase = x.phase /\ y.owed = <<>> /\ y.want = FALSE /\ y.told = x.told
    BY <1>13, PassNone, Zenon
  <2> HIDE DEF y
  <2>5. s <= z.cycle + 0
    BY <1>3, <1>5, <1>6, <1>9, <1>13
  <2>6. Place(z, y, s)
    BY <1>3, <1>4, <1>13, <2>2 DEF Place
  <2>7. z.cycle = IF z.counterState = "target" THEN Reach(z) ELSE Full(z)
    BY <1>3, <1>4, <1>9
  <2>8. Sound(z, y, s, 0)
    BY <1>3, <1>9, <2>2, <2>5, <2>6, <2>7 DEF Sound
  <2> QED BY <1>3, <2>1, <2>8 DEF s, y
<1>14. CASE /\ x.owed = <<"target">> /\ t.counterState = "target" /\ s >= t.cycle
            /\ s = x.phase + (IF t.mode.toTarget THEN R ELSE 0)
            /\ ~t.mode.toTarget => x.phase < F
  <2>0. x.phase \in Nat
    BY DEF IdealType
  <2>1. /\ Expired(t) /\ ~Both(t) /\ Updated(t) = ReachesTarget(z) /\ Seen(t) = 1
    <3>1. Expired(t) /\ ~Both(t)
      BY <1>5, <1>6, <1>8, <1>14, <2>0
    <3>2. Reset(z) = ReachesTarget(z)
      BY <1>3, <1>12, <1>14, <3>1 DEF Reset
    <3> QED BY <1>11, <1>14, <3>1, <3>2 DEF Seen
  <2> DEFINE y == Pass(t, x, 1)
  <2>2. /\ y.phase = x.phase /\ y.owed = <<>> /\ y.want = Fires(t, t.mode.onTarget)
        /\ y.told = (t.irqState \/ Fires(t, t.mode.onTarget))
    <3> DEFINE f == Fires(t, t.mode.onTarget)
               e == "target"
    <3>1. e \in Kinds /\ x.owed = <<e>>
      BY <1>14 DEF Kinds
    <3>2. /\ f \in BOOLEAN
          /\ f <=> /\ IF e = "target" THEN t.mode.onTarget ELSE t.mode.onOverflow
                   /\ t.mode.regenerate \/ ~x.told
      BY <1>9, <1>10 DEF Fires
    <3> HIDE DEF y, f, e
    <3>3. /\ Pass(t, x, 1).phase = x.phase /\ Pass(t, x, 1).owed = <<>>
          /\ Pass(t, x, 1).want = f /\ Pass(t, x, 1).told = (x.told \/ f)
      BY <3>1, <3>2, PassOne
    <3> QED BY <1>9, <3>3, Zenon DEF y, f
  <2> HIDE DEF y
  <2>5. /\ ReachesTarget(z).irqState = (t.irqState \/ Fires(t, t.mode.onTarget))
        /\ ReachesTarget(z).irq = Fires(t, t.mode.onTarget)
    <3>1. /\ ReachesTarget(z).irqState = (z.irqState \/ Fires(z, z.mode.onTarget))
          /\ ReachesTarget(z).irq = (z.irq \/ Fires(z, z.mode.onTarget))
      BY <1>1, ReachesTargetIs
    <3>2. Fires(t, t.mode.onTarget) \in BOOLEAN
      BY <1>10 DEF Fires
    <3> QED BY <1>3, <1>4, <3>1, <3>2
  <2>6. /\ z.target > 0 /\ Reach(z) <= s /\ s <= Reach(z) + Late /\ z.counterState = "target"
        /\ z.cycle = Reach(z) /\ (~z.mode.toTarget => s < Full(z))
        /\ y.phase = (IF z.mode.toTarget THEN s - Reach(z) ELSE s)
        /\ s \in Int /\ s = Since(z.cycleStart)
    <3>1. z.target > 0 /\ z.counterState = "target" /\ z.cycle = R /\ t.cycle = R /\ s = Since(z.cycleStart)
      BY <1>3, <1>9, <1>14 DEF s
    <3>2. R <= s /\ s <= R + Late
      BY <1>5, <1>6, <1>9, <1>14, <3>1
    <3>3. ~z.mode.toTarget => s < F
      BY <1>3, <1>14, <2>0
    <3>4. y.phase = IF z.mode.toTarget THEN s - R ELSE s
      BY <1>3, <1>5, <1>6, <1>14, <2>0, <2>2
    <3> QED BY <1>4, <1>6, <3>1, <3>2, <3>3, <3>4
  <2>7. Sound(ReachesTarget(z), y, Since(ReachesTarget(z).cycleStart), 0)
    BY <1>1, <1>4, <2>2, <2>5, <2>6, TargetSound
  <2> QED BY <2>1, <2>7 DEF y
<1>15. CASE x.owed = <<"overflow">> /\ t.counterState = "overflow" /\ s = x.phase + F
  <2>0. x.phase \in Nat
    BY DEF IdealType
  <2>1. Expired(t) /\ Updated(t) = Overflows(z) /\ Seen(t) = 1
    <3>1. Expired(t)
      BY <1>5, <1>8, <1>9, <1>15, <2>0
    <3>2. Reset(z) = Overflows(z)
      BY <1>3, <1>15 DEF Reset
    <3> QED BY <1>11, <1>15, <3>1, <3>2 DEF Seen
  <2> DEFINE y == Pass(t, x, 1)
  <2>2. /\ y.phase = x.phase /\ y.owed = <<>> /\ y.want = Fires(t, t.mode.onOverflow)
        /\ y.told = (t.irqState \/ Fires(t, t.mode.onOverflow))
    <3> DEFINE f == Fires(t, t.mode.onOverflow)
               e == "overflow"
    <3>1. e \in Kinds /\ x.owed = <<e>>
      BY <1>15 DEF Kinds
    <3>2. /\ f \in BOOLEAN
          /\ f <=> /\ IF e = "target" THEN t.mode.onTarget ELSE t.mode.onOverflow
                   /\ t.mode.regenerate \/ ~x.told
      BY <1>9, <1>10 DEF Fires
    <3> HIDE DEF y, f, e
    <3>3. /\ Pass(t, x, 1).phase = x.phase /\ Pass(t, x, 1).owed = <<>>
          /\ Pass(t, x, 1).want = f /\ Pass(t, x, 1).told = (x.told \/ f)
      BY <3>1, <3>2, PassOne
    <3> QED BY <1>9, <3>3, Zenon DEF y, f
  <2> HIDE DEF y
  <2>5. /\ Overflows(z).irqState = (t.irqState \/ Fires(t, t.mode.onOverflow))
        /\ Overflows(z).irq = Fires(t, t.mode.onOverflow)
    <3>1. /\ Overflows(z).irqState = (z.irqState \/ Fires(z, z.mode.onOverflow))
          /\ Overflows(z).irq = (z.irq \/ Fires(z, z.mode.onOverflow))
      BY <1>1, OverflowsIs
    <3>2. Fires(t, t.mode.onOverflow) \in BOOLEAN
      BY <1>10 DEF Fires
    <3> QED BY <1>3, <1>4, <3>1, <3>2
  <2>6. /\ Full(z) <= s /\ s <= Full(z) + Late /\ z.counterState = "overflow"
        /\ z.cycle = Full(z) /\ y.phase = s - Full(z) /\ s \in Int /\ s = Since(z.cycleStart)
    <3>1. z.counterState = "overflow" /\ z.cycle = F /\ t.cycle = F /\ s = Since(z.cycleStart)
      BY <1>3, <1>9, <1>15 DEF s
    <3>2. y.phase = x.phase
      BY <2>2
    <3>3. F <= s /\ s <= F + Late /\ x.phase = s - F
      BY <1>5, <1>6, <1>9, <1>15, <2>0, <3>1
    <3> QED BY <1>4, <1>6, <3>1, <3>2, <3>3
  <2>7. Sound(Overflows(z), y, Since(Overflows(z).cycleStart), 0)
    BY <1>1, <1>4, <2>2, <2>5, <2>6, OverflowSound
  <2> QED BY <2>1, <2>7 DEF y
<1>16. CASE /\ x.owed = <<"target", "overflow">> /\ t.counterState = "target"
            /\ ~t.mode.toTarget /\ s = x.phase + F
  <2>0. x.phase \in Nat
    BY DEF IdealType
  <2> DEFINE w == ReachesTarget(z)
             y == Pass(t, x, 2)
  <2>1. Expired(t) /\ Updated(t) = Overflows(w) /\ Seen(t) = 2
    <3>1. Expired(t) /\ Both(t)
      BY <1>5, <1>6, <1>8, <1>9, <1>16, <2>0
    <3>2. Reset(z) = Overflows(w)
      BY <1>3, <1>12, <1>16, <3>1 DEF Reset
    <3> QED BY <1>11, <1>16, <3>1, <3>2 DEF Seen
  <2> DEFINE f == Fires(t, t.mode.onTarget)
             h == Fires(t, t.mode.onOverflow)
  <2>2. y.phase = x.phase /\ y.owed = <<>> /\ y.want = (f \/ h) /\ y.told = (t.irqState \/ f \/ h)
    <3>1. f \/ h <=> (t.mode.onTarget \/ t.mode.onOverflow) /\ (t.mode.regenerate \/ ~x.told)
      BY <1>9, <1>10 DEF Fires
    <3> HIDE DEF f, h, y
    <3> DEFINE g == f \/ h
    <3>2. /\ g \in BOOLEAN
          /\ g <=> (t.mode.onTarget \/ t.mode.onOverflow) /\ (t.mode.regenerate \/ ~x.told)
      BY <3>1
    <3> HIDE DEF g
    <3>3. /\ Pass(t, x, 2).phase = x.phase /\ Pass(t, x, 2).owed = <<>>
          /\ Pass(t, x, 2).want = g /\ Pass(t, x, 2).told = (x.told \/ g)
      BY <1>16, <3>2, PassTwo
    <3> QED BY <1>9, <3>3, Zenon DEF y, g
  <2> HIDE DEF y
  <2>5. /\ w \in TimerType /\ w.mode = t.mode /\ w.rate = t.rate /\ w.target = t.target
        /\ w.cycleStart = Wrap(cycle - s) /\ w.cycle = F /\ w.counterState = "overflow"
        /\ w.irqState = (t.irqState \/ Fires(t, t.mode.onTarget))
        /\ w.irq = Fires(t, t.mode.onTarget)
    <3>1. /\ w \in TimerType /\ w.mode = z.mode /\ w.rate = z.rate /\ w.target = z.target
      BY <1>1, ReachesTargetIs
    <3>2. /\ w.cycleStart = Wrap(cycle - (IF z.mode.toTarget THEN Wrap(Since(z.cycleStart) - Reach(z))
                                         ELSE Since(z.cycleStart)))
          /\ w.cycle = (IF z.mode.toTarget THEN z.cycle ELSE Wrap(Full(z)))
          /\ w.counterState = (IF z.mode.toTarget THEN z.counterState ELSE "overflow")
      BY <1>1, ReachesTargetIs
    <3>3. /\ w.irqState = (z.irqState \/ Fires(z, z.mode.onTarget))
          /\ w.irq = (z.irq \/ Fires(z, z.mode.onTarget))
      BY <1>1, ReachesTargetIs
    <3>4. Fires(t, t.mode.onTarget) \in BOOLEAN
      BY <1>10 DEF Fires
    <3> HIDE DEF w
    <3>5. /\ w.irqState = (t.irqState \/ Fires(t, t.mode.onTarget))
          /\ w.irq = Fires(t, t.mode.onTarget)
      BY <1>3, <1>4, <3>3, <3>4
    <3>6. /\ w.cycleStart = Wrap(cycle - s) /\ w.cycle = F /\ w.counterState = "overflow"
      BY <1>3, <1>4, <1>7, <1>16, <3>2 DEF s, F
    <3> QED BY <1>3, <3>1, <3>5, <3>6
  <2>6. /\ Overflows(w).irqState = (w.irqState \/ Fires(w, w.mode.onOverflow))
        /\ Overflows(w).irq = (w.irq \/ Fires(w, w.mode.onOverflow))
    BY <2>5, OverflowsIs
  <2> HIDE DEF w
  <2>7. Reach(w) = R /\ Full(w) = F /\ Followed(w)
    BY <2>5 DEF Reach, Full, Followed, R, F
  <2>8. y.told = Overflows(w).irqState /\ y.want = Overflows(w).irq
    <3> DEFINE g == Fires(w, w.mode.onOverflow)
    <3>1. f \in BOOLEAN /\ g \in BOOLEAN /\ h \in BOOLEAN /\ t.irqState \in BOOLEAN
      BY <1>10, <2>5 DEF Fires
    <3>2. w.irqState = (t.irqState \/ f) /\ w.irq = f
      BY <2>5
    <3>3. ~f => g = h
      <4>1. ~f => w.irqState = t.irqState
        BY <3>1, <3>2
      <4> QED BY <2>5, <4>1 DEF Fires
    <3>4. Overflows(w).irqState = (w.irqState \/ g) /\ Overflows(w).irq = (w.irq \/ g)
      BY <2>6
    <3> HIDE DEF f, g, h
    <3>5. y.want = (f \/ h) /\ y.told = (t.irqState \/ f \/ h)
      BY <2>2
    <3>6. (f \/ g) = (f \/ h)
      BY <3>1, <3>3
    <3> QED BY <3>2, <3>4, <3>5, <3>6, Zenon
  <2>9. /\ Full(w) <= s /\ s <= Full(w) + Late /\ w.counterState = "overflow"
        /\ w.cycle = Full(w) /\ y.phase = s - Full(w) /\ s \in Int /\ s = Since(w.cycleStart)
    <3>1. F <= s /\ s <= F + Late /\ y.phase = s - F
      BY <1>5, <1>6, <1>9, <1>16, <2>0, <2>2
    <3>2. cycle \in Int
      BY <1>5
    <3>3. Wrap(cycle - Wrap(cycle - s)) = s
      BY <1>6, <3>2, SinceSet
    <3>4. s = Since(w.cycleStart)
      BY <2>5, <3>3 DEF Since
    <3> QED BY <1>6, <2>5, <2>7, <3>1, <3>4
  <2>10. Sound(Overflows(w), y, Since(Overflows(w).cycleStart), 0)
    BY <2>2, <2>5, <2>7, <2>8, <2>9, OverflowSound
  <2> QED BY <2>1, <2>10 DEF y
<1> QED BY <1>9, <1>13, <1>14, <1>15, <1>16 DEF Place, R, F

-----------------------------------------------------------------------------
(* A timer whose count is written. *)
LEMMA WcountIs ==
  ASSUME cycle \in 0..Clock-1, NEW t \in TimerType, NEW v \in 0..Overflow-1
  PROVE  LET u == Wcount(t, v)
         IN  /\ u \in TimerType /\ u.mode = t.mode /\ u.rate = t.rate /\ u.target = t.target
             /\ u.cycleStart = Wrap(cycle - v * t.rate)
             /\ u.cycle = Wrap((IF v < t.target THEN t.target ELSE Overflow) * t.rate)
             /\ u.counterState = IF v < t.target THEN "target" ELSE "overflow"
             /\ u.irqState = t.irqState /\ u.irq = FALSE
<1> DEFINE u == Wcount(t, v)
           a == Wrap(cycle - v * t.rate)
           c == Wrap((IF v < t.target THEN t.target ELSE Overflow) * t.rate)
           k == IF v < t.target THEN "target" ELSE "overflow"
           f == FALSE
<1>1. /\ t = [mode |-> t.mode, rate |-> t.rate, target |-> t.target,
              counterState |-> t.counterState, cycle |-> t.cycle,
              cycleStart |-> t.cycleStart, irqState |-> t.irqState, irq |-> t.irq]
      /\ t.mode \in Mode /\ t.rate \in Rates \cup {Disabled} /\ t.target \in Targets
      /\ t.irqState \in BOOLEAN /\ t.rate \in Nat \ {0} /\ t.target \in 0..Overflow-1
  BY Fields
<1>2. a \in 0..Clock-1 /\ c \in 0..Clock-1
  <2>1. v * t.rate \in Int /\ cycle \in Int /\ Overflow \in Nat /\ v \in Nat
    BY <1>1, Bounds
  <2>2. cycle - v * t.rate \in Int
    BY <2>1
  <2>3. (IF v < t.target THEN t.target ELSE Overflow) * t.rate \in Int
    BY <1>1, <2>1
  <2> QED BY <2>2, <2>3, WrapRange
<1>3. k \in Kinds /\ f \in BOOLEAN
  BY DEF Kinds
<1>4. u = [t EXCEPT !.cycleStart = a, !.irq = f, !.counterState = k, !.cycle = c]
  BY DEF Wcount
<1> HIDE DEF u, a, c, k, f
<1>5. u = [mode |-> t.mode, rate |-> t.rate, target |-> t.target, counterState |-> k,
           cycle |-> c, cycleStart |-> a, irqState |-> t.irqState, irq |-> f]
  BY <1>1, <1>4
<1>6. u \in TimerType
  BY <1>1, <1>2, <1>3, <1>5, TimerMade
<1>7. /\ u.mode = t.mode /\ u.rate = t.rate /\ u.target = t.target /\ u.cycleStart = a
      /\ u.cycle = c /\ u.counterState = k /\ u.irqState = t.irqState /\ u.irq = f
  BY <1>5
<1> QED BY <1>6, <1>7, Zenon DEF u, a, c, k, f

LEMMA SetToType ==
  ASSUME cycle \in 0..Clock-1, NEW u \in TimerType, NEW told \in BOOLEAN
  PROVE  SetTo(u, told) \in IdealType
<1>1. Since(u.cycleStart) \in Nat
  BY Fields, SinceType, Bounds
<1>2. <<>> \in Seq(Kinds)
  OBVIOUS
<1> QED BY <1>1, <1>2 DEF SetTo, IdealType

(* If it can be followed it is where its new ideal is. *)
LEMMA WcountSound ==
  ASSUME cycle \in 0..Clock-1, NEW t \in TimerType, NEW v \in 0..Overflow-1, Followed(Wcount(t, v))
  PROVE  Sound(Wcount(t, v), SetTo(Wcount(t, v), t.irqState), Since(Wcount(t, v).cycleStart), 0)
<1> DEFINE u == Wcount(t, v)
           y == SetTo(u, t.irqState)
           R == Reach(u)
           F == Full(u)
           s == v * t.rate
<1>1. /\ u \in TimerType /\ u.mode = t.mode /\ u.rate = t.rate /\ u.target = t.target
      /\ u.cycleStart = Wrap(cycle - s)
      /\ u.cycle = Wrap((IF v < t.target THEN t.target ELSE Overflow) * t.rate)
      /\ u.counterState = (IF v < t.target THEN "target" ELSE "overflow")
      /\ u.irqState = t.irqState /\ u.irq = FALSE
  BY WcountIs
<1>2. /\ R \in Nat /\ F \in Nat /\ R < F /\ F + 2 * Late < Half /\ u.target \in Nat
      /\ u.rate \in Nat \ {0} /\ 2 * Half <= Clock /\ Clock \in Nat /\ Half \in Nat /\ Late \in Nat
  BY <1>1, FollowedTimes, Bounds
<1>3. R = t.target * t.rate /\ F = Overflow * t.rate
  BY <1>1 DEF Reach, Full
<1>4. s \in Nat /\ s < F /\ (v < t.target => s < R) /\ (v >= t.target => R <= s)
  <2> DEFINE r == t.rate
             g == t.target
  <2>1. r \in Nat \ {0} /\ g \in Nat /\ v \in Nat /\ v < Overflow /\ Overflow \in Nat
    BY <1>1, <1>2, Bounds
  <2> HIDE DEF r, g
  <2>2. v * r \in Nat /\ v * r < Overflow * r
    BY <2>1
  <2>3. (v < g => v * r < g * r) /\ (v >= g => g * r <= v * r)
    BY <2>1
  <2> QED BY <1>3, <2>2, <2>3 DEF r, g
<1>5. Wrap(R) = R /\ Wrap(F) = F
  <2>1. R \in 0..Clock-1 /\ F \in 0..Clock-1
    BY <1>2
  <2> QED BY <2>1, WrapSmall
<1>6. u.cycle = IF v < t.target THEN R ELSE F
  BY <1>1, <1>3, <1>5
<1>7. Since(u.cycleStart) = s
  <2>1. cycle \in Int /\ s \in 0..Clock-1
    BY <1>2, <1>4
  <2> HIDE DEF s, u
  <2>2. Wrap(cycle - Wrap(cycle - s)) = s
    BY <2>1, SinceSet
  <2> QED BY <1>1, <2>2 DEF Since
<1> HIDE DEF u, R, F, s
<1>8. y.phase = s /\ y.owed = <<>> /\ y.want = FALSE /\ y.told = t.irqState
  BY <1>7 DEF SetTo, u
<1> HIDE DEF y
<1>9. v < t.target \/ v >= t.target
  BY <1>1, <1>2
<1>10. /\ u.cycle = (IF u.counterState = "target" THEN R ELSE F)
       /\ (u.counterState = "target" => u.target > 0)
       /\ s <= u.cycle + 0 /\ s < u.cycle /\ (u.counterState = "overflow" => R <= s)
  BY <1>1, <1>2, <1>4, <1>6, <1>9
<1>11. Place(u, y, s)
  BY <1>8, <1>10 DEF Place, R
<1> QED BY <1>1, <1>7, <1>8, <1>10, <1>11 DEF Sound, R, F, u, y

LEMMA RcountRange ==
  ASSUME cycle \in 0..Clock-1, NEW t \in TimerType PROVE Rcount(t) \in 0..Overflow-1
<1>1. Since(t.cycleStart) \in Int /\ t.rate \in Nat \ {0}
  BY Fields, SinceType, Bounds
<1>2. Since(t.cycleStart) \div t.rate \in Int
  BY <1>1
<1> QED BY <1>2, ModRange, Bounds DEF Rcount

-----------------------------------------------------------------------------
(* A set of numbers has a least one. *)
LEMMA HasLeast ==
  ASSUME NEW S \in SUBSET Nat, S # {}
  PROVE  \E m \in S : \A e \in S : m <= e
<1> DEFINE less == {p \in Nat \X Nat : p[1] < p[2]}
<1>1. IsWellFoundedOn(less, Nat)
  BY NatLessThanWellFounded, Zenon DEF OpToRel
<1> HIDE DEF less
<1>2. \E m \in S : \A e \in S : ~(<<e, m>> \in less)
  BY <1>1, WFMin, Zenon
<1>3. ASSUME NEW m \in S, NEW e \in S, ~(<<e, m>> \in less) PROVE m <= e
  BY <1>3 DEF less
<1> QED BY <1>2, <1>3

(* How long to an event, and to the first of them. *)
LEMMA ToUpdateType ==
  ASSUME cycle \in 0..Clock-1, NEW t, t.cycle \in 0..Clock-1, t.cycleStart \in 0..Clock-1
  PROVE  ToUpdate(t) \in Nat
<1>1. Since(t.cycleStart) \in 0..Clock-1
  BY SinceType
<1>2. t.cycle - Since(t.cycleStart) \in Int
  BY <1>1, Bounds
<1>3. Wrap(t.cycle - Since(t.cycleStart)) \in 0..Clock-1
  BY <1>2, WrapRange
<1>4. Signed(t.cycle - Since(t.cycleStart)) \in Int
  BY <1>3, Bounds DEF Signed
<1> QED BY <1>4 DEF ToUpdate

LEMMA ToUpdateIs ==
  ASSUME cycle \in 0..Clock-1, NEW t, t.cycle \in Nat, t.cycle < Half,
         t.cycleStart \in 0..Clock-1, Since(t.cycleStart) <= t.cycle + 2 * Late
  PROVE  ToUpdate(t) = IF t.cycle < Since(t.cycleStart) THEN 0 ELSE t.cycle - Since(t.cycleStart)
<1> DEFINE d == t.cycle - Since(t.cycleStart)
<1>1. Since(t.cycleStart) \in 0..Clock-1
  BY SinceType
<1>2. d \in Int /\ -(2 * Late) <= d /\ d < Half
  BY <1>1, Bounds
<1>3. Signed(d) = d
  <2> HIDE DEF d
  <2> QED BY <1>2, SignedSmall
<1> QED BY <1>1, <1>2, <1>3, Bounds DEF ToUpdate

LEMMA RcntSetIs ==
  ASSUME cycle \in 0..Clock-1, NEW timers, NEW b, \A i \in Timers : ToUpdate(timers[i]) \in Nat,
         ToUpdate(b) \in Nat
  PROVE  /\ RcntSet(timers, b) \in [counter : 0..Half-1, start : 0..Clock-1]
         /\ RcntSet(timers, b).start = cycle
         /\ RcntSet(timers, b).counter <= ToUpdate(b)
         /\ \A i \in Timers : RcntSet(timers, b).counter <= ToUpdate(timers[i])
<1> DEFINE all == {ToUpdate(timers[i]) : i \in Timers} \cup {ToUpdate(b), Half - 1}
           d == CHOOSE m \in all : \A e \in all : m <= e
           n == RcntSet(timers, b)
<1>1. all \subseteq Nat /\ Half - 1 \in all /\ ToUpdate(b) \in all
  BY Bounds
<1>2. n = [counter |-> d, start |-> cycle]
  BY DEF RcntSet
<1>3. \A i \in Timers : ToUpdate(timers[i]) \in all
  OBVIOUS
<1> HIDE DEF all
<1>4. \E m \in all : \A e \in all : m <= e
  BY <1>1, HasLeast
<1>5. d \in all /\ \A e \in all : d <= e
  BY <1>4
<1> HIDE DEF d, n
<1>6. n.counter = d /\ n.start = cycle
  BY <1>2
<1>7. d \in 0..Half-1
  BY <1>1, <1>5, Bounds
<1>8. n \in [counter : 0..Half-1, start : 0..Clock-1]
  BY <1>2, <1>7
<1> QED BY <1>1, <1>3, <1>5, <1>6, <1>8 DEF n

(* The event is set for the first of the counters that has not expired. *)
LEMMA NextAfter ==
  ASSUME cycle \in 0..Clock-1, NEW timers \in [Timers -> TimerType], NEW b \in BaseType,
         b.cycle < Half, NEW l \in 0..Late, Since(b.cycleStart) <= b.cycle + l,
         \A i \in Timers : Followed(timers[i]) =>
           /\ timers[i].cycle \in {Reach(timers[i]), Full(timers[i])}
           /\ Since(timers[i].cycleStart) <= timers[i].cycle + l
  PROVE  LET n == RcntSet(timers, b)
         IN  /\ n \in [counter : 0..Half-1, start : 0..Clock-1] /\ Since(n.start) = 0
             /\ n.counter > 0 =>
                  /\ n.counter <= b.cycle - Since(b.cycleStart)
                  /\ \A i \in Timers : Followed(timers[i]) =>
                       n.counter <= timers[i].cycle - Since(timers[i].cycleStart)
<1> DEFINE n == RcntSet(timers, b)
<1>1. /\ b.cycle \in Nat /\ b.cycleStart \in 0..Clock-1 /\ b.cycle \in 0..Clock-1
      /\ Late \in Nat /\ l \in Nat /\ l <= 2 * Late
  BY Bounds DEF BaseType
<1>2. Since(b.cycleStart) \in Nat /\ Since(b.cycleStart) <= b.cycle + 2 * Late
  <2>1. Since(b.cycleStart) \in 0..Clock-1
    BY <1>1, SinceType
  <2> QED BY <1>1, <2>1, Bounds
<1>3. /\ ToUpdate(b) \in Nat
      /\ ToUpdate(b) = IF b.cycle < Since(b.cycleStart) THEN 0 ELSE b.cycle - Since(b.cycleStart)
  BY <1>1, <1>2, ToUpdateType, ToUpdateIs
<1>4. ASSUME NEW i \in Timers PROVE ToUpdate(timers[i]) \in Nat
  <2>1. timers[i] \in TimerType
    OBVIOUS
  <2>2. timers[i].cycle \in 0..Clock-1 /\ timers[i].cycleStart \in 0..Clock-1
    BY <2>1, Fields
  <2> QED BY <2>2, ToUpdateType
<1>5. /\ n \in [counter : 0..Half-1, start : 0..Clock-1] /\ n.start = cycle
      /\ n.counter <= ToUpdate(b) /\ \A i \in Timers : n.counter <= ToUpdate(timers[i])
  BY <1>3, <1>4, RcntSetIs
<1> HIDE DEF n
<1>6. n.counter \in Nat
  BY <1>5, Bounds
<1>7. Since(n.start) = 0
  <2>1. cycle - n.start = 0 /\ 0 \in 0..Clock-1
    BY <1>5, Bounds
  <2>2. Wrap(0) = 0
    BY <2>1, WrapSmall
  <2> QED BY <2>1, <2>2 DEF Since
<1>8. n.counter > 0 => n.counter <= b.cycle - Since(b.cycleStart)
  BY <1>1, <1>2, <1>3, <1>5, <1>6
<1>9. ASSUME NEW i \in Timers, Followed(timers[i]), n.counter > 0
      PROVE  n.counter <= timers[i].cycle - Since(timers[i].cycleStart)
  <2> DEFINE t == timers[i]
  <2>1. t \in TimerType
    OBVIOUS
  <2>2. t.cycleStart \in 0..Clock-1 /\ t.cycle \in Nat
    BY <2>1, Fields, Bounds
  <2>3. Reach(t) < Full(t) /\ Full(t) + 2 * Late < Half /\ Reach(t) \in Nat /\ Full(t) \in Nat
    BY <1>9, <2>1, FollowedTimes
  <2>4. t.cycle \in {Reach(t), Full(t)} /\ Since(t.cycleStart) <= t.cycle + l
    BY <1>9
  <2>5. n.counter <= ToUpdate(t)
    BY <1>5
  <2> HIDE DEF t
  <2>6. Since(t.cycleStart) \in Nat
    <3>1. Since(t.cycleStart) \in 0..Clock-1
      BY <2>2, SinceType
    <3> QED BY <3>1, Bounds
  <2>7. t.cycle < Half /\ Since(t.cycleStart) <= t.cycle + 2 * Late
    BY <1>1, <2>2, <2>3, <2>4, <2>6, Bounds
  <2>8. ToUpdate(t) = IF t.cycle < Since(t.cycleStart) THEN 0 ELSE t.cycle - Since(t.cycleStart)
    BY <2>2, <2>7, ToUpdateIs
  <2>9. n.counter <= t.cycle - Since(t.cycleStart)
    BY <1>6, <1>9, <2>2, <2>5, <2>6, <2>8
  <2> QED BY <2>9 DEF t
<1>10. n.counter > 0 => \A i \in Timers : Followed(timers[i]) =>
         n.counter <= timers[i].cycle - Since(timers[i].cycleStart)
  BY <1>9
<1> QED BY <1>5, <1>7, <1>8, <1>10, Zenon DEF n

-----------------------------------------------------------------------------
(* Lines, and what their fractions add up to. *)
LEMMA Divided ==
  ASSUME NEW n \in Nat \ {0}, NEW x \in Nat
  PROVE  /\ x \div n \in Nat /\ x % n \in 0..n-1 /\ x = (x \div n) * n + (x % n)
<1> DEFINE q == x \div n
           r == x % n
<1>1. q \in Int /\ r \in 0..n-1
  BY ModRange
<1>2. x = n * q + r
  BY ModIs
<1> HIDE DEF q, r
<1>3. x = q * n + r
  BY <1>1, <1>2
<1>4. q >= 0
  <2>1. SUFFICES ASSUME q < 0 PROVE FALSE
    BY <1>1
  <2>2. q # 0 /\ ~(q >= 0) /\ (q * n >= n \/ q * n <= -n)
    BY <1>1, <2>1, ModMultiples
  <2>3. q * n < 0
    BY <1>1, <2>1
  <2> QED BY <1>1, <1>3, <2>2, <2>3
<1> QED BY <1>1, <1>3, <1>4 DEF q, r

LEMMA MultiplesOrdered ==
  ASSUME NEW n \in Nat \ {0}, NEW a \in Int, NEW b \in Int, a * n < b * n PROVE a < b
  OBVIOUS

(* From one line to half a frame lasts at least a line and less than Half. *)
LEMMA LinesLast ==
  ASSUME NEW f \in 0..LineFraction-1, NEW steps \in 1..VBlankStart
  PROVE  LET cycles == f + steps * LineCycles
         IN  /\ cycles \in Nat /\ LineTarget <= cycles \div LineFraction
             /\ cycles \div LineFraction < Half
<1> DEFINE cycles == f + steps * LineCycles
           c == cycles \div LineFraction
           L == LineTarget
<1>1. /\ LineCycles \in Nat \ {0} /\ LineFraction \in Nat \ {0} /\ VBlankStart \in Nat \ {0}
      /\ Late \in Nat \ {0} /\ Half \in Nat /\ 2 * Late < Half
  BY Bounds
<1>2. VBlankStart * LineCycles < (Half - 2 * Late) * LineFraction
  BY CountersAssumption
<1>3. LineCycles <= steps * LineCycles /\ steps * LineCycles <= VBlankStart * LineCycles
  <2>1. steps \in Nat /\ 1 <= steps /\ steps <= VBlankStart
    BY <1>1
  <2> QED BY <1>1, <2>1
<1>4. cycles \in Nat /\ LineCycles <= cycles /\ cycles < VBlankStart * LineCycles + LineFraction
  BY <1>1, <1>3
<1>5. /\ c \in Nat /\ cycles % LineFraction \in 0..LineFraction-1
      /\ cycles = c * LineFraction + (cycles % LineFraction)
  <2> HIDE DEF cycles
  <2> QED BY <1>1, <1>4, Divided
<1>6. /\ L \in Nat /\ LineCycles % LineFraction \in 0..LineFraction-1
      /\ LineCycles = L * LineFraction + (LineCycles % LineFraction)
  BY <1>1, Divided DEF LineTarget
<1> DEFINE r == cycles % LineFraction
           k == LineCycles % LineFraction
<1> HIDE DEF cycles, c, L, r, k
<1>7. L * LineFraction < (c + 1) * LineFraction
  <2>1. /\ r \in 0..LineFraction-1 /\ k \in 0..LineFraction-1 /\ cycles = c * LineFraction + r
        /\ LineCycles = L * LineFraction + k /\ c \in Nat /\ L \in Nat
    BY <1>5, <1>6 DEF r, k
  <2>2. (c + 1) * LineFraction = c * LineFraction + LineFraction
    BY <1>1, <2>1
  <2>3. c * LineFraction \in Nat /\ L * LineFraction \in Nat
    BY <1>1, <2>1
  <2> QED BY <1>1, <1>4, <2>1, <2>2, <2>3
<1>8. L < c + 1
  BY <1>1, <1>5, <1>6, <1>7, MultiplesOrdered
<1>9. c * LineFraction < (Half - 2 * Late + 1) * LineFraction
  <2>1. r \in 0..LineFraction-1 /\ cycles = c * LineFraction + r /\ c \in Nat
    BY <1>5 DEF r
  <2>2. (Half - 2 * Late + 1) * LineFraction = (Half - 2 * Late) * LineFraction + LineFraction
    BY <1>1
  <2>3. /\ c * LineFraction \in Nat /\ (Half - 2 * Late) * LineFraction \in Int
        /\ VBlankStart * LineCycles \in Nat
    BY <1>1, <2>1
  <2> QED BY <1>1, <1>2, <1>4, <2>1, <2>2, <2>3
<1>10. c < Half - 2 * Late + 1
  BY <1>1, <1>5, <1>9, MultiplesOrdered
<1> QED BY <1>1, <1>4, <1>5, <1>6, <1>8, <1>10 DEF cycles, c, L

LEMMA LineTargetHalf == LineTarget < Half
<1>1. 0 \in 0..LineFraction-1 /\ 1 \in 1..VBlankStart
  BY Bounds
<1>2. LineTarget <= (0 + 1 * LineCycles) \div LineFraction /\ (0 + 1 * LineCycles) \div LineFraction < Half
  BY <1>1, LinesLast
<1>3. (0 + 1 * LineCycles) \div LineFraction \in Int
  BY Bounds
<1> QED BY <1>2, <1>3, LineBounds, Bounds

(* The next stop is the vblank or the end of the frame. *)
LEMMA LinesIs ==
  ASSUME NEW b \in BaseType
  PROVE  LET u == Lines(b)
         IN  /\ u \in BaseType /\ LineTarget <= u.cycle /\ u.cycle < Half
             /\ u.hSyncCount = (IF b.hSyncCount + b.hsync_steps >= HSyncTotal THEN 0
                                ELSE b.hSyncCount + b.hsync_steps)
             /\ u.hsync_steps = (IF u.hSyncCount < VBlankStart THEN VBlankStart - u.hSyncCount
                                 ELSE HSyncTotal - u.hSyncCount)
             /\ u.cycleStart = Wrap(b.cycleStart + b.cycle)
             /\ u.cycle * LineFraction + u.base_cycle = b.base_cycle + u.hsync_steps * LineCycles
<1> DEFINE passed == b.hSyncCount + b.hsync_steps
           count  == IF passed >= HSyncTotal THEN 0 ELSE passed
           steps  == IF count < VBlankStart THEN VBlankStart - count ELSE HSyncTotal - count
           cycles == b.base_cycle + steps * LineCycles
           c == cycles \div LineFraction
           f == cycles % LineFraction
           a == Wrap(b.cycleStart + b.cycle)
           u == Lines(b)
<1>1. /\ b.hSyncCount \in 0..HSyncTotal-1 /\ b.hsync_steps \in Nat /\ b.cycle \in 0..Half
      /\ b.cycleStart \in 0..Clock-1 /\ b.base_cycle \in 0..LineFraction-1
  BY DEF BaseType
<1>2. /\ HSyncTotal \in Nat \ {0} /\ VBlankStart \in Nat \ {0} /\ VBlankStart < HSyncTotal
      /\ HSyncTotal - VBlankStart <= VBlankStart /\ LineFraction \in Nat \ {0}
      /\ Half \in Nat /\ Clock \in Nat
  BY Bounds
<1>3. count \in 0..HSyncTotal-1
  BY <1>1, <1>2
<1>4. steps \in 1..VBlankStart
  <2> HIDE DEF count
  <2> QED BY <1>2, <1>3
<1>5. cycles \in Nat /\ LineTarget <= c /\ c < Half
  <2> HIDE DEF steps
  <2> QED BY <1>1, <1>4, LinesLast
<1>6. c \in Nat /\ f \in 0..LineFraction-1 /\ cycles = c * LineFraction + f
  <2> HIDE DEF cycles
  <2> QED BY <1>2, <1>5, Divided
<1>7. a \in 0..Clock-1
  BY <1>1, <1>2, WrapRange
<1>8. u = [cycleStart |-> a, cycle |-> c, hSyncCount |-> count, hsync_steps |-> steps,
           base_cycle |-> f]
  BY DEF Lines
<1>9. steps \in Nat /\ c \in 0..Half
  <2> HIDE DEF steps, c
  <2> QED BY <1>2, <1>4, <1>5, <1>6
<1>10. u \in BaseType
  <2> HIDE DEF a, c, count, steps, f, u
  <2> QED BY <1>3, <1>6, <1>7, <1>8, <1>9 DEF BaseType
<1>11. /\ u.cycleStart = a /\ u.cycle = c /\ u.hSyncCount = count /\ u.hsync_steps = steps
       /\ u.base_cycle = f
  <2> HIDE DEF a, c, count, steps, f, u
  <2> QED BY <1>8
<1>12. c * LineFraction + f = b.base_cycle + steps * LineCycles
  BY <1>6
<1> HIDE DEF u, c, f
<1>13. u.cycle * LineFraction + u.base_cycle = b.base_cycle + u.hsync_steps * LineCycles
  BY <1>11, <1>12
<1>14. LineTarget <= u.cycle /\ u.cycle < Half
  BY <1>5, <1>11
<1> QED BY <1>10, <1>11, <1>13, <1>14, Zenon DEF u, passed, count, steps, a

(* The beam is where it was. *)
LEMMA LinesBeam ==
  ASSUME cycle \in 0..Clock-1, NEW b \in BaseType, b.cycle <= Since(b.cycleStart),
         b.hSyncCount + b.hsync_steps <= HSyncTotal
  PROVE  BeamOf(Lines(b)) = BeamOf(b)
<1> DEFINE u == Lines(b)
           S == Since(b.cycleStart)
           T == Since(u.cycleStart)
           passed == b.hSyncCount + b.hsync_steps
           LC == LineCycles
           LF == LineFraction
<1>1. /\ u \in BaseType
      /\ u.hSyncCount = IF b.hSyncCount + b.hsync_steps >= HSyncTotal THEN 0
                        ELSE b.hSyncCount + b.hsync_steps
  BY LinesIs
<1>2. u.cycleStart = Wrap(b.cycleStart + b.cycle)
  BY LinesIs
<1>3. u.cycle * LF + u.base_cycle = b.base_cycle + u.hsync_steps * LC
  BY LinesIs
<1>4. /\ b.hSyncCount \in Nat /\ b.hsync_steps \in Nat /\ b.cycle \in Nat /\ b.cycle \in Int
      /\ b.cycleStart \in Int /\ b.cycleStart \in 0..Clock-1 /\ b.base_cycle \in Nat
  BY Bounds DEF BaseType
<1>5. S \in 0..Clock-1
  BY <1>4, SinceType
<1>6. cycle \in Int /\ S \in Nat /\ LC \in Nat /\ LF \in Nat /\ HSyncTotal \in Nat
  BY <1>5, Bounds
<1>7. T = S - b.cycle
  <2>1. Wrap(cycle - Wrap(b.cycleStart + b.cycle)) = Wrap(cycle - b.cycleStart) - b.cycle
    <3>1. b.cycle <= Wrap(cycle - b.cycleStart)
      BY DEF Since
    <3>2. cycle \in Int /\ b.cycleStart \in Int /\ b.cycle \in Nat
      BY <1>4, <1>6
    <3> QED BY <3>1, <3>2, SinceMoved, Zenon
  <2> HIDE DEF u
  <2> QED BY <1>2, <2>1 DEF Since
<1>8. u.cycle \in Nat /\ u.base_cycle \in Nat /\ u.hsync_steps \in Nat /\ u.hSyncCount \in Nat
  <2> HIDE DEF u
  <2> QED BY <1>1, Bounds DEF BaseType
<1>9. Start(u) = u.hSyncCount * LC - b.base_cycle
  <2>1. Start(u) = u.hSyncCount * LC - (u.cycle * LF + u.base_cycle - u.hsync_steps * LC)
    BY DEF Start
  <2> HIDE DEF u
  <2>2. u.hsync_steps * LC \in Int /\ u.cycle * LF \in Int
    BY <1>6, <1>8
  <2> QED BY <1>3, <1>4, <1>6, <1>8, <2>1, <2>2
<1>10. Start(b) = b.hSyncCount * LC - (b.cycle * LF + b.base_cycle - b.hsync_steps * LC)
  BY DEF Start
<1> DEFINE X == Start(b) + S * LF
           Y == Start(u) + T * LF
<1> HIDE DEF u, S, T
<1>11. X = passed * LC - b.cycle * LF - b.base_cycle + S * LF
  <2>1. passed * LC = b.hSyncCount * LC + b.hsync_steps * LC
    BY <1>4, <1>6
  <2>2. /\ b.hSyncCount * LC \in Int /\ b.hsync_steps * LC \in Int /\ b.cycle * LF \in Int
        /\ S * LF \in Int
    BY <1>4, <1>6
  <2> QED BY <1>4, <1>10, <2>1, <2>2
<1>12. Y = u.hSyncCount * LC - b.base_cycle + S * LF - b.cycle * LF
  <2>1. T * LF = S * LF - b.cycle * LF
    BY <1>4, <1>6, <1>7
  <2>2. u.hSyncCount * LC \in Int /\ b.cycle * LF \in Int /\ S * LF \in Int
    BY <1>4, <1>6, <1>8
  <2> QED BY <1>4, <1>9, <2>1, <2>2
<1>13. passed * LC \in Int /\ u.hSyncCount * LC \in Int /\ b.cycle * LF \in Int /\ S * LF \in Int
  BY <1>4, <1>6, <1>8
<1>14. X \in Int /\ Y \in Int
  <2> HIDE DEF passed, X, Y
  <2> QED BY <1>4, <1>11, <1>12, <1>13
<1>15. CASE passed >= HSyncTotal
  <2>1. u.hSyncCount = 0 /\ passed = HSyncTotal
    BY <1>1, <1>4, <1>6, <1>15
  <2>2. X = Y + 1 * FrameLength
    <3>1. passed * LC = FrameLength /\ u.hSyncCount * LC = 0 /\ FrameLength \in Int
      BY <1>6, <2>1, LineBounds DEF FrameLength
    <3> HIDE DEF X, Y, passed
    <3> QED BY <1>4, <1>11, <1>12, <1>13, <3>1
  <2> HIDE DEF X, Y
  <2>3. (Y + 1 * FrameLength) % FrameLength = Y % FrameLength
    <3>1. \A k \in Int : (Y + k * FrameLength) % FrameLength = Y % FrameLength
      BY <1>14, LineBounds, ModTurns
    <3> QED BY <3>1
  <2>4. X % FrameLength = Y % FrameLength
    BY <2>2, <2>3
  <2> QED BY <2>4 DEF BeamOf, X, Y, S, T, u
<1>16. CASE ~(passed >= HSyncTotal)
  <2>1. u.hSyncCount = passed
    BY <1>1, <1>16
  <2>2. X = Y
    <3> HIDE DEF X, Y, passed
    <3> QED BY <1>4, <1>11, <1>12, <1>13, <2>1
  <2> HIDE DEF X, Y
  <2>3. X % FrameLength = Y % FrameLength
    BY <2>2
  <2> QED BY <2>3 DEF BeamOf, X, Y, S, T, u
<1> QED BY <1>15, <1>16

LEMMA BeamOfType ==
  ASSUME cycle \in 0..Clock-1, NEW b \in BaseType PROVE BeamOf(b) \in 0..FrameLength-1
<1>1. /\ b.hSyncCount \in Int /\ b.cycle \in Int /\ b.base_cycle \in Int /\ b.hsync_steps \in Int
      /\ b.cycleStart \in 0..Clock-1 /\ LineCycles \in Int /\ LineFraction \in Int
  BY Bounds DEF BaseType
<1>2. Since(b.cycleStart) \in 0..Clock-1
  BY <1>1, SinceType
<1>3. Start(b) \in Int
  BY <1>1 DEF Start
<1>4. Start(b) + Since(b.cycleStart) * LineFraction \in Int
  BY <1>1, <1>2, <1>3, Bounds
<1> QED BY <1>4, LineBounds, ModRange DEF BeamOf

-----------------------------------------------------------------------------
(* The invariant.                                                           *)
LEMMA InitHolds == Init => IInv
<1> SUFFICES ASSUME Init PROVE IInv
  OBVIOUS
<1> DEFINE f == FALSE
           m == Idle.mode
<1>1. /\ Clock \in Nat \ {0} /\ Half \in Nat \ {0} /\ 2 * Half <= Clock /\ Late \in Nat \ {0}
      /\ Overflow \in Nat \ {0} /\ Overflow + 2 * Late < Half /\ LineFraction \in Nat \ {0}
      /\ HSyncTotal \in Nat \ {0}
  BY Bounds
<1>2. cycle \in 0..Clock-1 /\ 0 \in 0..Clock-1 /\ Since(0) = 0
  <2>1. cycle = 0 /\ 0 \in 0..Clock-1 /\ 0 - 0 = 0
    BY <1>1 DEF Init
  <2>2. Wrap(0) = 0
    BY <2>1, WrapSmall
  <2> QED BY <2>1, <2>2 DEF Since
<1>3. Idle \in TimerType
  <2>1. 1 \in Rates /\ 0 \in Targets
    BY CountersAssumption
  <2>2. Overflow \in 0..Clock-1
    BY <1>1
  <2> QED BY <1>2, <2>1, <2>2 DEF Idle, TimerType, Mode, Kinds
<1>4. /\ Idle.cycle = Overflow /\ Idle.cycleStart = 0 /\ Idle.target = 0 /\ Idle.rate = 1
      /\ Idle.counterState = "overflow" /\ Idle.irqState = FALSE /\ Idle.irq = FALSE
  BY DEF Idle
<1>5. Reach(Idle) = 0 /\ Full(Idle) = Overflow
  BY <1>1, <1>4 DEF Reach, Full
<1> DEFINE x == [phase |-> 0, owed |-> <<>>, want |-> FALSE, told |-> FALSE]
<1>6. x \in IdealType /\ x.phase = 0 /\ x.owed = <<>> /\ x.want = FALSE /\ x.told = FALSE
  BY DEF IdealType
<1>7. Sound(Idle, x, 0, 0)
  <2> HIDE DEF x
  <2>1. Place(Idle, x, 0)
    BY <1>1, <1>4, <1>5, <1>6 DEF Place
  <2>2. Idle.cycle = Full(Idle) /\ 0 <= Idle.cycle + 0 /\ Idle.counterState # "target"
    BY <1>1, <1>4, <1>5
  <2>3. x.told = Idle.irqState /\ x.want = Idle.irq
    BY <1>4, <1>6
  <2> QED BY <2>1, <2>2, <2>3 DEF Sound
<1>8. /\ timer = [i \in Timers |-> Idle] /\ ideal = [i \in Timers |-> x]
      /\ overrun = 0 /\ beam = NoBeam /\ vblanks = 0 /\ next = RcntSet(timer, base)
      /\ base = [cycleStart |-> 0, cycle |-> LineTarget, hSyncCount |-> 0, hsync_steps |-> 1,
                 base_cycle |-> 0]
  BY DEF Init
<1> HIDE DEF x
<1>9. timer \in [Timers -> TimerType] /\ ideal \in [Timers -> IdealType]
  BY <1>3, <1>6, <1>8
<1>10. /\ base \in BaseType /\ LineTarget <= base.cycle /\ base.cycle < Half
       /\ base.cycleStart = 0 /\ Since(base.cycleStart) <= base.cycle + 0
  <2>1. LineTarget \in 0..Half /\ LineTarget < Half /\ LineTarget \in Nat
    BY <1>1, LineBounds, LineTargetHalf
  <2>2. 0 \in 0..HSyncTotal-1 /\ 0 \in 0..LineFraction-1 /\ 1 \in Nat
    BY <1>1
  <2>3. base \in BaseType
    BY <1>2, <1>8, <2>1, <2>2 DEF BaseType
  <2>4. base.cycle = LineTarget /\ base.cycleStart = 0
    BY <1>8
  <2> QED BY <1>2, <2>1, <2>3, <2>4
<1>11. \A i \in Timers : timer[i] = Idle /\ ideal[i] = x
  BY <1>8
<1>12. TimersSound
  BY <1>2, <1>4, <1>7, <1>8, <1>11 DEF TimersSound
<1>13. /\ next \in [counter : 0..Half-1, start : 0..Clock-1] /\ Since(next.start) = 0
       /\ next.counter > 0 =>
            /\ next.counter <= base.cycle - Since(base.cycleStart)
            /\ \A i \in Timers : Followed(timer[i]) =>
                 next.counter <= timer[i].cycle - Since(timer[i].cycleStart)
  <2>1. 0 \in 0..Late
    BY <1>1
  <2>2. ASSUME NEW i \in Timers, Followed(timer[i])
        PROVE  /\ timer[i].cycle \in {Reach(timer[i]), Full(timer[i])}
               /\ Since(timer[i].cycleStart) <= timer[i].cycle + 0
    BY <1>1, <1>2, <1>4, <1>5, <1>11
  <2> QED BY <1>2, <1>8, <1>9, <1>10, <2>1, <2>2, NextAfter
<1>14. NextSound
  <2>1. next.counter \in Nat
    BY <1>1, <1>13
  <2>2. Since(next.start) <= next.counter + overrun
    BY <1>8, <1>13, <2>1
  <2>3. ~Due => next.counter > 0
    BY <1>13, <2>1 DEF Due
  <2>4. ASSUME ~Due
        PROVE  /\ next.counter - Since(next.start) <= base.cycle - Since(base.cycleStart)
               /\ \A i \in Timers : Followed(timer[i]) =>
                    next.counter - Since(next.start) <= timer[i].cycle - Since(timer[i].cycleStart)
    <3>1. next.counter - Since(next.start) = next.counter
      BY <1>13, <2>1
    <3> QED BY <1>13, <2>3, <2>4, <3>1
  <2> QED BY <2>2, <2>4 DEF NextSound
<1>15. BaseSound
  BY <1>8, <1>10 DEF BaseSound
<1>16. Typed
  <2>1. 0 \in 0..Late /\ 0 \in 0..2
    BY <1>1
  <2> QED BY <1>2, <1>8, <1>9, <1>10, <1>13, <2>1 DEF Typed
<1> QED BY <1>12, <1>14, <1>15, <1>16 DEF IInv

(* After a step that sets the event, by which no cycle passes. *)
LEMMA NextSet ==
  ASSUME Typed', cycle' = cycle, cycle \in 0..Clock-1, next' = RcntSet(timer', base'),
         TimersSound', BaseSound'
  PROVE  NextSound'
<1>1. /\ timer' \in [Timers -> TimerType] /\ base' \in BaseType /\ overrun' \in 0..Late
      /\ next' \in [counter : 0..Half-1, start : 0..Clock-1]
  BY DEF Typed
<1>2. \A a : Since(a)' = Since(a)
  BY DEF Since
<1>3. base'.cycle < Half /\ Since(base'.cycleStart) <= base'.cycle + overrun'
  BY <1>2 DEF BaseSound, Since
<1>4. ASSUME NEW i \in Timers, Followed(timer'[i])
      PROVE  /\ timer'[i].cycle \in {Reach(timer'[i]), Full(timer'[i])}
             /\ Since(timer'[i].cycleStart) <= timer'[i].cycle + overrun'
  <2>1. Sound(timer'[i], ideal'[i], Since(timer'[i].cycleStart), overrun')
    BY <1>4 DEF TimersSound, Since
  <2> QED BY <2>1 DEF Sound
<1>5. /\ Since(next'.start) = 0
      /\ next'.counter > 0 =>
           /\ next'.counter <= base'.cycle - Since(base'.cycleStart)
           /\ \A i \in Timers : Followed(timer'[i]) =>
                next'.counter <= timer'[i].cycle - Since(timer'[i].cycleStart)
  BY <1>1, <1>3, <1>4, NextAfter
<1>6. next'.counter \in Nat /\ overrun' \in Nat
  BY <1>1, Bounds
<1> DEFINE n == next'
<1>7. n.counter - Since(n.start) = n.counter
  BY <1>5, <1>6
<1>8. Due' <=> 0 >= n.counter
  BY <1>5 DEF Due, Since
<1>9. Since(n.start) <= n.counter + overrun'
  BY <1>5, <1>6
<1>10. ASSUME ~Due'
       PROVE  /\ n.counter - Since(n.start) <= base'.cycle - Since(base'.cycleStart)
              /\ \A i \in Timers : Followed(timer'[i]) =>
                   n.counter - Since(n.start) <= timer'[i].cycle - Since(timer'[i].cycleStart)
  <2>1. n.counter > 0
    BY <1>6, <1>8, <1>10
  <2> QED BY <1>5, <1>7, <2>1
<1> QED BY <1>9, <1>10 DEF NextSound, Since

(* What the invariant says of one timer. *)
LEMMA TimerKnown ==
  ASSUME IInv, NEW i \in Timers
  PROVE  /\ timer[i] \in TimerType /\ ideal[i] \in IdealType
         /\ timer[i].cycleStart \in 0..Clock-1 /\ Since(timer[i].cycleStart) \in 0..Clock-1
         /\ Followed(timer[i]) =>
              /\ Sound(timer[i], ideal[i], Since(timer[i].cycleStart), overrun)
              /\ timer[i].cycle \in Nat /\ timer[i].cycle + 2 * Late < Half
<1>1. timer[i] \in TimerType /\ ideal[i] \in IdealType /\ cycle \in 0..Clock-1
  BY DEF IInv, Typed
<1>2. timer[i].cycleStart \in 0..Clock-1 /\ Since(timer[i].cycleStart) \in 0..Clock-1
  BY <1>1, Fields, SinceType
<1>3. ASSUME Followed(timer[i])
      PROVE  /\ Sound(timer[i], ideal[i], Since(timer[i].cycleStart), overrun)
             /\ timer[i].cycle \in Nat /\ timer[i].cycle + 2 * Late < Half
  <2> DEFINE t == timer[i]
  <2>1. Sound(t, ideal[i], Since(t.cycleStart), overrun)
    BY <1>3 DEF IInv, TimersSound
  <2>2. /\ Reach(t) \in Nat /\ Full(t) \in Nat /\ Reach(t) < Full(t) /\ Full(t) + 2 * Late < Half
    BY <1>1, <1>3, FollowedTimes
  <2>3. t.cycle = Reach(t) \/ t.cycle = Full(t)
    BY <2>1 DEF Sound
  <2>4. t.cycle \in Nat /\ t.cycle + 2 * Late < Half
    BY <2>2, <2>3, Bounds
  <2> QED BY <2>1, <2>4
<1> QED BY <1>1, <1>2, <1>3

LEMMA Running == ASSUME IInv, Run PROVE IInv'
<1>1. /\ cycle \in 0..Clock-1 /\ overrun \in 0..Late /\ base \in BaseType
      /\ next.counter \in 0..Half-1 /\ next.start \in 0..Clock-1
      /\ next \in [counter : 0..Half-1, start : 0..Clock-1]
      /\ timer \in [Timers -> TimerType] /\ ideal \in [Timers -> IdealType]
      /\ beam \in {NoBeam} \cup 0..FrameLength-1 /\ vblanks \in 0..2
  BY DEF IInv, Typed
<1>2. /\ overrun < Late /\ cycle' = Wrap(cycle + 1)
      /\ overrun' = (IF overrun > 0 \/ Due THEN overrun + 1 ELSE 0)
      /\ ideal' = [i \in Timers |-> Tick(timer[i], ideal[i])]
      /\ beam' = (IF beam = NoBeam THEN beam ELSE (beam + LineFraction) % FrameLength)
      /\ timer' = timer /\ base' = base /\ next' = next /\ vblanks' = vblanks
  BY DEF Run
<1>3. /\ Clock \in Nat \ {0} /\ Half \in Nat \ {0} /\ 2 * Half <= Clock /\ Late \in Nat \ {0}
      /\ 2 * Late < Half /\ LineFraction \in Nat \ {0}
  BY Bounds
<1>4. cycle' \in 0..Clock-1 /\ overrun' \in 0..Late
  BY <1>1, <1>2, <1>3, WrapRange
<1>5. ASSUME NEW a \in 0..Clock-1, Since(a) < Clock - 1
      PROVE  Wrap(cycle' - a) = Since(a) + 1
  <2>1. cycle \in Int /\ a \in Int /\ Wrap(cycle - a) + 1 < Clock
    <3>1. Since(a) \in 0..Clock-1
      BY <1>1, SinceType
    <3> QED BY <1>1, <1>3, <1>5, <3>1 DEF Since
  <2> QED BY <1>2, <2>1, SinceRun DEF Since
<1>6. /\ next.counter \in Nat /\ overrun \in Nat /\ Since(next.start) \in 0..Clock-1
      /\ Since(next.start) <= next.counter + overrun
  <2>1. Since(next.start) \in 0..Clock-1
    BY <1>1, SinceType
  <2> QED BY <1>1, <1>3, <2>1 DEF IInv, NextSound
<1>7. Wrap(cycle' - next.start) = Since(next.start) + 1
  <2>1. Since(next.start) < Clock - 1
    BY <1>1, <1>2, <1>3, <1>6
  <2> QED BY <1>1, <1>5, <2>1
(* Nothing that is not due by now is late. *)
<1>8. ~Due => Since(next.start) < next.counter
  BY <1>6 DEF Due
<1>9. ASSUME NEW i \in Timers
      PROVE  /\ ideal'[i] = Tick(timer[i], ideal[i]) /\ ideal'[i] \in IdealType
             /\ Followed(timer[i]) =>
                  /\ Wrap(cycle' - timer[i].cycleStart) = Since(timer[i].cycleStart) + 1
                  /\ Sound(timer[i], ideal'[i], Since(timer[i].cycleStart) + 1, overrun')
  <2> DEFINE t == timer[i]
             x == ideal[i]
             s == Since(t.cycleStart)
  <2>1. ideal'[i] = Tick(t, x)
    BY <1>2
  <2>2. t \in TimerType /\ x \in IdealType /\ s \in 0..Clock-1 /\ t.cycleStart \in 0..Clock-1
    BY TimerKnown
  <2>3. CASE ~Followed(t)
    <3>1. Tick(t, x) = x
      BY <2>3 DEF Tick
    <3> QED BY <2>1, <2>2, <2>3, <3>1
  <2>4. CASE Followed(t)
    <3>1. Sound(t, x, s, overrun) /\ t.cycle \in Nat /\ t.cycle + 2 * Late < Half
      BY <2>4, TimerKnown
    <3>2. s <= t.cycle + overrun
      BY <3>1 DEF Sound
    <3>3. ~Due => next.counter - Since(next.start) <= t.cycle - s
      BY <2>4 DEF IInv, NextSound
    <3> HIDE DEF s, t, x
    <3>4. s < Clock - 1
      BY <1>1, <1>3, <2>2, <3>1, <3>2
    <3>5. Wrap(cycle' - t.cycleStart) = s + 1
      BY <1>5, <2>2, <3>4 DEF s
    <3>6. s + 1 <= t.cycle + overrun'
      <4>1. CASE overrun > 0 \/ Due
        BY <1>1, <1>2, <1>3, <2>2, <3>1, <3>2, <4>1
      <4>2. CASE ~(overrun > 0 \/ Due)
        <5>1. overrun' = 0 /\ ~Due
          BY <1>2, <4>2
        <5>2. s < t.cycle
          BY <1>3, <1>6, <1>8, <2>2, <3>1, <3>3, <5>1
        <5> QED BY <1>3, <2>2, <3>1, <5>1, <5>2
      <4> QED BY <4>1, <4>2
    <3>7. s \in Nat
      BY <1>3, <2>2
    <3>8. Sound(t, Tick(t, x), s + 1, overrun') /\ Tick(t, x) \in IdealType
      BY <1>1, <1>4, <2>2, <2>4, <3>1, <3>6, <3>7, TickSound
    <3> QED BY <2>1, <3>5, <3>8 DEF s, t, x
  <2> QED BY <2>3, <2>4
<1>10. ideal' \in [Timers -> IdealType]
  BY <1>2, <1>9
<1>11. TimersSound'
  <2>1. ASSUME NEW i \in Timers, Followed(timer'[i])
        PROVE  Sound(timer'[i], ideal'[i], Wrap(cycle' - timer'[i].cycleStart), overrun')
    BY <1>2, <1>9, <2>1
  <2> QED BY <2>1 DEF TimersSound, Since
<1>12. /\ base.cycle \in Nat /\ LineTarget <= base.cycle /\ base.cycle < Half
       /\ Since(base.cycleStart) \in 0..Clock-1 /\ base.cycleStart \in 0..Clock-1
       /\ Since(base.cycleStart) <= base.cycle + overrun
  <2>1. base.cycleStart \in 0..Clock-1 /\ base.cycle \in Nat
    BY <1>1, <1>3 DEF BaseType
  <2> QED BY <1>1, <2>1, SinceType DEF IInv, BaseSound
<1>13. Wrap(cycle' - base.cycleStart) = Since(base.cycleStart) + 1
  <2>1. Since(base.cycleStart) < Clock - 1
    BY <1>1, <1>2, <1>3, <1>12
  <2> QED BY <1>5, <1>12, <2>1
<1>14. ~Due => next.counter - Since(next.start) <= base.cycle - Since(base.cycleStart)
  BY DEF IInv, NextSound
<1>15. Since(base.cycleStart) + 1 <= base.cycle + overrun'
  <2>1. CASE overrun > 0 \/ Due
    BY <1>1, <1>2, <1>3, <1>12, <2>1
  <2>2. CASE ~(overrun > 0 \/ Due)
    <3>1. overrun' = 0 /\ ~Due
      BY <1>2, <2>2
    <3> QED BY <1>3, <1>6, <1>8, <1>12, <1>14, <3>1
  <2> QED BY <2>1, <2>2
<1>16. NextSound'
  <2>1. Since(next.start) + 1 <= next.counter + overrun'
    <3>1. CASE overrun > 0 \/ Due
      BY <1>1, <1>2, <1>3, <1>6, <3>1
    <3>2. CASE ~(overrun > 0 \/ Due)
      <4>1. overrun' = 0 /\ ~Due
        BY <1>2, <3>2
      <4> QED BY <1>3, <1>6, <1>8, <4>1
    <3> QED BY <3>1, <3>2
  <2>2. Due' <=> Since(next.start) + 1 >= next.counter
    BY <1>2, <1>7 DEF Due, Since
  <2>3. ~Due' => ~Due
    BY <1>3, <1>6, <2>2 DEF Due
  <2>4. ASSUME NEW i \in Timers, Followed(timer[i]), ~Due'
        PROVE  next.counter - Wrap(cycle' - next.start)
                 <= timer[i].cycle - Wrap(cycle' - timer[i].cycleStart)
    <3> DEFINE t == timer[i]
               s == Since(t.cycleStart)
    <3>1. next.counter - Since(next.start) <= t.cycle - s
      BY <2>3, <2>4 DEF IInv, NextSound
    <3>2. s \in 0..Clock-1 /\ t.cycle \in Nat
      BY <2>4, TimerKnown
    <3>3. Wrap(cycle' - t.cycleStart) = s + 1
      BY <1>9, <2>4
    <3> HIDE DEF t, s
    <3>4. next.counter - (Since(next.start) + 1) <= t.cycle - (s + 1)
      BY <1>3, <1>6, <3>1, <3>2
    <3> QED BY <1>7, <3>3, <3>4 DEF t
  <2>5. ~Due' => next.counter - Wrap(cycle' - next.start)
                   <= base.cycle - Wrap(cycle' - base.cycleStart)
    <3>1. ~Due' => next.counter - (Since(next.start) + 1)
                     <= base.cycle - (Since(base.cycleStart) + 1)
      BY <1>3, <1>6, <1>12, <1>14, <2>3
    <3> QED BY <1>7, <1>13, <3>1
  <2>6. Wrap(cycle' - next.start) <= next.counter + overrun'
    BY <1>7, <2>1
  <2> QED BY <1>2, <2>4, <2>5, <2>6 DEF NextSound, Since
<1>17. /\ beam' \in {NoBeam} \cup 0..FrameLength-1 /\ (beam' # NoBeam <=> beam # NoBeam)
       /\ beam # NoBeam => beam' = (beam + LineFraction) % FrameLength
  <2>1. CASE beam = NoBeam
    BY <1>1, <1>2, <2>1
  <2>2. CASE beam # NoBeam
    <3>1. beam' = (beam + LineFraction) % FrameLength /\ beam \in 0..FrameLength-1
      BY <1>1, <1>2, <2>2
    <3>2. beam + LineFraction \in Int /\ FrameLength \in Nat \ {0}
      BY <1>3, <3>1, LineBounds
    <3>3. beam' \in 0..FrameLength-1
      BY <3>1, <3>2, ModRange
    <3> QED BY <2>2, <3>1, <3>3, LineBounds DEF NoBeam
  <2> QED BY <2>1, <2>2
<1>18. ASSUME beam # NoBeam PROVE beam' = BeamOf(base)'
  <2> DEFINE X == Start(base) + Since(base.cycleStart) * LineFraction
  <2>1. beam = X % FrameLength
    BY <1>18 DEF IInv, BaseSound, BeamOf
  <2>2. Start(base) \in Int
    BY <1>1, Bounds DEF Start, BaseType
  <2>3. X \in Int /\ LineFraction \in Int /\ FrameLength \in Nat \ {0}
    <3>1. Since(base.cycleStart) * LineFraction \in Int
      BY <1>3, <1>12
    <3> QED BY <1>3, <2>2, <3>1, LineBounds
  <2>4. X + LineFraction = Start(base) + (Since(base.cycleStart) + 1) * LineFraction
    <3>1. (Since(base.cycleStart) + 1) * LineFraction
            = Since(base.cycleStart) * LineFraction + LineFraction
      BY <1>3, <1>12
    <3>2. Since(base.cycleStart) * LineFraction \in Int
      BY <1>3, <1>12
    <3> QED BY <1>3, <2>2, <3>1, <3>2
  <2> HIDE DEF X
  <2>5. ((X % FrameLength) + LineFraction) % FrameLength = (X + LineFraction) % FrameLength
    BY <2>3, ModPlus
  <2>6. Start(base)' = Start(base)
    BY <1>2 DEF Start
  <2>7. BeamOf(base)' = (Start(base) + (Since(base.cycleStart) + 1) * LineFraction) % FrameLength
    BY <1>2, <1>13, <2>6 DEF BeamOf, Since
  <2> QED BY <1>17, <1>18, <2>1, <2>4, <2>5, <2>7
<1>19. BaseSound'
  <2>1. Since(base.cycleStart)' = Since(base.cycleStart) + 1
    BY <1>2, <1>13 DEF Since
  <2>2. beam # NoBeam =>
          \/ base.hSyncCount = 0 /\ base.hsync_steps = VBlankStart /\ vblanks = 0
          \/ /\ base.hSyncCount = VBlankStart
             /\ base.hsync_steps = HSyncTotal - VBlankStart /\ vblanks = 1
    BY DEF IInv, BaseSound
  <2> QED BY <1>2, <1>12, <1>15, <1>17, <1>18, <2>1, <2>2 DEF BaseSound
<1>20. Typed'
  BY <1>1, <1>2, <1>4, <1>10, <1>17 DEF Typed
<1> QED BY <1>11, <1>16, <1>19, <1>20 DEF IInv

(* The update of the lines. *)
LEMMA LinesUpdated ==
  ASSUME IInv, Due, psxRcntUpdate, overrun' = 0, cycle' = cycle
  PROVE  /\ BaseSound' /\ base' \in BaseType /\ vblanks' \in 0..2
         /\ beam' \in {NoBeam} \cup 0..FrameLength-1
<1> DEFINE b == Lines(base)
           S == Since(base.cycleStart)
           ends == Expired(base)
<1>1. /\ cycle \in 0..Clock-1 /\ base \in BaseType /\ vblanks \in 0..2 /\ overrun \in 0..Late
      /\ beam \in {NoBeam} \cup 0..FrameLength-1
  BY DEF IInv, Typed
<1>2. /\ Half \in Nat /\ Clock \in Nat /\ Late \in Nat /\ VBlankStart \in Nat \ {0}
      /\ HSyncTotal \in Nat /\ VBlankStart < HSyncTotal
      /\ HSyncTotal - VBlankStart <= VBlankStart
  BY Bounds
<1>3. /\ base.cycle \in Nat /\ base.cycleStart \in 0..Clock-1 /\ S \in 0..Clock-1
      /\ LineTarget <= base.cycle /\ base.cycle < Half /\ S <= base.cycle + overrun
  <2>1. base.cycle \in Nat /\ base.cycleStart \in 0..Clock-1
    BY <1>1, <1>2 DEF BaseType
  <2> QED BY <1>1, <2>1, SinceType DEF IInv, BaseSound
<1>4. beam # NoBeam =>
        /\ \/ base.hSyncCount = 0 /\ base.hsync_steps = VBlankStart /\ vblanks = 0
           \/ /\ base.hSyncCount = VBlankStart
              /\ base.hsync_steps = HSyncTotal - VBlankStart /\ vblanks = 1
        /\ beam = BeamOf(base)
  BY DEF IInv, BaseSound
<1>5. ends <=> S >= base.cycle
  BY DEF Expired
<1>6. /\ base' = (IF ends THEN b ELSE base)
      /\ vblanks' = (CASE ends /\ base'.hSyncCount = 0 -> 0
                       [] ends /\ base'.hSyncCount = VBlankStart /\ vblanks < 2 -> vblanks + 1
                       [] OTHER -> vblanks)
      /\ beam' = IF ends /\ base'.hSyncCount = 0 /\ beam = NoBeam THEN BeamOf(base') ELSE beam
  BY Zenon DEF psxRcntUpdate
<1>7. Start(base)' = Start(base') /\ \A a : Since(a)' = Since(a)
  BY DEF Start, Since
<1>8. BeamOf(base)' = BeamOf(base')
  BY DEF BeamOf, Start, Since
<1>9. CASE ~ends
  <2>1. base' = base /\ vblanks' = vblanks /\ beam' = beam
    BY <1>6, <1>9
  <2>2. S <= base.cycle + 0
    BY <1>2, <1>3, <1>5, <1>9
  <2>3. Since(base.cycleStart)' = S
    BY <2>1 DEF Since
  <2>4. BaseSound'
    BY <1>3, <1>4, <1>8, <2>1, <2>2, <2>3 DEF BaseSound
  <2> QED BY <1>1, <2>1, <2>4
<1>10. CASE ends
  <2>1. /\ b \in BaseType /\ LineTarget <= b.cycle /\ b.cycle < Half
        /\ b.hSyncCount = (IF base.hSyncCount + base.hsync_steps >= HSyncTotal THEN 0
                           ELSE base.hSyncCount + base.hsync_steps)
    BY <1>1, LinesIs
  <2>2. /\ b.hsync_steps = (IF b.hSyncCount < VBlankStart THEN VBlankStart - b.hSyncCount
                            ELSE HSyncTotal - b.hSyncCount)
        /\ b.cycleStart = Wrap(base.cycleStart + base.cycle)
    BY <1>1, LinesIs
  <2>3. base' = b
    BY <1>6, <1>10
  <2>4. base.cycle <= S
    BY <1>3, <1>5, <1>10
  <2>5. Since(b.cycleStart) = S - base.cycle
    <3>1. /\ cycle \in Int /\ base.cycleStart \in Int /\ base.cycle \in Nat
          /\ base.cycle <= Wrap(cycle - base.cycleStart)
      BY <1>1, <1>2, <1>3, <2>4 DEF Since
    <3>2. Wrap(cycle - Wrap(base.cycleStart + base.cycle)) = Wrap(cycle - base.cycleStart) - base.cycle
      BY <3>1, SinceMoved, Zenon
    <3> HIDE DEF b
    <3> QED BY <2>2, <3>2 DEF Since
  <2> HIDE DEF b, S, ends
  <2>6. b.cycle \in Nat /\ b.hSyncCount \in 0..HSyncTotal-1
    BY <1>2, <2>1 DEF BaseType
  <2>7. Since(b.cycleStart) <= b.cycle + 0
    BY <1>1, <1>2, <1>3, <2>1, <2>5, <2>6, LineBounds
  <2>8. CASE beam # NoBeam
    <3>1. beam = BeamOf(base)
      BY <1>4, <2>8
    <3>2. base.hSyncCount + base.hsync_steps <= HSyncTotal
      BY <1>2, <1>4, <2>8
    <3>3. BeamOf(b) = BeamOf(base)
      BY <1>1, <2>4, <3>2, LinesBeam DEF b, S
    <3>4. beam' = beam /\ beam' = BeamOf(base)'
      BY <1>6, <1>8, <2>3, <2>8, <3>1, <3>3
    <3>5. \/ b.hSyncCount = 0 /\ b.hsync_steps = VBlankStart /\ vblanks' = 0
          \/ /\ b.hSyncCount = VBlankStart
             /\ b.hsync_steps = HSyncTotal - VBlankStart /\ vblanks' = 1
      <4>1. CASE base.hSyncCount = 0 /\ base.hsync_steps = VBlankStart /\ vblanks = 0
        <5>1. b.hSyncCount = VBlankStart /\ b.hsync_steps = HSyncTotal - VBlankStart
          BY <1>2, <2>1, <2>2, <4>1
        <5>2. vblanks' = vblanks + 1
          BY <1>2, <1>6, <1>10, <2>3, <4>1, <5>1
        <5> QED BY <4>1, <5>1, <5>2
      <4>2. CASE /\ base.hSyncCount = VBlankStart
                 /\ base.hsync_steps = HSyncTotal - VBlankStart /\ vblanks = 1
        <5>1. b.hSyncCount = 0
          BY <1>2, <2>1, <4>2
        <5>2. b.hsync_steps = VBlankStart
          BY <1>2, <2>2, <5>1
        <5>3. vblanks' = 0
          BY <1>2, <1>6, <1>10, <2>3, <5>1
        <5> QED BY <5>1, <5>2, <5>3
      <4> QED BY <1>4, <2>8, <4>1, <4>2
    <3>6. vblanks' \in 0..2
      BY <3>5
    <3>7. Since(base.cycleStart)' <= base'.cycle + overrun'
      BY <1>7, <2>3, <2>7
    <3>8. BaseSound'
      BY <2>1, <2>3, <3>4, <3>5, <3>7 DEF BaseSound
    <3> QED BY <1>1, <2>1, <2>3, <3>4, <3>6, <3>8
  <2>9. CASE beam = NoBeam
    <3>1. vblanks' \in 0..2
      BY <1>1, <1>6
    <3>2. Since(base.cycleStart)' <= base'.cycle + overrun'
      BY <1>7, <2>3, <2>7
    <3>3. CASE b.hSyncCount = 0
      <4>1. b.hsync_steps = VBlankStart /\ vblanks' = 0
        BY <1>2, <1>6, <1>10, <2>2, <2>3, <3>3
      <4>2. beam' = BeamOf(b)
        BY <1>6, <1>10, <2>3, <2>9, <3>3
      <4>3. beam' \in 0..FrameLength-1
        BY <1>1, <2>1, <4>2, BeamOfType
      <4>4. BaseSound'
        BY <1>8, <2>1, <2>3, <3>2, <3>3, <4>1, <4>2 DEF BaseSound
      <4> QED BY <2>1, <2>3, <3>1, <4>3, <4>4
    <3>4. CASE b.hSyncCount # 0
      <4>1. beam' = NoBeam
        BY <1>6, <2>3, <2>9, <3>4
      <4>2. BaseSound'
        BY <2>1, <2>3, <3>2, <4>1 DEF BaseSound
      <4> QED BY <2>1, <2>3, <3>1, <4>1, <4>2
    <3> QED BY <3>3, <3>4
  <2> QED BY <2>8, <2>9
<1> QED BY <1>9, <1>10

LEMMA Updating == ASSUME IInv, Due, psxRcntUpdate, overrun' = 0, cycle' = cycle PROVE IInv'
<1>1. /\ cycle \in 0..Clock-1 /\ timer \in [Timers -> TimerType]
      /\ ideal \in [Timers -> IdealType] /\ overrun \in 0..Late
  BY DEF IInv, Typed
<1>2. /\ BaseSound' /\ base' \in BaseType /\ vblanks' \in 0..2
      /\ beam' \in {NoBeam} \cup 0..FrameLength-1
  BY LinesUpdated
<1>3. /\ timer' = [i \in Timers |-> Updated(timer[i])]
      /\ ideal' = [i \in Timers |-> Pass(timer[i], ideal[i], Seen(timer[i]))]
      /\ next' = RcntSet(timer', base')
  BY Zenon DEF psxRcntUpdate
<1>4. ASSUME NEW i \in Timers
      PROVE  /\ timer'[i] \in TimerType /\ ideal'[i] \in IdealType
             /\ timer'[i] = Updated(timer[i])
             /\ Followed(timer'[i]) =>
                  Sound(timer'[i], ideal'[i], Since(timer'[i].cycleStart), 0)
  <2>1. timer'[i] = Updated(timer[i]) /\ ideal'[i] = Pass(timer[i], ideal[i], Seen(timer[i]))
    BY <1>3
  <2>2. timer[i] \in TimerType /\ ideal[i] \in IdealType
    BY <1>1
  <2>3. /\ Updated(timer[i]) \in TimerType /\ Updated(timer[i]).rate = timer[i].rate
        /\ Updated(timer[i]).target = timer[i].target
    BY <1>1, <2>2, UpdatedType
  <2>4. Seen(timer[i]) \in 0..2
    BY DEF Seen
  <2>5. Pass(timer[i], ideal[i], Seen(timer[i])) \in IdealType
    BY <2>2, <2>4, PassIs
  <2>6. Followed(Updated(timer[i])) => Followed(timer[i])
    BY <2>3 DEF Followed
  <2>7. Followed(timer[i]) =>
          Sound(Updated(timer[i]), Pass(timer[i], ideal[i], Seen(timer[i])),
                Since(Updated(timer[i]).cycleStart), 0)
    BY <1>1, <2>2, TimerKnown, UpdatedSound
  <2> QED BY <2>1, <2>3, <2>5, <2>6, <2>7, Zenon
<1>5. timer' \in [Timers -> TimerType] /\ ideal' \in [Timers -> IdealType]
  BY <1>3, <1>4
<1>6. TimersSound'
  <2>1. \A a : Wrap(cycle' - a) = Since(a)
    BY DEF Since
  <2>2. ASSUME NEW i \in Timers, Followed(timer'[i])
        PROVE  Sound(timer'[i], ideal'[i], Wrap(cycle' - timer'[i].cycleStart), overrun')
    BY <1>4, <2>1, <2>2
  <2> QED BY <2>2 DEF TimersSound, Since
<1>7. next' \in [counter : 0..Half-1, start : 0..Clock-1]
  <2>1. ASSUME NEW i \in Timers PROVE ToUpdate(timer'[i]) \in Nat
    <3>1. timer'[i].cycle \in 0..Clock-1 /\ timer'[i].cycleStart \in 0..Clock-1
      BY <1>4, Fields
    <3> QED BY <1>1, <3>1, ToUpdateType
  <2>2. ToUpdate(base') \in Nat
    <3>1. base'.cycle \in 0..Clock-1 /\ base'.cycleStart \in 0..Clock-1
      BY <1>2, Bounds DEF BaseType
    <3> QED BY <1>1, <3>1, ToUpdateType
  <2> QED BY <1>1, <1>3, <2>1, <2>2, RcntSetIs
<1>8. Typed'
  <2>1. 0 \in 0..Late
    BY Bounds
  <2> QED BY <1>1, <1>2, <1>5, <1>7, <2>1 DEF Typed
<1>9. NextSound'
  BY <1>1, <1>2, <1>3, <1>6, <1>8, NextSet
<1> QED BY <1>2, <1>6, <1>8, <1>9 DEF IInv

LEMMA Ending == ASSUME IInv, BlockEnd PROVE IInv'
<1>1. overrun' = 0 /\ cycle' = cycle
  BY DEF BlockEnd
<1>2. CASE Due /\ psxRcntUpdate
  BY <1>1, <1>2, Updating
<1>3. CASE ~Due /\ UNCHANGED <<timer, base, next, ideal, beam, vblanks>>
  <2>1. /\ timer' = timer /\ base' = base /\ next' = next /\ ideal' = ideal
        /\ beam' = beam /\ vblanks' = vblanks
    BY <1>3
  <2>2. next.counter \in Nat /\ Since(next.start) \in Nat /\ Since(next.start) < next.counter
    <3>1. cycle \in 0..Clock-1 /\ next.counter \in 0..Half-1 /\ next.start \in 0..Clock-1
      BY DEF IInv, Typed
    <3>2. Since(next.start) \in 0..Clock-1
      BY <3>1, SinceType
    <3>3. next.counter \in Nat /\ Since(next.start) \in Nat
      BY <3>1, <3>2, Bounds
    <3> QED BY <1>3, <3>3 DEF Due
  <2>3. \A a : Since(a)' = Since(a) /\ Wrap(cycle' - a) = Since(a)
    BY <1>1 DEF Since
  <2>4. ASSUME NEW i \in Timers, Followed(timer[i])
        PROVE  Sound(timer[i], ideal[i], Since(timer[i].cycleStart), 0)
    <3> DEFINE t == timer[i]
               s == Since(t.cycleStart)
    <3>1. Sound(t, ideal[i], s, overrun) /\ s \in 0..Clock-1 /\ t.cycle \in Nat
      BY <2>4, TimerKnown
    <3>2. next.counter - Since(next.start) <= t.cycle - s
      BY <1>3, <2>4 DEF IInv, NextSound
    <3> HIDE DEF t, s
    <3>3. s <= t.cycle + 0
      BY <2>2, <3>1, <3>2, Bounds
    <3>4. Sound(t, ideal[i], s, 0)
      BY <3>1, <3>3 DEF Sound
    <3> QED BY <3>4 DEF t, s
  <2>5. TimersSound'
    <3>1. ASSUME NEW i \in Timers, Followed(timer'[i])
          PROVE  Sound(timer'[i], ideal'[i], Wrap(cycle' - timer'[i].cycleStart), overrun')
      BY <1>1, <2>1, <2>3, <2>4, <3>1
    <3> QED BY <3>1 DEF TimersSound, Since
  <2>6. /\ base.cycle \in Nat /\ Since(base.cycleStart) \in Nat
        /\ Since(base.cycleStart) <= base.cycle + 0
    <3>1. cycle \in 0..Clock-1 /\ base.cycle \in 0..Half /\ base.cycleStart \in 0..Clock-1
      BY DEF IInv, Typed, BaseType
    <3>2. base.cycle \in Nat /\ Since(base.cycleStart) \in Nat
      BY <3>1, SinceType, Bounds
    <3>3. next.counter - Since(next.start) <= base.cycle - Since(base.cycleStart)
      BY <1>3 DEF IInv, NextSound
    <3> QED BY <2>2, <3>2, <3>3
  <2>7. BaseSound'
    <3>1. BeamOf(base)' = BeamOf(base)
      BY <1>1, <2>1 DEF BeamOf, Start, Since
    <3>2. Since(base.cycleStart)' <= base'.cycle + overrun'
      BY <1>1, <2>1, <2>6 DEF Since
    <3> QED BY <2>1, <3>1, <3>2 DEF IInv, BaseSound
  <2>8. NextSound'
    <3>1. Due' = Due
      BY <1>1, <2>1 DEF Due, Since
    <3>2. Wrap(cycle' - next.start) <= next.counter + overrun'
      BY <1>1, <2>2, <2>3
    <3>3. ASSUME ~Due
          PROVE  /\ next.counter - Since(next.start) <= base.cycle - Since(base.cycleStart)
                 /\ \A i \in Timers : Followed(timer[i]) =>
                      next.counter - Since(next.start) <= timer[i].cycle - Since(timer[i].cycleStart)
      BY <3>3 DEF IInv, NextSound
    <3> QED BY <1>1, <2>1, <3>1, <3>2, <3>3 DEF NextSound, Since
  <2>9. Typed'
    BY <1>1, <2>1, Bounds DEF IInv, Typed
  <2> QED BY <2>5, <2>7, <2>8, <2>9 DEF IInv
<1> QED BY <1>2, <1>3 DEF BlockEnd

(* A timer is written, with the count it is given or the one it has. *)
LEMMA Writing ==
  ASSUME IInv, NEW i \in Timers, NEW u \in TimerType, NEW told \in BOOLEAN,
         Followed(u) => Sound(u, SetTo(u, told), Since(u.cycleStart), 0),
         Written(i, u, told)
  PROVE  IInv'
<1>1. /\ cycle \in 0..Clock-1 /\ overrun \in 0..Late /\ base \in BaseType
      /\ timer \in [Timers -> TimerType] /\ ideal \in [Timers -> IdealType]
      /\ beam \in {NoBeam} \cup 0..FrameLength-1 /\ vblanks \in 0..2
  BY DEF IInv, Typed
<1>2. /\ timer' = [timer EXCEPT ![i] = u] /\ ideal' = [ideal EXCEPT ![i] = SetTo(u, told)]
      /\ next' = RcntSet(timer', base) /\ cycle' = cycle /\ base' = base
      /\ overrun' = overrun /\ beam' = beam /\ vblanks' = vblanks
  BY DEF Written
<1>3. SetTo(u, told) \in IdealType
  BY <1>1, SetToType
<1>4. timer' \in [Timers -> TimerType] /\ ideal' \in [Timers -> IdealType]
  BY <1>1, <1>2, <1>3
<1>5. ASSUME NEW j \in Timers, Followed(timer'[j])
      PROVE  Sound(timer'[j], ideal'[j], Since(timer'[j].cycleStart), overrun)
  <2>1. CASE j = i
    <3>1. timer'[j] = u /\ ideal'[j] = SetTo(u, told)
      BY <1>1, <1>2, <2>1
    <3>2. Since(u.cycleStart) \in Nat /\ overrun \in Nat /\ 0 <= overrun
      BY <1>1, Fields, SinceType, Bounds
    <3>3. Sound(u, SetTo(u, told), Since(u.cycleStart), 0)
      BY <1>5, <3>1
    <3>4. 0 \in Nat
      OBVIOUS
    <3>5. Sound(u, SetTo(u, told), Since(u.cycleStart), overrun)
      BY <3>2, <3>3, <3>4, SoundLater
    <3> QED BY <3>1, <3>5
  <2>2. CASE j # i
    <3>1. timer'[j] = timer[j] /\ ideal'[j] = ideal[j]
      BY <1>1, <1>2, <2>2
    <3> QED BY <1>5, <3>1 DEF IInv, TimersSound
  <2> QED BY <2>1, <2>2
<1>6. TimersSound'
  BY <1>2, <1>5 DEF TimersSound, Since
<1>7. BaseSound'
  <2>1. BeamOf(base)' = BeamOf(base)
    BY <1>2 DEF BeamOf, Start, Since
  <2>2. Since(base.cycleStart)' = Since(base.cycleStart)
    BY <1>2 DEF Since
  <2> QED BY <1>2, <2>1, <2>2 DEF IInv, BaseSound
<1>8. next' \in [counter : 0..Half-1, start : 0..Clock-1]
  <2>1. ASSUME NEW j \in Timers PROVE ToUpdate(timer'[j]) \in Nat
    <3>1. timer'[j] \in TimerType
      BY <1>4
    <3>2. timer'[j].cycle \in 0..Clock-1 /\ timer'[j].cycleStart \in 0..Clock-1
      BY <3>1, Fields
    <3> QED BY <1>1, <3>2, ToUpdateType
  <2>2. ToUpdate(base) \in Nat
    <3>1. base.cycle \in 0..Clock-1 /\ base.cycleStart \in 0..Clock-1
      BY <1>1, Bounds DEF BaseType
    <3> QED BY <1>1, <3>1, ToUpdateType
  <2> QED BY <1>1, <1>2, <2>1, <2>2, RcntSetIs
<1>9. Typed'
  BY <1>1, <1>2, <1>4, <1>8 DEF Typed
<1>10. NextSound'
  BY <1>1, <1>2, <1>6, <1>7, <1>9, NextSet
<1> QED BY <1>6, <1>7, <1>9, <1>10 DEF IInv

(* What its ideal has been told is what the timer remembers. *)
LEMMA ToldIs == ASSUME IInv, NEW i \in Timers PROVE Told(i) = timer[i].irqState
<1>1. Followed(timer[i]) => ideal[i].told = timer[i].irqState
  BY TimerKnown DEF Sound
<1> QED BY <1>1 DEF Told

LEMMA CountWritten ==
  ASSUME IInv, NEW i \in Timers, NEW t \in TimerType, NEW v \in 0..Overflow-1,
         Written(i, Wcount(t, v), t.irqState)
  PROVE  IInv'
<1>1. cycle \in 0..Clock-1 /\ t.irqState \in BOOLEAN
  BY Fields DEF IInv, Typed
<1>2. Wcount(t, v) \in TimerType
  BY <1>1, WcountIs
<1>3. Followed(Wcount(t, v)) =>
        Sound(Wcount(t, v), SetTo(Wcount(t, v), t.irqState), Since(Wcount(t, v).cycleStart), 0)
  BY <1>1, WcountSound
<1> QED BY <1>1, <1>2, <1>3, Writing

LEMMA ModeSet ==
  ASSUME NEW t \in TimerType, NEW m \in Mode, NEW r \in Rates \cup {Disabled}, NEW f \in BOOLEAN
  PROVE  /\ [t EXCEPT !.mode = m, !.rate = r, !.irqState = f] \in TimerType
         /\ [t EXCEPT !.mode = m, !.rate = r, !.irqState = f].irqState = f
  BY DEF TimerType

LEMMA Guest ==
  ASSUME IInv, NEW i \in Timers,
         \/ \E value \in Counts : psxRcntWcount(i, value)
         \/ \E mode \in Modes, rate \in Rates \cup {Disabled} : psxRcntWmode(i, mode, rate)
         \/ \E value \in Targets : psxRcntWtarget(i, value)
  PROVE  IInv'
<1> DEFINE t == timer[i]
<1>1. t \in TimerType /\ Told(i) = t.irqState /\ cycle \in 0..Clock-1
  BY TimerKnown, ToldIs DEF IInv, Typed
<1>2. Modes \subseteq Mode /\ Counts \subseteq 0..Overflow-1
  BY CountersAssumption
<1>3. /\ t = [mode |-> t.mode, rate |-> t.rate, target |-> t.target,
              counterState |-> t.counterState, cycle |-> t.cycle,
              cycleStart |-> t.cycleStart, irqState |-> t.irqState, irq |-> t.irq]
      /\ t.mode \in Mode /\ t.rate \in Rates \cup {Disabled} /\ t.target \in Targets
      /\ t.counterState \in Kinds /\ t.cycle \in 0..Clock-1 /\ t.cycleStart \in 0..Clock-1
      /\ t.irqState \in BOOLEAN /\ t.irq \in BOOLEAN
  BY <1>1, Fields
<1>4. CASE \E value \in Counts : psxRcntWcount(i, value)
  <2>1. PICK v \in Counts : Written(i, Wcount(t, v), Told(i))
    BY <1>4 DEF psxRcntWcount
  <2>2. v \in 0..Overflow-1
    BY <1>2
  <2> HIDE DEF t
  <2> QED BY <1>1, <2>1, <2>2, CountWritten
<1>5. CASE \E mode \in Modes, rate \in Rates \cup {Disabled} : psxRcntWmode(i, mode, rate)
  <2> DEFINE f == FALSE
  <2>1. PICK m \in Modes, r \in Rates \cup {Disabled} :
          Written(i, Wcount([t EXCEPT !.mode = m, !.rate = r, !.irqState = f], 0), f)
    BY <1>5 DEF psxRcntWmode
  <2> DEFINE u == [t EXCEPT !.mode = m, !.rate = r, !.irqState = f]
  <2>2. m \in Mode /\ f \in BOOLEAN
    BY <1>2
  <2> HIDE DEF t, f
  <2>3. u \in TimerType /\ u.irqState = f
    <3>1. \A k \in Mode, q \in Rates \cup {Disabled}, g \in BOOLEAN :
            /\ [t EXCEPT !.mode = k, !.rate = q, !.irqState = g] \in TimerType
            /\ [t EXCEPT !.mode = k, !.rate = q, !.irqState = g].irqState = g
      BY <1>1, ModeSet
    <3>2. u = [t EXCEPT !.mode = m, !.rate = r, !.irqState = f]
      OBVIOUS
    <3> HIDE DEF u
    <3> QED BY <2>2, <3>1, <3>2
  <2> HIDE DEF u
  <2>6. 0 \in 0..Overflow-1
    BY Bounds
  <2>7. Written(i, Wcount(u, 0), u.irqState)
    BY <2>1, <2>3 DEF u
  <2> QED BY <2>3, <2>6, <2>7, CountWritten
<1>6. CASE \E value \in Targets : psxRcntWtarget(i, value)
  <2>1. PICK g \in Targets : Written(i, Wcount([t EXCEPT !.target = g], Rcount(t)), Told(i))
    BY <1>6 DEF psxRcntWtarget
  <2> DEFINE u == [t EXCEPT !.target = g]
  <2> HIDE DEF t
  <2>2. u = [mode |-> t.mode, rate |-> t.rate, target |-> g, counterState |-> t.counterState,
             cycle |-> t.cycle, cycleStart |-> t.cycleStart, irqState |-> t.irqState, irq |-> t.irq]
    BY <1>3
  <2> HIDE DEF u
  <2>3. u \in TimerType
    BY <1>3, <2>2, TimerMade
  <2>4. u.irqState = t.irqState
    BY <2>2
  <2>5. Rcount(t) \in 0..Overflow-1
    BY <1>1, RcountRange
  <2>6. Written(i, Wcount(u, Rcount(t)), u.irqState)
    BY <1>1, <2>1, <2>4 DEF u
  <2> QED BY <2>3, <2>5, <2>6, CountWritten
<1> QED BY <1>4, <1>5, <1>6

LEMMA Loading == ASSUME IInv, Reload PROVE IInv'
<1> DEFINE count == Since(base.cycleStart) % Overflow
           c == IF count < LineTarget THEN LineTarget ELSE Overflow
           a == Wrap(cycle - count)
           h == count \div LineTarget
<1>1. /\ cycle \in 0..Clock-1 /\ overrun \in 0..Late /\ base \in BaseType
      /\ timer \in [Timers -> TimerType] /\ ideal \in [Timers -> IdealType]
      /\ vblanks \in 0..2
  BY DEF IInv, Typed
<1>2. /\ timer' = [i \in Timers |-> Wcount(timer[i], Rcount(timer[i]))]
      /\ ideal' = [i \in Timers |-> SetTo(timer'[i], Told(i))]
      /\ base' = [base EXCEPT !.cycleStart = a, !.cycle = c, !.hsync_steps = h, !.base_cycle = 0]
      /\ next' = RcntSet(timer', base') /\ beam' = NoBeam
      /\ cycle' = cycle /\ overrun' = overrun /\ vblanks' = vblanks
  BY DEF Reload
<1>3. /\ Overflow \in Nat \ {0} /\ Overflow + 2 * Late < Half /\ Half \in Nat
      /\ 2 * Half <= Clock /\ Clock \in Nat /\ Late \in Nat /\ LineFraction \in Nat \ {0}
      /\ LineTarget \in Nat \ {0} /\ LineTarget < Half
  BY Bounds, LineBounds, LineTargetHalf
<1>4. count \in 0..Overflow-1
  <2>1. Since(base.cycleStart) \in 0..Clock-1
    BY <1>1, SinceType DEF BaseType
  <2>2. Since(base.cycleStart) \in Int
    BY <1>3, <2>1
  <2> QED BY <1>3, <2>2, ModRange
<1> HIDE DEF count
<1>5. /\ a \in 0..Clock-1 /\ c \in 0..Half /\ LineTarget <= c /\ c < Half /\ count <= c
      /\ h \in Nat
  <2>1. a \in 0..Clock-1
    BY <1>1, <1>3, <1>4, WrapRange
  <2>2. c \in 0..Half /\ LineTarget <= c /\ c < Half /\ count <= c
    BY <1>3, <1>4
  <2>3. h \in Nat
    BY <1>3, <1>4, Divided
  <2> QED BY <2>1, <2>2, <2>3
<1>6. Since(a) = count
  <2>1. cycle \in Int /\ count \in 0..Clock-1
    BY <1>1, <1>3, <1>4
  <2> QED BY <2>1, SinceSet DEF Since
<1>7. /\ base' \in BaseType /\ base'.cycle = c /\ base'.cycleStart = a
  <2>1. base = [cycleStart |-> base.cycleStart, cycle |-> base.cycle,
                hSyncCount |-> base.hSyncCount, hsync_steps |-> base.hsync_steps,
                base_cycle |-> base.base_cycle]
        /\ base.hSyncCount \in 0..HSyncTotal-1
    BY <1>1 DEF BaseType
  <2>2. 0 \in 0..LineFraction-1
    BY <1>3
  <2> HIDE DEF a, c, h
  <2>3. base' = [cycleStart |-> a, cycle |-> c, hSyncCount |-> base.hSyncCount,
                 hsync_steps |-> h, base_cycle |-> 0]
    BY <1>2, <2>1
  <2>4. base' \in BaseType
    BY <1>5, <2>1, <2>2, <2>3 DEF BaseType
  <2> QED BY <2>3, <2>4
<1> HIDE DEF a, c, h
<1>8. BaseSound'
  <2>1. Since(base.cycleStart)' = count
    BY <1>2, <1>6, <1>7 DEF Since
  <2>2. count <= c + overrun
    BY <1>1, <1>3, <1>4, <1>5
  <2> QED BY <1>2, <1>5, <1>7, <2>1, <2>2 DEF BaseSound
<1>9. ASSUME NEW i \in Timers
      PROVE  /\ timer'[i] \in TimerType /\ ideal'[i] \in IdealType
             /\ Followed(timer'[i]) =>
                  Sound(timer'[i], ideal'[i], Since(timer'[i].cycleStart), overrun)
  <2> DEFINE t == timer[i]
             u == Wcount(t, Rcount(t))
  <2>1. t \in TimerType /\ t.irqState \in BOOLEAN /\ Rcount(t) \in 0..Overflow-1
    BY <1>1, Fields, RcountRange
  <2>2. timer'[i] = u /\ ideal'[i] = SetTo(u, t.irqState)
    BY <1>2, ToldIs
  <2> HIDE DEF t
  <2>3. u \in TimerType
    BY <1>1, <2>1, WcountIs
  <2>4. Followed(u) => Sound(u, SetTo(u, t.irqState), Since(u.cycleStart), 0)
    BY <1>1, <2>1, WcountSound
  <2> HIDE DEF u
  <2>5. SetTo(u, t.irqState) \in IdealType
    BY <1>1, <2>1, <2>3, SetToType
  <2>6. Since(u.cycleStart) \in Nat /\ overrun \in Nat /\ 0 <= overrun /\ 0 \in Nat
    BY <1>1, <2>3, Fields, SinceType, Bounds
  <2>7. Followed(u) => Sound(u, SetTo(u, t.irqState), Since(u.cycleStart), overrun)
    BY <2>3, <2>4, <2>6, SoundLater
  <2> QED BY <2>2, <2>3, <2>5, <2>7
<1>10. timer' \in [Timers -> TimerType] /\ ideal' \in [Timers -> IdealType]
  BY <1>2, <1>9
<1>11. TimersSound'
  BY <1>2, <1>9 DEF TimersSound, Since
<1>12. next' \in [counter : 0..Half-1, start : 0..Clock-1]
  <2>1. ASSUME NEW j \in Timers PROVE ToUpdate(timer'[j]) \in Nat
    <3>1. timer'[j].cycle \in 0..Clock-1 /\ timer'[j].cycleStart \in 0..Clock-1
      BY <1>9, Fields
    <3> QED BY <1>1, <3>1, ToUpdateType
  <2>2. ToUpdate(base') \in Nat
    <3>1. base'.cycle \in 0..Clock-1 /\ base'.cycleStart \in 0..Clock-1
      BY <1>3, <1>5, <1>7
    <3> QED BY <1>1, <3>1, ToUpdateType
  <2> QED BY <1>1, <1>2, <2>1, <2>2, RcntSetIs
<1>13. Typed'
  BY <1>1, <1>2, <1>7, <1>10, <1>12 DEF Typed
<1>14. NextSound'
  BY <1>1, <1>2, <1>8, <1>11, <1>13, NextSet
<1> QED BY <1>8, <1>11, <1>13, <1>14 DEF IInv

LEMMA Resting == ASSUME IInv, UNCHANGED vars PROVE IInv'
<1>1. /\ cycle' = cycle /\ timer' = timer /\ base' = base /\ next' = next /\ overrun' = overrun
      /\ ideal' = ideal /\ beam' = beam /\ vblanks' = vblanks
  BY DEF vars
<1>2. Typed'
  BY <1>1 DEF IInv, Typed
<1>3. TimersSound'
  BY <1>1 DEF IInv, TimersSound, Since
<1>4. NextSound'
  BY <1>1 DEF IInv, NextSound, Due, Since
<1>5. BaseSound'
  BY <1>1 DEF IInv, BaseSound, BeamOf, Start, Since
<1> QED BY <1>2, <1>3, <1>4, <1>5 DEF IInv

LEMMA StepHolds == IInv /\ [Next]_vars => IInv'
<1> SUFFICES ASSUME IInv, [Next]_vars PROVE IInv'
  OBVIOUS
<1>1. CASE Run
  BY <1>1, Running
<1>2. CASE BlockEnd
  BY <1>2, Ending
<1>3. CASE Reload
  BY <1>3, Loading
<1>4. ASSUME NEW i \in Timers,
             \/ \E value \in Counts : psxRcntWcount(i, value)
             \/ \E mode \in Modes, rate \in Rates \cup {Disabled} : psxRcntWmode(i, mode, rate)
             \/ \E value \in Targets : psxRcntWtarget(i, value)
      PROVE  IInv'
  BY <1>4, Guest
<1>5. CASE UNCHANGED vars
  BY <1>5, Resting
<1> QED BY <1>1, <1>2, <1>3, <1>4, <1>5 DEF Next

-----------------------------------------------------------------------------
(* The theorems.                                                            *)
LEMMA Always == Spec => []IInv
<1>1. Init => IInv
  BY InitHolds
<1>2. IInv /\ [Next]_vars => IInv'
  BY StepHolds
<1> QED BY <1>1, <1>2, PTL DEF Spec

LEMMA TypedOK == IInv => TypeOK
<1> SUFFICES ASSUME IInv PROVE TypeOK
  OBVIOUS
<1>1. Typed
  BY DEF IInv
<1>2. base.cycle \in 0..Half /\ base.hSyncCount \in 0..HSyncTotal-1 /\ base.hsync_steps \in Nat
      /\ base.cycleStart \in 0..Clock-1 /\ base.base_cycle \in 0..LineFraction-1
  BY <1>1 DEF Typed, BaseType
<1>3. \A i \in Timers : ideal[i].owed \in Seq({"target", "overflow"})
  BY <1>1 DEF Typed, IdealType, Kinds
<1>4. timer \in [Timers -> [mode : Mode, rate : Rates \cup {Disabled}, target : Targets,
                           counterState : {"target", "overflow"}, cycle : 0..Clock-1,
                           cycleStart : 0..Clock-1, irqState : BOOLEAN, irq : BOOLEAN]]
  BY <1>1, Zenon DEF Typed, TimerType, Kinds
<1> QED BY <1>1, <1>2, <1>3, <1>4 DEF TypeOK, Typed

(* How often what is owed holds a target, and an overflow. *)
LEMMA TimesNone ==
  ASSUME NEW owed, NEW kind, \A n \in DOMAIN owed : owed[n] # kind
  PROVE  Times(owed, kind) = 0
<1>1. {n \in DOMAIN owed : owed[n] = kind} = {}
  OBVIOUS
<1> QED BY <1>1, FS_EmptySet DEF Times

LEMMA TimesOnce ==
  ASSUME NEW owed, NEW kind, NEW k \in DOMAIN owed, owed[k] = kind,
         \A n \in DOMAIN owed : n # k => owed[n] # kind
  PROVE  Times(owed, kind) = 1
<1>1. {n \in DOMAIN owed : owed[n] = kind} = {k}
  OBVIOUS
<1>2. Cardinality({k}) = 1
  BY FS_Singleton
<1> QED BY <1>1, <1>2 DEF Times

LEMMA TimesAre ==
  /\ Times(<<>>, "target") = 0 /\ Times(<<>>, "overflow") = 0
  /\ Times(<<"target">>, "target") = 1 /\ Times(<<"target">>, "overflow") = 0
  /\ Times(<<"overflow">>, "target") = 0 /\ Times(<<"overflow">>, "overflow") = 1
  /\ Times(<<"target", "overflow">>, "target") = 1
  /\ Times(<<"target", "overflow">>, "overflow") = 1
<1> DEFINE none == <<>>
           aim == <<"target">>
           end == <<"overflow">>
           both == <<"target", "overflow">>
           T == "target"
           O == "overflow"
<1>1. DOMAIN none = {}
  OBVIOUS
<1>2. DOMAIN aim = {1} /\ aim[1] = T
  OBVIOUS
<1>3. DOMAIN end = {1} /\ end[1] = O
  OBVIOUS
<1>4. DOMAIN both = {1, 2} /\ both[1] = T /\ both[2] = O
  OBVIOUS
<1>5. T # O
  OBVIOUS
<1> HIDE DEF none, aim, end, both, T, O
<1>6. Times(none, T) = 0 /\ Times(none, O) = 0
  BY <1>1, TimesNone
<1>7. Times(aim, T) = 1
  BY <1>2, TimesOnce
<1>8. Times(aim, O) = 0
  BY <1>2, <1>5, TimesNone
<1>9. Times(end, T) = 0
  BY <1>3, <1>5, TimesNone
<1>10. Times(end, O) = 1
  BY <1>3, TimesOnce
<1>11. Times(both, T) = 1
  <2>1. 1 \in DOMAIN both /\ \A n \in DOMAIN both : n # 1 => both[n] # T
    BY <1>4, <1>5
  <2> QED BY <1>4, <2>1, TimesOnce
<1>12. Times(both, O) = 1
  <2>1. 2 \in DOMAIN both /\ \A n \in DOMAIN both : n # 2 => both[n] # O
    BY <1>4, <1>5
  <2> QED BY <1>4, <2>1, TimesOnce
<1> QED BY <1>6, <1>7, <1>8, <1>9, <1>10, <1>11, <1>12, Zenon DEF none, aim, end, both, T, O

LEMMA SoundDrifts ==
  ASSUME NEW t \in TimerType, NEW x \in IdealType, Followed(t), NEW s \in Int, NEW l \in 0..Late,
         Sound(t, x, s, l)
  PROVE  LET reached == IF t.mode.toTarget THEN Times(x.owed, "target") * t.target ELSE 0
         IN  /\ s = x.phase + (reached + Times(x.owed, "overflow") * Overflow) * t.rate
             /\ t.counterState = IF x.owed # <<>> THEN x.owed[1]
                                 ELSE IF x.phase < t.target * t.rate THEN "target" ELSE "overflow"
             /\ s <= t.cycle + Late
<1> DEFINE A == Times(x.owed, "target")
           B == Times(x.owed, "overflow")
           reached == IF t.mode.toTarget THEN A * t.target ELSE 0
           R == Reach(t)
           F == Full(t)
           first == IF x.owed # <<>> THEN x.owed[1]
                    ELSE IF x.phase < t.target * t.rate THEN "target" ELSE "overflow"
<1>1. /\ R \in Nat /\ F \in Nat /\ R < F /\ t.target \in Nat /\ t.rate \in Nat
      /\ Overflow \in Nat /\ x.phase \in Nat /\ Late \in Nat
  BY FollowedTimes, Bounds DEF IdealType
<1>2. t.target * t.rate = R /\ Overflow * t.rate = F
  BY DEF Reach, Full
<1>3. /\ t.cycle = (IF t.counterState = "target" THEN R ELSE F) /\ s <= t.cycle + l
      /\ Place(t, x, s) /\ t.counterState \in {"target", "overflow"}
  BY Fields DEF Sound, Kinds
<1>4. s <= t.cycle + Late
  BY <1>1, <1>3
<1> HIDE DEF A, B, R, F
<1>5. CASE x.owed = <<>> /\ s = x.phase /\ s < t.cycle /\ (t.counterState = "overflow" => R <= s)
  <2>1. A = 0 /\ B = 0
    BY <1>5, TimesAre DEF A, B
  <2>2. reached = 0 /\ 0 * Overflow = 0 /\ (0 + 0) * t.rate = 0
    BY <1>1, <2>1
  <2>3. s = x.phase + (reached + B * Overflow) * t.rate
    BY <1>1, <1>5, <2>1, <2>2
  <2>4. t.counterState = IF x.phase < R THEN "target" ELSE "overflow"
    BY <1>1, <1>3, <1>5
  <2>5. t.counterState = first
    BY <1>2, <1>5, <2>4
  <2> QED BY <1>4, <2>3, <2>5, Zenon DEF A, B
<1>6. CASE /\ x.owed = <<"target">> /\ t.counterState = "target"
           /\ s = x.phase + (IF t.mode.toTarget THEN R ELSE 0)
  <2>1. A = 1 /\ B = 0
    BY <1>6, TimesAre DEF A, B
  <2>2. (reached + B * Overflow) * t.rate = IF t.mode.toTarget THEN R ELSE 0
    <3>1. 1 * t.target = t.target /\ 0 * Overflow = 0 /\ t.target + 0 = t.target
          /\ (0 + 0) * t.rate = 0
      BY <1>1
    <3> QED BY <1>2, <2>1, <3>1
  <2>3. s = x.phase + (reached + B * Overflow) * t.rate
    BY <1>6, <2>2
  <2>4. x.owed # <<>> /\ x.owed[1] = "target"
    BY <1>6, Passings
  <2>5. t.counterState = first
    BY <1>6, <2>4
  <2> QED BY <1>4, <2>3, <2>5, Zenon DEF A, B
<1>7. CASE x.owed = <<"overflow">> /\ t.counterState = "overflow" /\ s = x.phase + F
  <2>1. A = 0 /\ B = 1
    BY <1>7, TimesAre DEF A, B
  <2>2. (reached + B * Overflow) * t.rate = F
    <3>1. reached = 0 /\ 1 * Overflow = Overflow /\ 0 + Overflow = Overflow
      BY <1>1, <2>1
    <3> QED BY <1>2, <2>1, <3>1
  <2>3. s = x.phase + (reached + B * Overflow) * t.rate
    BY <1>7, <2>2
  <2>4. x.owed # <<>> /\ x.owed[1] = "overflow"
    BY <1>7, Passings
  <2>5. t.counterState = first
    BY <1>7, <2>4
  <2> QED BY <1>4, <2>3, <2>5, Zenon DEF A, B
<1>8. CASE /\ x.owed = <<"target", "overflow">> /\ t.counterState = "target"
           /\ ~t.mode.toTarget /\ s = x.phase + F
  <2>1. A = 1 /\ B = 1
    BY <1>8, TimesAre DEF A, B
  <2>2. (reached + B * Overflow) * t.rate = F
    <3>1. reached = 0 /\ 1 * Overflow = Overflow /\ 0 + Overflow = Overflow
      BY <1>1, <1>8
    <3> QED BY <1>2, <2>1, <3>1
  <2>3. s = x.phase + (reached + B * Overflow) * t.rate
    BY <1>8, <2>2
  <2>4. x.owed # <<>> /\ x.owed[1] = "target"
    BY <1>8, Passings
  <2>5. t.counterState = first
    BY <1>8, <2>4
  <2> QED BY <1>4, <2>3, <2>5, Zenon DEF A, B
<1> QED BY <1>3, <1>5, <1>6, <1>7, <1>8 DEF Place, R, F

LEMMA TimersAgree == IInv => NoDrift /\ IrqAsProgrammed
<1> SUFFICES ASSUME IInv PROVE NoDrift /\ IrqAsProgrammed
  OBVIOUS
<1>1. overrun \in 0..Late
  BY DEF IInv, Typed
<1>2. ASSUME NEW i \in Timers, Followed(timer[i])
      PROVE  LET t == timer[i]  x == ideal[i]
                 reached == IF t.mode.toTarget THEN Times(x.owed, "target") * t.target ELSE 0
             IN  /\ Since(t.cycleStart) = x.phase + (reached + Times(x.owed, "overflow") * Overflow) * t.rate
                 /\ t.counterState = IF x.owed # <<>> THEN x.owed[1]
                                     ELSE IF x.phase < t.target * t.rate THEN "target" ELSE "overflow"
                 /\ Since(t.cycleStart) <= t.cycle + Late
  <2>1. /\ timer[i] \in TimerType /\ ideal[i] \in IdealType /\ Since(timer[i].cycleStart) \in 0..Clock-1
        /\ Sound(timer[i], ideal[i], Since(timer[i].cycleStart), overrun)
    BY <1>2, TimerKnown
  <2>2. Since(timer[i].cycleStart) \in Int
    BY <2>1, Bounds
  <2> QED BY <1>1, <1>2, <2>1, <2>2, SoundDrifts
<1>3. NoDrift
  BY <1>2, Zenon DEF NoDrift
<1>4. IrqAsProgrammed
  BY TimerKnown DEF Sound, IrqAsProgrammed
<1> QED BY <1>3, <1>4

LEMMA BeamKnown == IInv => BeamAgrees
<1> SUFFICES ASSUME IInv PROVE BeamAgrees
  OBVIOUS
<1>1. overrun \in 0..Late /\ base.cycle \in Nat /\ base.cycleStart \in 0..Clock-1 /\ cycle \in 0..Clock-1
  BY Bounds DEF IInv, Typed, BaseType
<1>2. Since(base.cycleStart) \in 0..Clock-1 /\ Since(base.cycleStart) <= base.cycle + overrun
  BY <1>1, SinceType DEF IInv, BaseSound
<1>3. Since(base.cycleStart) <= base.cycle + Late
  BY <1>1, <1>2, Bounds
<1> QED BY <1>3 DEF IInv, BaseSound, BeamAgrees

(* From the top of a frame the lines go to VBlankStart, never to the next   *)
(* top: psxRcntUpdate cannot step over the vblank.                          *)
LEMMA FrameHalved ==
  ASSUME IInv, [Next]_vars
  PROVE  [base' # base /\ base'.hSyncCount = 0 /\ NoBeam \notin {beam, beam'} => vblanks = 1]_vars
<1> SUFFICES ASSUME Next, base' # base, beam # NoBeam, beam' # NoBeam, vblanks # 1
             PROVE  base'.hSyncCount # 0
  BY DEF vars
<1>1. base.hSyncCount = 0 /\ base.hsync_steps = VBlankStart
  BY DEF IInv, BaseSound
<1>2. base' = Lines(base)
  <2>1. BlockEnd
    BY Zenon DEF Next, Run, Reload, psxRcntWcount, psxRcntWmode, psxRcntWtarget, Written
  <2> QED BY <2>1, Zenon DEF BlockEnd, psxRcntUpdate
<1>3. 0 + VBlankStart = VBlankStart /\ ~(VBlankStart >= HSyncTotal) /\ VBlankStart # 0
  BY Bounds
<1>4. Lines(base).hSyncCount = VBlankStart
  <2>1. Lines(base).hSyncCount =
          IF base.hSyncCount + base.hsync_steps >= HSyncTotal THEN 0
          ELSE base.hSyncCount + base.hsync_steps
    BY DEF Lines
  <2> QED BY <1>1, <1>3, <2>1
<1> QED BY <1>2, <1>3, <1>4

(* Cycles stay below 2^32, the events of the counters below half of it, and *)
(* what an ideal timer owes is made of targets and overflows.               *)
THEOREM CountersTypeOK == Spec => []TypeOK
  BY Always, TypedOK, PTL

(* However late psxRcntUpdate is, by up to a block, a timer is where one    *)
(* that is never late would be, and waits for what that one does next.      *)
THEOREM TimersDoNotDrift == Spec => []NoDrift
<1>1. IInv => NoDrift
  BY TimersAgree
<1> QED BY Always, <1>1, PTL

(* psxRcntReset raises the interrupt exactly when a timer that is never     *)
(* late would have passed something its mode interrupts for.                *)
THEOREM IrqsAsProgrammed == Spec => []IrqAsProgrammed
<1>1. IInv => IrqAsProgrammed
  BY TimersAgree
<1> QED BY Always, <1>1, PTL

(* The lines counted are those the beam has drawn, with no fraction of a    *)
(* cycle lost in base_cycle from one frame to the next.                     *)
THEOREM LinesFollowTheBeam == Spec => []BeamAgrees
  BY Always, BeamKnown, PTL

(* A frame in which no state was loaded has exactly one vblank.             *)
THEOREM FramesHaveVBlank == Spec => FrameHasVBlank
<1>1. IInv /\ [Next]_vars =>
        [base' # base /\ base'.hSyncCount = 0 /\ NoBeam \notin {beam, beam'} => vblanks = 1]_vars
  BY FrameHalved
<1> QED BY Always, <1>1, PTL DEF Spec, FrameHasVBlank
=============================================================================

-------------------------- MODULE SchedHeapProofs ---------------------------
(***************************************************************************)
(* Proofs about two parts of the core that depend on no other and on each  *)
(* other neither.  First EventSched, for every set of events, every clock  *)
(* that is wide enough for the delays used, and every length of a block:   *)
(* the wrapped clock is never misread and no event is late or lost.  Then  *)
(* BiosHeap, for every size of memory and of the heap, every request, and  *)
(* whatever the game writes into its blocks: they never overlap, and no    *)
(* request is refused that there is room for.                              *)
(***************************************************************************)
EXTENDS EventSched, BiosHeap, WellFoundedInduction, TLAPS

(* How far ahead the next stop is. *)
Slack == Signed(next_interupt - cycle)

(* An event's entry holds the time at which it is due. *)
Timed == \A e \in Pending : event_cycles[e] = Wrap(cycle + left[e])

(* No event is further ahead than half the clock. *)
Near == \A e \in Pending : 2 * (left[e] + 1) < Clock

(* irq_test alone works on a copy. *)
Copied == pc # "test" => irqs = {} /\ todo = {}

(* Translated code stops less than a block after the first event, but for  *)
(* those that were not in the future when the slice was scheduled.         *)
Stops ==
  pc = "run" =>
    /\ -MaxBlock < Slack /\ Slack <= MaxSlice
    /\ \A e \in Pending : left[e] >= IF e \in overdue THEN Slack - MaxSlice ELSE Slack

(* What irq_test has visited, and what the handlers have armed, is not     *)
(* overdue.                                                                *)
Tested == pc # "run" => \A e \in interrupt \cup (irqs \ todo) : left[e] >= 0

SchedInv == TypeOK /\ Timed /\ Near /\ Copied /\ Stops /\ Tested /\ BoundedLateness

-----------------------------------------------------------------------------
(* The arithmetic of a clock that wraps.                                   *)
LEMMA WrapRange == ASSUME NEW x \in Int PROVE Wrap(x) \in 0 .. Clock - 1
  BY ClockAssumption, SMT DEF Wrap

LEMMA WrapSmall == ASSUME NEW x \in 0 .. Clock - 1 PROVE Wrap(x) = x
  BY ClockAssumption, SMT DEF Wrap

LEMMA ClockPositive == Clock \in Nat \ {0}
  BY ClockAssumption, SMT

LEMMA Division ==
  ASSUME NEW x \in Int
  PROVE  \E q \in Int : x = Wrap(x) + q * Clock
<1>1. x = Clock * (x \div Clock) + Wrap(x) /\ x \div Clock \in Int
  BY ClockPositive, SMT DEF Wrap
<1>2. Clock * (x \div Clock) = (x \div Clock) * Clock /\ (x \div Clock) * Clock \in Int
  BY <1>1, ClockPositive, SMT
<1>3. x = Wrap(x) + (x \div Clock) * Clock
  BY <1>1, <1>2, WrapRange, ClockPositive
<1> QED BY <1>1, <1>3

LEMMA Multiples == \A k \in Int : k # 0 => k * Clock >= Clock \/ k * Clock <= -Clock
  BY ClockPositive, SMT

LEMMA Congruent ==
  ASSUME NEW a \in 0 .. Clock - 1, NEW b \in 0 .. Clock - 1, NEW k \in Int, a = b + k * Clock
  PROVE  a = b
  BY ClockPositive, Multiples, SMT

LEMMA WrapTurns ==
  ASSUME NEW x \in Int, NEW k \in Int
  PROVE  Wrap(x + k * Clock) = Wrap(x)
<1> DEFINE y == x + k * Clock
<1>1. y \in Int /\ k * Clock \in Int
  BY ClockPositive, SMT
<1>2. Wrap(y) \in 0 .. Clock - 1 /\ Wrap(x) \in 0 .. Clock - 1
  BY <1>1, WrapRange
<1>3. PICK q \in Int : x = Wrap(x) + q * Clock
  BY Division
<1>4. PICK r \in Int : y = Wrap(y) + r * Clock
  BY <1>1, Division
<1>5. Wrap(y) = Wrap(x) + (k - r + q) * Clock
  <2>1. Wrap(x) + q * Clock + k * Clock = Wrap(y) + r * Clock
    BY <1>3, <1>4
  <2> QED BY <1>2, <2>1, ClockPositive, SMT
<1> QED BY <1>2, <1>5, Congruent

LEMMA WrapPlus ==
  ASSUME NEW x \in Int, NEW y \in Int
  PROVE  Wrap(Wrap(x) + y) = Wrap(x + y)
<1> Wrap(x) \in Int
  BY WrapRange, ClockPositive
<1>1. PICK q \in Int : x = Wrap(x) + q * Clock
  BY Division
<1>2. x + y = (Wrap(x) + y) + q * Clock
  BY <1>1, ClockPositive, SMT
<1> QED BY <1>1, <1>2, WrapTurns

LEMMA WrapMinus ==
  ASSUME NEW x \in Int, NEW y \in Int
  PROVE  Wrap(y - Wrap(x)) = Wrap(y - x)
<1> Wrap(x) \in Int
  BY WrapRange, ClockPositive
<1>1. PICK q \in Int : x = Wrap(x) + q * Clock
  BY Division
<1>2. y - Wrap(x) = (y - x) + q * Clock
  BY <1>1, ClockPositive, SMT
<1> QED BY <1>1, <1>2, WrapTurns

(* A difference of less than half the clock is read as it is. *)
LEMMA SignedSmall ==
  ASSUME NEW x \in Int, -Clock < 2 * x, 2 * x < Clock
  PROVE  Signed(x) = x
<1>1. CASE x >= 0
  <2>1. x \in 0 .. Clock - 1
    BY <1>1, ClockPositive
  <2> QED BY <1>1, <2>1, WrapSmall DEF Signed
<1>2. CASE x < 0
  <2>1. x + Clock \in 0 .. Clock - 1 /\ ~(2 * (x + Clock) < Clock)
    BY <1>2, ClockPositive
  <2>2. Wrap(x + 1 * Clock) = Wrap(x) /\ x + 1 * Clock = x + Clock
    BY WrapTurns, ClockPositive
  <2>3. Wrap(x) = x + Clock
    BY <2>1, <2>2, WrapSmall
  <2> QED BY <2>1, <2>3, ClockPositive DEF Signed
<1> QED BY <1>1, <1>2

LEMMA SignedType == ASSUME NEW x \in Int PROVE Signed(x) \in Int
  BY WrapRange, ClockPositive DEF Signed

(* What an entry d cycles after c says at c, and at c as seen from it. *)
LEMMA SignedAhead ==
  ASSUME NEW c \in Int, NEW d \in Int, -Clock < 2 * d, 2 * d < Clock
  PROVE  Signed(Wrap(c + d) - c) = d /\ Signed(c - Wrap(c + d)) = -d
<1>1. Wrap(Wrap(c + d) - c) = Wrap(d)
  <2>1. Wrap(Wrap(c + d) + (-c)) = Wrap((c + d) + (-c))
    BY WrapPlus
  <2>2. (c + d) + (-c) = d /\ Wrap(c + d) + (-c) = Wrap(c + d) - c
    BY WrapRange, ClockPositive
  <2> QED BY <2>1, <2>2
<1>2. Wrap(c - Wrap(c + d)) = Wrap(-d)
  <2>1. Wrap(c - Wrap(c + d)) = Wrap(c - (c + d)) /\ c - (c + d) = -d
    BY WrapMinus
  <2> QED BY <2>1
<1>3. Signed(d) = d /\ Signed(-d) = -d
  BY SignedSmall, ClockPositive
<1> QED BY <1>1, <1>2, <1>3 DEF Signed

(* An entry is the time it says it is ahead. *)
LEMMA SignedReads ==
  ASSUME NEW c \in Int, NEW n \in 0 .. Clock - 1
  PROVE  Wrap(c + Signed(n - c)) = n
<1>1. n - c \in Int /\ Wrap(n - c) \in Int /\ n \in Int
  BY WrapRange, ClockPositive
<1>2. Wrap(Wrap(n - c) + c) = n
  <2>1. Wrap(Wrap(n - c) + c) = Wrap((n - c) + c) /\ (n - c) + c = n
    BY <1>1, WrapPlus
  <2> QED BY <2>1, WrapSmall
<1>3. Wrap((Wrap(n - c) + c) + (-1) * Clock) = Wrap(Wrap(n - c) + c)
  BY <1>1, WrapTurns
<1>4. CASE Signed(n - c) = Wrap(n - c)
  BY <1>1, <1>2, <1>4
<1>5. CASE Signed(n - c) = Wrap(n - c) - Clock
  <2>1. c + Signed(n - c) = (Wrap(n - c) + c) + (-1) * Clock
    BY <1>1, <1>5, ClockPositive
  <2> QED BY <1>2, <1>3, <2>1
<1> QED BY <1>4, <1>5 DEF Signed

-----------------------------------------------------------------------------
(* A set of numbers has a least one. *)
LEMMA SetMinIs ==
  ASSUME NEW S \in SUBSET Nat, S # {}
  PROVE  SetMin(S) \in S /\ \A y \in S : SetMin(S) <= y
<1> DEFINE R == {ss \in Nat \X Nat : ss[1] < ss[2]}
<1>1. IsWellFoundedOn(R, Nat)
  BY NatLessThanWellFounded, Zenon DEF OpToRel
<1>2. \E x \in S : \A y \in S : ~(<<y, x>> \in R)
  <2> HIDE DEF R
  <2> QED BY <1>1, WFMin, Zenon
<1>3. ASSUME NEW x \in S, NEW y \in S, ~(<<y, x>> \in R) PROVE x <= y
  BY <1>3
<1>4. \E x \in S : \A y \in S : x <= y
  <2> HIDE DEF R
  <2> QED BY <1>2, <1>3
<1> QED BY <1>4 DEF SetMin

-----------------------------------------------------------------------------
(* Arming events writes their entries and nothing else's. *)
LEMMA SetEventsArms ==
  ASSUME TypeOK, NEW A \in SUBSET Events, NEW delay \in [A -> Delays], SetEvents(delay)
  PROVE  /\ event_cycles' \in [Events -> 0 .. Clock - 1]
         /\ left' \in [Events -> Int]
         /\ next_interupt' \in 0 .. Clock - 1
         /\ \A e \in A : event_cycles'[e] = Wrap(cycle + delay[e]) /\ left'[e] = delay[e]
         /\ \A e \in Events \ A : event_cycles'[e] = event_cycles[e] /\ left'[e] = left[e]
<1>1. cycle \in Int /\ DOMAIN delay = A /\ \A e \in A : delay[e] \in Nat
  <2>1. cycle \in Int
    BY ClockAssumption DEF TypeOK
  <2>2. DOMAIN delay = A /\ \A e \in A : delay[e] \in Delays
    OBVIOUS
  <2> QED BY <2>1, <2>2, ClockAssumption
<1>2. ASSUME NEW c \in Nat PROVE Wrap(cycle + c) \in 0 .. Clock - 1
  BY <1>1, WrapRange
<1>3. next_interupt' \in 0 .. Clock - 1
  <2>1. CASE A = {}
    BY <1>1, <2>1 DEF SetEvents, TypeOK
  <2>2. CASE A # {}
    <3> DEFINE S == {delay[e] : e \in A}
    <3>1. S \in SUBSET Nat /\ S # {}
      BY <1>1, <2>2
    <3>2. SetMin(S) \in Nat
      BY <3>1, SetMinIs
    <3> QED BY <1>1, <1>2, <2>2, <3>2 DEF SetEvents, Sooner, TypeOK
  <2> QED BY <2>1, <2>2
<1>4. /\ event_cycles' = [e \in Events |-> IF e \in A THEN Wrap(cycle + delay[e])
                                           ELSE event_cycles[e]]
      /\ left' = [e \in Events |-> IF e \in A THEN delay[e] ELSE left[e]]
  BY <1>1 DEF SetEvents
<1>5. event_cycles' \in [Events -> 0 .. Clock - 1] /\ left' \in [Events -> Int]
  <2>1. ASSUME NEW e \in Events
        PROVE  /\ (IF e \in A THEN Wrap(cycle + delay[e]) ELSE event_cycles[e]) \in 0 .. Clock - 1
               /\ (IF e \in A THEN delay[e] ELSE left[e]) \in Int
    BY <1>1, <1>2 DEF TypeOK
  <2> QED BY <1>4, <2>1
<1> QED BY <1>3, <1>4, <1>5

(* Every armed event reads as the time it has left. *)
LEMMA AheadIsLeft ==
  ASSUME SchedInv, NEW e \in Pending
  PROVE  /\ left[e] \in Int /\ -Clock < 2 * left[e] /\ 2 * left[e] < Clock
         /\ Ahead(e) = left[e] /\ Signed(cycle - event_cycles[e]) = -left[e]
<1>1. e \in Events /\ left[e] \in Int /\ cycle \in Int
  BY ClockAssumption DEF SchedInv, TypeOK, Pending
<1>2. -Clock < 2 * left[e]
  <2>1. left[e] > -(MaxSlice + MaxBlock)
    BY <1>1, ClockAssumption DEF SchedInv, BoundedLateness
  <2> QED BY <1>1, <2>1, ClockAssumption
<1>3. 2 * left[e] < Clock
  BY <1>1, ClockAssumption DEF SchedInv, Near
<1>4. event_cycles[e] = Wrap(cycle + left[e])
  BY DEF SchedInv, Timed
<1> QED BY <1>1, <1>2, <1>3, <1>4, SignedAhead DEF Ahead

LEMMA SchedInit == Init => SchedInv
<1> SUFFICES ASSUME Init PROVE SchedInv
  OBVIOUS
<1>1. PICK d \in Delays \ {0} :
        /\ event_cycles = [e \in Events |-> IF e = Rcnt THEN d ELSE 0]
        /\ left = [e \in Events |-> IF e = Rcnt THEN d ELSE 0]
  BY DEF Init
<1>2. d \in 1 .. Clock - 1 /\ 2 * (d + 1) < Clock
  BY ClockAssumption
<1>3. Pending = {Rcnt} /\ Rcnt \in Events
  BY EventsAssumption DEF Init, Pending
<1>4. TypeOK
  BY <1>1, <1>2, <1>3, ClockAssumption DEF Init, TypeOK
<1>5. Timed
  BY <1>1, <1>2, <1>3, WrapSmall DEF Init, Timed
<1>6. Near /\ Copied /\ Stops /\ Tested /\ BoundedLateness
  BY <1>1, <1>2, <1>3, ClockAssumption DEF Init, Near, Copied, Stops, Tested, BoundedLateness
<1> QED BY <1>4, <1>5, <1>6 DEF SchedInv

(* Time passes: every armed event and the next stop come nearer. *)
LEMMA StepRunBlock == SchedInv /\ RunBlock => SchedInv'
<1> SUFFICES ASSUME SchedInv, RunBlock PROVE SchedInv'
  OBVIOUS
<1> USE DEF SchedInv
<1>1. PICK d \in 1 .. MaxBlock :
        /\ cycle' = Wrap(cycle + d)
        /\ left' = [e \in Events |-> IF e \in interrupt THEN left[e] - d ELSE 0]
  BY DEF RunBlock
<1>2. /\ cycle \in Int /\ d \in Int /\ cycle' \in 0 .. Clock - 1
      /\ MaxBlock \in Nat /\ MaxSlice \in Nat /\ Clock \in Nat
  <2>1. cycle \in Int /\ d \in Int
    BY ClockAssumption DEF TypeOK
  <2> QED BY <1>1, <2>1, WrapRange, ClockAssumption
<1>3. /\ pc = "run" /\ pc' = "run" /\ irqs = {} /\ todo = {} /\ irqs' = {} /\ todo' = {}
      /\ Pending = interrupt /\ Pending' = interrupt /\ interrupt \subseteq Events
      /\ overdue' = overdue /\ fresh' = fresh /\ event_cycles' = event_cycles
      /\ next_interupt' = next_interupt /\ interrupt' = interrupt
  BY DEF RunBlock, Copied, Pending, TypeOK
<1>4. \A e \in Pending : left[e] \in Int /\ left'[e] = left[e] - d
  BY <1>1, <1>3 DEF TypeOK
<1>5. TypeOK'
  <2>1. ASSUME NEW e \in Events
        PROVE  (IF e \in interrupt THEN left[e] - d ELSE 0) \in Int
    BY <1>2 DEF TypeOK
  <2>2. left' \in [Events -> Int]
    BY <1>1, <2>1
  <2> QED BY <1>2, <1>3, <2>2 DEF TypeOK
<1>6. Timed'
  <2>1. ASSUME NEW e \in Pending PROVE Wrap(cycle' + (left[e] - d)) = Wrap(cycle + left[e])
    <3> cycle + d \in Int /\ left[e] - d \in Int
      BY <1>2, <1>4
    <3>1. Wrap(Wrap(cycle + d) + (left[e] - d)) = Wrap((cycle + d) + (left[e] - d))
      BY WrapPlus
    <3>2. (cycle + d) + (left[e] - d) = cycle + left[e]
      BY <1>2, <1>4
    <3> QED BY <1>1, <3>1, <3>2
  <2> QED BY <1>3, <1>4, <2>1 DEF Timed
<1>7. Near'
  BY <1>2, <1>3, <1>4 DEF Near
<1>8. Slack \in Int /\ 0 < Slack /\ Slack <= MaxSlice /\ Slack' = Slack - d
  <2>1. next_interupt \in 0 .. Clock - 1 /\ next_interupt - cycle \in Int
    BY <1>2 DEF TypeOK
  <2>2. Slack \in Int /\ 0 < Slack /\ Slack <= MaxSlice
    BY <1>3, <2>1, SignedType DEF Slack, Stops, RunBlock
  <2>3. next_interupt = Wrap(cycle + Slack)
    BY <1>2, <2>1, SignedReads DEF Slack
  <2>4. Wrap(Wrap(cycle + d) + (Slack - d)) = Wrap((cycle + d) + (Slack - d))
    BY <1>2, <2>2, WrapPlus
  <2>5. next_interupt' = Wrap(cycle' + (Slack - d))
    <3>1. (cycle + d) + (Slack - d) = cycle + Slack
      BY <1>2, <2>2
    <3> QED BY <1>1, <1>3, <2>3, <2>4, <3>1
  <2>6. Slack - d \in Int /\ -Clock < 2 * (Slack - d) /\ 2 * (Slack - d) < Clock /\ cycle' \in Int
    BY <1>2, <2>2, ClockAssumption
  <2>7. Signed(next_interupt' - cycle') = Slack - d
    BY <2>5, <2>6, SignedAhead
  <2> QED BY <2>2, <2>7 DEF Slack
<1>9. Stops'
  BY <1>2, <1>3, <1>4, <1>8 DEF Stops
<1>10. BoundedLateness'
  BY <1>2, <1>3, <1>4, <1>8, <1>9 DEF Stops, BoundedLateness
<1> QED BY <1>3, <1>5, <1>6, <1>7, <1>9, <1>10 DEF Copied, Tested

(* The code arms an event: the next stop is no later than that. *)
LEMMA StepGuestArm == SchedInv /\ GuestArm => SchedInv'
<1> SUFFICES ASSUME SchedInv, GuestArm PROVE SchedInv'
  OBVIOUS
<1> USE DEF SchedInv
<1>1. PICK e \in Events, c \in Delays :
        /\ interrupt' = interrupt \cup {e}
        /\ overdue' = overdue \ {e}
        /\ SetEvents([x \in {e} |-> c])
  BY DEF GuestArm
<1> DEFINE delay == [x \in {e} |-> c]
<1>2. /\ cycle \in Int /\ c \in Nat /\ 2 * (c + 1) < Clock
      /\ MaxBlock \in Nat \ {0} /\ MaxSlice \in Nat /\ Clock \in Nat
  BY ClockAssumption DEF TypeOK
<1>3. /\ pc = "run" /\ pc' = "run" /\ irqs = {} /\ todo = {} /\ irqs' = {} /\ todo' = {}
      /\ Pending = interrupt /\ Pending' = interrupt \cup {e} /\ interrupt \subseteq Events
      /\ cycle' = cycle /\ fresh' = fresh
  BY <1>1 DEF GuestArm, Copied, Pending, TypeOK
<1>4. /\ event_cycles' \in [Events -> 0 .. Clock - 1] /\ left' \in [Events -> Int]
      /\ next_interupt' \in 0 .. Clock - 1
      /\ event_cycles'[e] = Wrap(cycle + c) /\ left'[e] = c
      /\ \A x \in Events \ {e} : event_cycles'[x] = event_cycles[x] /\ left'[x] = left[x]
  <2>1. {e} \in SUBSET Events /\ delay \in [{e} -> Delays] /\ delay[e] = c
    OBVIOUS
  <2>2. SetEvents(delay)
    BY <1>1
  <2> HIDE DEF delay
  <2> QED BY <2>1, <2>2, SetEventsArms
<1>5. TypeOK'
  BY <1>1, <1>3, <1>4 DEF TypeOK
<1>6. Timed'
  BY <1>3, <1>4 DEF Timed
<1>7. Near'
  BY <1>2, <1>3, <1>4 DEF Near
<1>8. Slack \in Int /\ Slack' = IF c < Slack THEN c ELSE Slack
  <2>1. next_interupt - cycle \in Int
    BY <1>2 DEF TypeOK
  <2>2. next_interupt' = Sooner(c)
    <3>1. DOMAIN delay = {e} /\ {delay[x] : x \in {e}} = {c}
      OBVIOUS
    <3>2. SetMin({c}) = c
      BY <1>2, SetMinIs
    <3> QED BY <1>1, <3>1, <3>2 DEF SetEvents
  <2>3. Signed(Wrap(cycle + c) - cycle) = c
    BY <1>2, SignedAhead
  <2> QED BY <1>3, <2>1, <2>2, <2>3, SignedType DEF Slack, Sooner
<1>9. \A x \in Pending : left[x] \in Int
  BY <1>3 DEF TypeOK
<1>10. Stops'
  BY <1>1, <1>2, <1>3, <1>4, <1>8, <1>9 DEF Stops
<1>11. BoundedLateness'
  BY <1>1, <1>2, <1>3, <1>4, <1>9 DEF BoundedLateness
<1> QED BY <1>3, <1>5, <1>6, <1>7, <1>10, <1>11 DEF Copied, Tested

LEMMA StepGuestCancel == SchedInv /\ GuestCancel => SchedInv'
<1> SUFFICES ASSUME SchedInv, GuestCancel PROVE SchedInv'
  OBVIOUS
<1> USE DEF SchedInv
<1>1. PICK e \in interrupt \ {Rcnt} :
        /\ interrupt' = interrupt \ {e}
        /\ overdue' = overdue \ {e}
        /\ left' = [left EXCEPT ![e] = 0]
  BY DEF GuestCancel
<1>2. /\ pc = "run" /\ pc' = "run" /\ irqs = {} /\ todo = {} /\ irqs' = {} /\ todo' = {}
      /\ Pending = interrupt /\ Pending' = interrupt \ {e} /\ interrupt \subseteq Events
      /\ cycle' = cycle /\ fresh' = fresh /\ event_cycles' = event_cycles
      /\ next_interupt' = next_interupt /\ Slack' = Slack
  BY <1>1 DEF GuestCancel, Copied, Pending, TypeOK, Slack
<1>3. left' \in [Events -> Int] /\ \A x \in Pending' : left'[x] = left[x]
  BY <1>1, <1>2 DEF TypeOK
<1>4. TypeOK'
  BY <1>1, <1>2, <1>3 DEF TypeOK
<1>5. Timed' /\ Near' /\ Copied' /\ Tested'
  BY <1>1, <1>2, <1>3 DEF Timed, Near, Copied, Tested
<1>6. Stops' /\ BoundedLateness'
  BY <1>1, <1>2, <1>3 DEF Stops, BoundedLateness
<1> QED BY <1>4, <1>5, <1>6

LEMMA StepGuestUnmask == SchedInv /\ GuestUnmask => SchedInv'
<1> SUFFICES ASSUME SchedInv, GuestUnmask PROVE SchedInv'
  OBVIOUS
<1> USE DEF SchedInv
<1>1. /\ cycle \in Int /\ MaxBlock \in Nat \ {0} /\ MaxSlice \in Nat \ {0} /\ Clock \in Nat
      /\ 2 < Clock
  BY ClockAssumption DEF TypeOK
<1>2. /\ pc = "run" /\ pc' = "run" /\ irqs = {} /\ todo = {} /\ irqs' = {} /\ todo' = {}
      /\ Pending = interrupt /\ Pending' = interrupt /\ interrupt' = interrupt
      /\ cycle' = cycle /\ fresh' = fresh /\ event_cycles' = event_cycles /\ left' = left
      /\ overdue' = overdue /\ interrupt \subseteq Events
  BY DEF GuestUnmask, Copied, Pending, TypeOK
<1>3. Slack \in Int /\ Slack' = IF 1 < Slack THEN 1 ELSE Slack
  <2>1. next_interupt - cycle \in Int
    BY <1>1 DEF TypeOK
  <2>2. Signed(Wrap(cycle + 1) - cycle) = 1
    BY <1>1, SignedAhead
  <2> QED BY <1>2, <2>1, <2>2, SignedType DEF Slack, Sooner, GuestUnmask
<1>4. next_interupt' \in 0 .. Clock - 1
  BY <1>1, WrapRange DEF GuestUnmask, Sooner, TypeOK
<1>5. TypeOK' /\ Timed' /\ Near' /\ Copied' /\ Tested' /\ BoundedLateness'
  BY <1>2, <1>4 DEF TypeOK, Timed, Near, Copied, Tested, BoundedLateness
<1>6. \A e \in Pending : left[e] \in Int
  BY <1>2 DEF TypeOK
<1>7. Stops'
  BY <1>1, <1>2, <1>3, <1>6 DEF Stops
<1> QED BY <1>5, <1>7

LEMMA StepGenInterupt == SchedInv /\ GenInterupt => SchedInv'
<1> SUFFICES ASSUME SchedInv, GenInterupt PROVE SchedInv'
  OBVIOUS
<1> USE DEF SchedInv
<1>1. /\ pc = "run" /\ pc' = "test" /\ irqs = {} /\ irqs' = interrupt /\ todo' = interrupt
      /\ interrupt' = {} /\ Pending = interrupt /\ Pending' = interrupt
  BY DEF GenInterupt, Copied, Pending
<1> QED
  BY <1>1 DEF GenInterupt, TypeOK, Timed, Near, Copied, Stops, Tested, BoundedLateness

(* The next bit: an event that is not due has time left. *)
LEMMA StepSkip ==
  ASSUME SchedInv, pc = "test", todo # {}, todo' = todo \ {SetMin(todo)}, Skip(SetMin(todo)),
         UNCHANGED <<pc, cycle>>
  PROVE  SchedInv'
<1> DEFINE e == SetMin(todo)
<1> USE DEF SchedInv
<1>1. e \in todo /\ e \in irqs /\ e \in Pending
  BY EventsAssumption, SetMinIs DEF TypeOK, Pending
<1>2. left[e] >= 0
  BY <1>1, AheadIsLeft DEF Skip, Due
<1> HIDE DEF e
<1>3. /\ interrupt' = interrupt /\ irqs' = irqs /\ next_interupt' = next_interupt
      /\ event_cycles' = event_cycles /\ left' = left /\ fresh' = fresh /\ overdue' = overdue
      /\ todo' = todo \ {e} /\ pc' = "test" /\ cycle' = cycle /\ Pending' = Pending
  BY DEF Skip, e, Pending
<1> QED
  BY <1>1, <1>2, <1>3 DEF TypeOK, Timed, Near, Copied, Stops, Tested, BoundedLateness

(* The handler of an event that is due arms and cancels others. *)
LEMMA StepHandle ==
  ASSUME SchedInv, pc = "test", todo # {}, todo' = todo \ {SetMin(todo)}, Handle(SetMin(todo)),
         UNCHANGED <<pc, cycle>>
  PROVE  SchedInv'
<1> DEFINE e == SetMin(todo)
<1> USE DEF SchedInv
<1>1. e \in todo /\ e \in irqs /\ e \in Events
  BY EventsAssumption, SetMinIs DEF TypeOK
<1>2. Handle(e) /\ todo' = todo \ {e}
  OBVIOUS
<1> HIDE DEF e
<1>3. PICK armed \in SUBSET Arms[e], dropped \in SUBSET Cancels[e] :
        /\ e = Rcnt => Rcnt \in armed
        /\ armed \cap dropped = {}
        /\ \E delay \in [armed -> Delays] :
             /\ interrupt' = (interrupt \ dropped) \cup armed
             /\ fresh' = fresh \cup armed
             /\ overdue' = overdue \ ({e} \cup armed)
             /\ SetEvents(delay)
  BY <1>2 DEF Handle
<1>4. PICK delay \in [armed -> Delays] :
        /\ interrupt' = (interrupt \ dropped) \cup armed
        /\ fresh' = fresh \cup armed
        /\ overdue' = overdue \ ({e} \cup armed)
        /\ SetEvents(delay)
  BY <1>3
<1>5. armed \in SUBSET Events /\ Rcnt \notin dropped /\ irqs' = irqs \ {e}
  BY <1>1, <1>2, EventsAssumption DEF Handle
<1>6. /\ event_cycles' \in [Events -> 0 .. Clock - 1] /\ left' \in [Events -> Int]
      /\ next_interupt' \in 0 .. Clock - 1
      /\ \A x \in armed : event_cycles'[x] = Wrap(cycle + delay[x]) /\ left'[x] = delay[x]
      /\ \A x \in Events \ armed : event_cycles'[x] = event_cycles[x] /\ left'[x] = left[x]
  BY <1>4, <1>5, SetEventsArms
<1>7. \A x \in armed : delay[x] \in Nat /\ 2 * (delay[x] + 1) < Clock
  <2>1. \A x \in armed : delay[x] \in Delays
    OBVIOUS
  <2> QED BY <2>1, ClockAssumption
<1>8. /\ Pending' \subseteq Pending \cup armed /\ Pending \subseteq Events
      /\ interrupt' \cup (irqs' \ todo') \subseteq interrupt \cup (irqs \ todo) \cup armed
      /\ pc' = "test" /\ cycle' = cycle
  BY <1>1, <1>2, <1>4, <1>5 DEF Pending, TypeOK
<1>9. TypeOK'
  BY <1>1, <1>2, <1>4, <1>5, <1>6, <1>8 DEF TypeOK
<1>10. Timed'
  BY <1>6, <1>8 DEF Timed
<1>11. Near'
  BY <1>6, <1>7, <1>8 DEF Near
<1>12. Copied' /\ Stops'
  BY <1>8 DEF Copied, Stops
<1>13. Tested'
  BY <1>6, <1>7, <1>8 DEF Tested, Pending
<1>14. BoundedLateness'
  <2>1. Rcnt \in Pending'
    BY <1>3, <1>4, <1>5 DEF BoundedLateness, Pending
  <2>2. ASSUME NEW x \in Pending'
        PROVE  left'[x] > -(IF x \in overdue' THEN MaxSlice + MaxBlock ELSE MaxBlock)
    <3> MaxBlock \in Nat \ {0} /\ MaxSlice \in Nat \ {0}
      BY ClockAssumption
    <3>1. CASE x \in armed
      BY <1>6, <1>7, <3>1
    <3>2. CASE x \notin armed /\ x # e
      BY <1>4, <1>6, <1>8, <3>2 DEF BoundedLateness
    <3>3. CASE x \notin armed /\ x = e
      <4>1. x \in interrupt
        BY <1>4, <1>5, <2>2, <3>3 DEF Pending
      <4>2. left[x] >= 0 /\ left[x] \in Int
        BY <1>8, <4>1 DEF Tested, TypeOK, Pending
      <4> QED BY <1>6, <1>8, <3>3, <4>1, <4>2 DEF Pending
    <3> QED BY <3>1, <3>2, <3>3
  <2> QED BY <2>1, <2>2 DEF BoundedLateness
<1> QED BY <1>9, <1>10, <1>11, <1>12, <1>13, <1>14

LEMMA StepEndTest == SchedInv /\ EndTest => SchedInv'
<1> SUFFICES ASSUME SchedInv, EndTest PROVE SchedInv'
  OBVIOUS
<1> USE DEF SchedInv
<1>1. /\ pc' = "schedule" /\ todo = {} /\ todo' = {} /\ irqs' = {} /\ Pending' = Pending
      /\ interrupt' = interrupt \cup irqs
  BY DEF EndTest, Pending
<1> QED
  BY <1>1 DEF EndTest, TypeOK, Timed, Near, Copied, Stops, Tested, BoundedLateness

(* The next stop is no later than any event that is still ahead, and what  *)
(* is not ahead is due now.                                                *)
LEMMA StepSchedule == SchedInv /\ Schedule => SchedInv'
<1> SUFFICES ASSUME SchedInv, Schedule PROVE SchedInv'
  OBVIOUS
<1> USE DEF SchedInv
<1> DEFINE ahead == {Ahead(e) : e \in {x \in interrupt : Ahead(x) > 0}}
           m == SetMin(ahead \cup {MaxSlice})
<1>1. /\ cycle \in Int /\ MaxBlock \in Nat \ {0} /\ MaxSlice \in Nat \ {0} /\ Clock \in Nat
      /\ 2 * MaxSlice < Clock
  BY ClockAssumption DEF TypeOK
<1>2. /\ pc' = "run" /\ irqs = {} /\ todo = {} /\ irqs' = {} /\ todo' = {}
      /\ Pending = interrupt /\ Pending' = interrupt /\ interrupt' = interrupt
      /\ cycle' = cycle /\ event_cycles' = event_cycles /\ left' = left
      /\ overdue' = {e \in interrupt : Ahead(e) <= 0} /\ fresh' = {}
      /\ next_interupt' = Wrap(cycle + m) /\ interrupt \subseteq Events
  BY DEF Schedule, Copied, Pending, TypeOK
<1>3. \A e \in interrupt : left[e] \in Int /\ left[e] >= 0 /\ Ahead(e) = left[e]
  <2>1. ASSUME NEW e \in interrupt PROVE e \in Pending /\ left[e] \in Int /\ left[e] >= 0
    BY <1>2, <2>1 DEF Tested, TypeOK, Schedule
  <2>2. \A e \in Pending : Ahead(e) = left[e]
    BY AheadIsLeft
  <2> QED BY <2>1, <2>2
<1>4. /\ m \in Nat /\ 0 < m /\ m <= MaxSlice
      /\ \A e \in interrupt : left[e] > 0 => m <= left[e]
  <2>1. ahead \cup {MaxSlice} \in SUBSET Nat /\ \A x \in ahead \cup {MaxSlice} : x > 0
    BY <1>1, <1>3
  <2>2. m \in ahead \cup {MaxSlice} /\ \A x \in ahead \cup {MaxSlice} : m <= x
    BY <2>1, SetMinIs
  <2>3. \A e \in interrupt : left[e] > 0 => left[e] \in ahead
    BY <1>3
  <2> HIDE DEF ahead, m
  <2> QED BY <2>1, <2>2, <2>3
<1> HIDE DEF ahead, m
<1>5. Slack' = m
  BY <1>1, <1>2, <1>4, SignedAhead DEF Slack
<1>6. TypeOK'
  BY <1>1, <1>2, <1>4, WrapRange DEF TypeOK
<1>7. Timed' /\ Near' /\ Copied' /\ Tested'
  BY <1>2 DEF Timed, Near, Copied, Tested
<1>8. Stops' /\ BoundedLateness'
  BY <1>1, <1>2, <1>3, <1>4, <1>5 DEF Stops, BoundedLateness
<1> QED BY <1>6, <1>7, <1>8

LEMMA SchedStep == SchedInv /\ [Next]_vars => SchedInv'
<1> SUFFICES ASSUME SchedInv, [Next]_vars PROVE SchedInv'
  OBVIOUS
<1>1. CASE RunBlock
  BY <1>1, StepRunBlock
<1>2. CASE GuestArm
  BY <1>2, StepGuestArm
<1>3. CASE GuestCancel
  BY <1>3, StepGuestCancel
<1>4. CASE GuestUnmask
  BY <1>4, StepGuestUnmask
<1>5. CASE GenInterupt
  BY <1>5, StepGenInterupt
<1>6. CASE Visit
  BY <1>6, StepSkip, StepHandle DEF Visit
<1>7. CASE EndTest
  BY <1>7, StepEndTest
<1>8. CASE Schedule
  BY <1>8, StepSchedule
<1>9. CASE UNCHANGED vars
  BY <1>9 DEF vars, SchedInv, TypeOK, Timed, Near, Copied, Stops, Tested, BoundedLateness,
              Pending, Slack
<1> QED
  BY <1>1, <1>2, <1>3, <1>4, <1>5, <1>6, <1>7, <1>8, <1>9 DEF Next

LEMMA SchedAlways == Spec => []SchedInv
  BY SchedInit, SchedStep, PTL DEF Spec

-----------------------------------------------------------------------------
(* The event table of the core keeps its types. *)
THEOREM SchedTypeOK == Spec => []TypeOK
<1>1. SchedInv => TypeOK
  BY DEF SchedInv
<1> QED BY <1>1, SchedAlways, PTL

(* However often the cycle counter has wrapped, irq_test and               *)
(* schedule_timeslice read every armed event as the time it has left.      *)
THEOREM ClockNeverLies == Spec => []ClockAgrees
<1>1. SchedInv => ClockAgrees
  BY AheadIsLeft DEF ClockAgrees
<1> QED BY <1>1, SchedAlways, PTL

(* Whatever is armed and cancelled, by the code or by handlers while       *)
(* irq_test walks its copy of the bits, no event is lost and none runs     *)
(* later than a block after its time, or a slice and a block when it was   *)
(* armed for a time that had come.                                         *)
THEOREM NoEventLate == Spec => []BoundedLateness
<1>1. SchedInv => BoundedLateness
  BY DEF SchedInv
<1> QED BY <1>1, SchedAlways, PTL

-----------------------------------------------------------------------------
(* The heap.  Every set of numbers has a smallest one; from it all else    *)
(* follows that is true of the chain of headers.                           *)
USE HeapAssumption DEF HeapAssumption

LEMMA Smallest ==
  ASSUME NEW S \in SUBSET Nat, S # {}
  PROVE  \E n \in S : \A k \in S : n <= k
<1> DEFINE R == {ss \in Nat \X Nat : ss[1] < ss[2]}
<1>1. IsWellFoundedOn(R, Nat)
  BY NatLessThanWellFounded DEF OpToRel
<1>2. PICK n \in S : \A k \in S : <<k, n>> \notin R
  <2> HIDE DEF R
  <2> QED BY <1>1, WFMin
<1>3. ASSUME NEW k \in S, ~(n <= k) PROVE FALSE
  <2>1. k \in Nat /\ n \in Nat /\ k < n
    BY <1>3
  <2>2. <<k, n>> \in R
    BY <2>1
  <2> QED BY <1>2, <2>2
<1> QED BY <1>3

(* The search for headers, as an equation. *)
IsSearch(m, end, found) ==
  found = [p \in 0 .. end - 1 |-> p = 0 \/ \E q \in 0 .. p - 1 : found[q] /\ Follows(m, q) = p]

LEMMA HeadersSearched ==
  ASSUME NEW m, NEW end
  PROVE  Headers(m, end) = {p \in 0 .. end - 1 : (CHOOSE found : IsSearch(m, end, found))[p]}
BY DEF Headers, IsSearch

(* Sets of words that the search stays within. *)
Closed(m, end, found) ==
  /\ end > 0 => 0 \in found
  /\ \A p \in found : Follows(m, p) < end => Follows(m, p) \in found

Reached(m, end) ==
  {p \in 0 .. end - 1 : \A found \in SUBSET (0 .. end - 1) : Closed(m, end, found) => p \in found}

LEMMA FollowsLater ==
  ASSUME NEW m \in Memory, NEW p \in Words
  PROVE  Follows(m, p) \in Nat /\ Follows(m, p) > p
BY DEF Follows, Memory, Word, Words

LEMMA ReachedClosed ==
  ASSUME NEW m \in Memory, NEW end \in 0 .. Room
  PROVE  Closed(m, end, Reached(m, end))
<1>1. end > 0 => 0 \in Reached(m, end)
  BY DEF Reached, Closed
<1>2. ASSUME NEW p \in Reached(m, end), Follows(m, p) < end PROVE Follows(m, p) \in Reached(m, end)
  <2>1. p \in Words
    BY DEF Reached, Words
  <2>2. Follows(m, p) \in 0 .. end - 1
    BY <1>2, <2>1, FollowsLater
  <2>3. ASSUME NEW found \in SUBSET (0 .. end - 1), Closed(m, end, found)
        PROVE  Follows(m, p) \in found
    BY <1>2, <2>3 DEF Reached, Closed
  <2> QED BY <2>2, <2>3 DEF Reached
<1> QED BY <1>1, <1>2 DEF Closed

LEMMA ReachedFrom ==
  ASSUME NEW m \in Memory, NEW end \in 0 .. Room, NEW p \in Reached(m, end), p # 0
  PROVE  \E q \in 0 .. p - 1 : q \in Reached(m, end) /\ Follows(m, q) = p
<1> DEFINE rest == Reached(m, end) \ {p}
<1>1. p \in 0 .. end - 1
  BY DEF Reached
<1>2. rest \in SUBSET (0 .. end - 1)
  BY DEF Reached
<1>3. ~Closed(m, end, rest)
  <2>1. p \notin rest
    OBVIOUS
  <2> QED BY <1>2, <2>1 DEF Reached
<1>4. Closed(m, end, Reached(m, end))
  BY ReachedClosed
<1>5. PICK q \in Reached(m, end) : Follows(m, q) = p
  BY <1>1, <1>3, <1>4 DEF Closed
<1>6. q \in 0 .. p - 1
  <2>1. q \in Words
    BY DEF Reached, Words
  <2> QED BY <1>5, <2>1, FollowsLater DEF Words
<1> QED BY <1>5, <1>6

LEMMA ReachedIsSearch ==
  ASSUME NEW m \in Memory, NEW end \in 0 .. Room
  PROVE  IsSearch(m, end, [p \in 0 .. end - 1 |-> p \in Reached(m, end)])
<1> DEFINE f == [p \in 0 .. end - 1 |-> p \in Reached(m, end)]
<1>1. ASSUME NEW p \in 0 .. end - 1
      PROVE  (p \in Reached(m, end)) = (p = 0 \/ \E q \in 0 .. p - 1 : f[q] /\ Follows(m, q) = p)
  <2>1. ASSUME NEW q \in 0 .. p - 1 PROVE f[q] = (q \in Reached(m, end))
    OBVIOUS
  <2>2. p \in Reached(m, end) => p = 0 \/ \E q \in 0 .. p - 1 : f[q] /\ Follows(m, q) = p
    BY <2>1, ReachedFrom
  <2>3. p = 0 => p \in Reached(m, end)
    BY ReachedClosed DEF Closed
  <2>4. ASSUME NEW q \in 0 .. p - 1, f[q], Follows(m, q) = p PROVE p \in Reached(m, end)
    <3>1. q \in Reached(m, end)
      BY <2>1, <2>4
    <3>2. Closed(m, end, Reached(m, end))
      BY ReachedClosed
    <3>3. Follows(m, q) < end
      BY <2>4
    <3> QED BY <2>4, <3>1, <3>2, <3>3 DEF Closed
  <2>5. p \in Reached(m, end) <=> p = 0 \/ \E q \in 0 .. p - 1 : f[q] /\ Follows(m, q) = p
    <3> HIDE DEF f
    <3> QED BY <2>2, <2>3, <2>4
  <2> QED BY <2>5
<1>2. f = [p \in 0 .. end - 1 |-> p = 0 \/ \E q \in 0 .. p - 1 : f[q] /\ Follows(m, q) = p]
  BY <1>1
<1> QED BY <1>2 DEF IsSearch

LEMMA SearchUnique ==
  ASSUME NEW m, NEW end \in Nat, NEW f, NEW g, IsSearch(m, end, f), IsSearch(m, end, g)
  PROVE  f = g
<1> DEFINE D == 0 .. end - 1
           Diff == {p \in D : f[p] # g[p]}
<1>1. /\ f = [p \in D |-> p = 0 \/ \E q \in 0 .. p - 1 : f[q] /\ Follows(m, q) = p]
      /\ g = [p \in D |-> p = 0 \/ \E q \in 0 .. p - 1 : g[q] /\ Follows(m, q) = p]
  BY DEF IsSearch
<1>2. ASSUME Diff # {} PROVE FALSE
  <2>1. PICK d \in Diff : \A k \in Diff : d <= k
    <3>1. Diff \in SUBSET Nat
      OBVIOUS
    <3>2. PICK n : n \in Diff
      BY <1>2
    <3> HIDE DEF Diff
    <3> QED BY <3>1, <3>2, Smallest
  <2>2. ASSUME NEW q \in 0 .. d - 1 PROVE f[q] = g[q]
    BY <2>1
  <2>3. f[d] = (d = 0 \/ \E q \in 0 .. d - 1 : f[q] /\ Follows(m, q) = d)
    BY <1>1
  <2>4. g[d] = (d = 0 \/ \E q \in 0 .. d - 1 : g[q] /\ Follows(m, q) = d)
    BY <1>1
  <2> QED BY <2>2, <2>3, <2>4
<1>3. \A p \in D : f[p] = g[p]
  BY <1>2
<1>4. f = [p \in D |-> f[p]] /\ g = [p \in D |-> g[p]]
  BY <1>1
<1> QED BY <1>3, <1>4

LEMMA HeadersReached ==
  ASSUME NEW m \in Memory, NEW end \in 0 .. Room
  PROVE  Headers(m, end) = Reached(m, end)
<1> DEFINE f == CHOOSE found : IsSearch(m, end, found)
           g == [p \in 0 .. end - 1 |-> p \in Reached(m, end)]
<1>1. IsSearch(m, end, g)
  BY ReachedIsSearch
<1>2. IsSearch(m, end, f)
  BY <1>1
<1>3. f = g
  <2> HIDE DEF f, g
  <2> QED BY <1>1, <1>2, SearchUnique
<1>4. Headers(m, end) = {p \in 0 .. end - 1 : g[p]}
  BY <1>3, HeadersSearched
<1>5. {p \in 0 .. end - 1 : g[p]} = Reached(m, end)
  BY DEF Reached
<1> QED BY <1>4, <1>5

-----------------------------------------------------------------------------
(* The headers as a chain through memory.                                   *)

LEMMA HeadersClosed ==
  ASSUME NEW m \in Memory, NEW end \in 0 .. Room
  PROVE  /\ Headers(m, end) \subseteq 0 .. end - 1
         /\ Headers(m, end) \subseteq Words
         /\ Closed(m, end, Headers(m, end))
<1>1. Headers(m, end) = Reached(m, end)
  BY HeadersReached
<1>2. Reached(m, end) \subseteq 0 .. end - 1
  BY DEF Reached
<1>3. 0 .. end - 1 \subseteq Words
  BY DEF Words
<1> QED BY <1>1, <1>2, <1>3, ReachedClosed

LEMMA HeadersWithin ==
  ASSUME NEW m \in Memory, NEW end \in 0 .. Room, NEW S, Closed(m, end, S)
  PROVE  Headers(m, end) \subseteq S
<1> DEFINE R == S \cap 0 .. end - 1
<1>1. ASSUME NEW p \in R, Follows(m, p) < end PROVE Follows(m, p) \in R
  <2>1. p \in Words
    BY DEF Words
  <2>2. Follows(m, p) \in 0 .. end - 1
    BY <1>1, <2>1, FollowsLater DEF Words
  <2> QED BY <1>1, <2>2 DEF Closed
<1>2. Closed(m, end, R)
  <2>1. end > 0 => 0 \in R
    BY DEF Closed
  <2> QED BY <1>1, <2>1 DEF Closed
<1>3. Headers(m, end) = Reached(m, end)
  BY HeadersReached
<1>4. R \in SUBSET (0 .. end - 1)
  OBVIOUS
<1>5. Reached(m, end) \subseteq R
  BY <1>2, <1>4 DEF Reached
<1> QED BY <1>3, <1>5

LEMMA HeadersFrom ==
  ASSUME NEW m \in Memory, NEW end \in 0 .. Room, NEW p \in Headers(m, end), p # 0
  PROVE  \E q \in Headers(m, end) : q < p /\ Follows(m, q) = p
<1>1. Headers(m, end) = Reached(m, end)
  BY HeadersReached
<1>2. p \in Nat
  BY HeadersClosed
<1>3. PICK q \in 0 .. p - 1 : q \in Reached(m, end) /\ Follows(m, q) = p
  BY <1>1, ReachedFrom
<1>4. q < p
  BY <1>2, <1>3
<1> QED BY <1>1, <1>3, <1>4

(* Between a header and the one that follows it there is none. *)
Apart(m, end, p) == \A q \in Headers(m, end) : q < p => Follows(m, q) <= p

LEMMA ApartAfter ==
  ASSUME NEW m \in Memory, NEW end \in 0 .. Room, NEW p \in Headers(m, end), Apart(m, end, p),
         NEW q \in Headers(m, end), q > p
  PROVE  q >= Follows(m, p)
<1> DEFINE H == Headers(m, end)
           S == {k \in H : k <= p \/ k >= Follows(m, p)}
<1>1. H \subseteq 0 .. end - 1 /\ H \subseteq Words /\ Closed(m, end, H)
  BY HeadersClosed
<1>2. p \in Nat /\ Follows(m, p) \in Nat
  BY <1>1, FollowsLater
<1>3. ASSUME NEW k \in S, Follows(m, k) < end PROVE Follows(m, k) \in S
  <2>1. k \in H /\ k \in Nat /\ Follows(m, k) \in Nat /\ Follows(m, k) > k
    BY <1>1, FollowsLater
  <2>2. Follows(m, k) \in H
    BY <1>1, <1>3, <2>1 DEF Closed
  <2>3. CASE k < p
    <3>1. Follows(m, k) <= p
      BY <2>1, <2>3 DEF Apart
    <3> QED BY <2>2, <3>1
  <2>4. CASE k = p
    BY <1>2, <2>2, <2>4
  <2>5. CASE k >= Follows(m, p)
    <3>1. Follows(m, k) >= Follows(m, p)
      BY <1>2, <2>1, <2>5
    <3> QED BY <2>2, <3>1
  <2> QED BY <1>2, <2>1, <2>3, <2>4, <2>5
<1>4. end > 0 => 0 \in S
  <2>1. end > 0 => 0 \in H
    BY <1>1 DEF Closed
  <2> QED BY <1>2, <2>1
<1>5. Closed(m, end, S)
  <2> HIDE DEF S
  <2> QED BY <1>3, <1>4 DEF Closed
<1>6. H \subseteq S
  BY <1>5, HeadersWithin
<1>7. q \in Nat /\ q \in S
  BY <1>1, <1>6
<1> QED BY <1>2, <1>7

LEMMA HeadersApart ==
  ASSUME NEW m \in Memory, NEW end \in 0 .. Room
  PROVE  \A p \in Headers(m, end) : Apart(m, end, p)
<1> DEFINE H == Headers(m, end)
           S == {p \in H : Apart(m, end, p)}
<1>1. H \subseteq 0 .. end - 1 /\ H \subseteq Words /\ Closed(m, end, H)
  BY HeadersClosed
<1>2. ASSUME NEW p \in S, Follows(m, p) < end PROVE Follows(m, p) \in S
  <2>1. Follows(m, p) \in H /\ Follows(m, p) \in Nat /\ p \in Nat
    BY <1>1, <1>2, FollowsLater DEF Closed
  <2>2. ASSUME NEW q \in H, q < Follows(m, p) PROVE Follows(m, q) <= Follows(m, p)
    <3>1. q \in Nat /\ Follows(m, q) \in Nat
      BY <1>1, FollowsLater
    <3>2. ~(q > p)
      <4>1. ASSUME q > p PROVE q >= Follows(m, p)
        BY <4>1, ApartAfter
      <4> QED BY <2>1, <2>2, <3>1, <4>1
    <3>3. CASE q < p
      <4>1. Follows(m, q) <= p
        BY <3>3 DEF Apart
      <4>2. p < Follows(m, p)
        BY <1>1, FollowsLater
      <4> QED BY <2>1, <3>1, <4>1, <4>2
    <3>4. CASE q = p
      BY <2>1, <3>4
    <3> QED BY <2>1, <3>1, <3>2, <3>3, <3>4
  <2> QED BY <2>1, <2>2 DEF Apart
<1>3. end > 0 => 0 \in S
  <2>1. end > 0 => 0 \in H
    BY <1>1 DEF Closed
  <2>2. Apart(m, end, 0)
    <3>1. \A q \in H : ~(q < 0)
      BY <1>1
    <3> QED BY <3>1 DEF Apart
  <2> QED BY <2>1, <2>2
<1>4. Closed(m, end, S)
  <2> HIDE DEF S
  <2> QED BY <1>2, <1>3 DEF Closed
<1>5. H \subseteq S
  BY <1>4, HeadersWithin
<1> QED BY <1>5

LEMMA InOrder ==
  ASSUME NEW m \in Memory, NEW end \in 0 .. Room,
         NEW p \in Headers(m, end), NEW q \in Headers(m, end)
  PROVE  /\ p \in Nat /\ q \in Nat /\ Follows(m, p) \in Nat /\ Follows(m, q) \in Nat
         /\ p < Follows(m, p) /\ (p < q => Follows(m, p) <= q)
         /\ Follows(m, p) = Follows(m, q) => p = q
<1>1. p \in Words /\ q \in Words
  BY HeadersClosed
<1>2. /\ p \in Nat /\ q \in Nat /\ Follows(m, p) \in Nat /\ Follows(m, q) \in Nat
      /\ p < Follows(m, p) /\ q < Follows(m, q)
  BY <1>1, FollowsLater DEF Words
<1>3. p < q => Follows(m, p) <= q
  BY HeadersApart DEF Apart
<1>4. q < p => Follows(m, q) <= p
  BY HeadersApart DEF Apart
<1> QED BY <1>2, <1>3, <1>4

(* The search comes to an end, and every word lies behind a header. *)
LEMMA SearchEnds ==
  ASSUME NEW m \in Memory, NEW end \in 0 .. Room, end > 0
  PROVE  \E p \in Headers(m, end) : Follows(m, p) >= end
<1> DEFINE H == Headers(m, end)
           D == {end - p : p \in H}
<1>1. H \subseteq 0 .. end - 1 /\ Closed(m, end, H)
  BY HeadersClosed
<1>2. 0 \in H
  BY <1>1 DEF Closed
<1>3. D \in SUBSET Nat /\ D # {}
  BY <1>1, <1>2
<1>4. PICK d \in D : \A e \in D : d <= e
  <2> HIDE DEF D
  <2> QED BY <1>3, Smallest
<1>5. PICK p \in H : d = end - p
  BY <1>4
<1>6. ASSUME Follows(m, p) < end PROVE FALSE
  <2>1. Follows(m, p) \in H
    BY <1>1, <1>6 DEF Closed
  <2>2. d <= end - Follows(m, p)
    BY <1>4, <2>1
  <2>3. p \in Nat /\ Follows(m, p) \in Nat /\ p < Follows(m, p)
    <3>1. p \in Words
      BY HeadersClosed
    <3> QED BY <3>1, FollowsLater DEF Words
  <2> QED BY <1>5, <2>2, <2>3
<1>7. Follows(m, p) \in Nat
  BY InOrder
<1> QED BY <1>6, <1>7

LEMMA Tiled ==
  ASSUME NEW m \in Memory, NEW end \in 0 .. Room, NEW w \in 0 .. end - 1
  PROVE  \E p \in Headers(m, end) : p <= w /\ w < Follows(m, p)
<1> DEFINE H == Headers(m, end)
           S == {p \in H : p <= w}
<1> SUFFICES ASSUME \A p \in H : ~(p <= w /\ w < Follows(m, p)) PROVE FALSE
  OBVIOUS
<1>1. H \subseteq 0 .. end - 1 /\ Closed(m, end, H)
  BY HeadersClosed
<1>2. ASSUME NEW p \in S, Follows(m, p) < end PROVE Follows(m, p) \in S
  <2>1. Follows(m, p) \in H /\ Follows(m, p) \in Nat
    BY <1>1, <1>2, InOrder DEF Closed
  <2> QED BY <2>1
<1>3. end > 0 => 0 \in S
  BY <1>1 DEF Closed
<1>4. Closed(m, end, S)
  <2> HIDE DEF S
  <2> QED BY <1>2, <1>3 DEF Closed
<1>5. H \subseteq S
  BY <1>4, HeadersWithin
<1>6. PICK p \in H : Follows(m, p) >= end
  BY SearchEnds
<1>7. p \in S /\ Follows(m, p) \in Nat
  BY <1>5, InOrder
<1> QED BY <1>6, <1>7

(* Only the sizes in the headers matter. *)
LEMMA SameHeaders ==
  ASSUME NEW m \in Memory, NEW n \in Memory, NEW end \in 0 .. Room,
         \A p \in Headers(m, end) : n[p].size = m[p].size
  PROVE  Headers(n, end) = Headers(m, end)
<1>1. \A p \in Headers(m, end) : Follows(n, p) = Follows(m, p)
  BY DEF Follows
<1>2. Closed(m, end, Headers(m, end)) /\ Closed(n, end, Headers(n, end))
  BY HeadersClosed
<1>3. Closed(n, end, Headers(m, end))
  BY <1>1, <1>2 DEF Closed
<1>4. Headers(n, end) \subseteq Headers(m, end)
  BY <1>3, HeadersWithin
<1>5. Closed(m, end, Headers(n, end))
  BY <1>1, <1>2, <1>4 DEF Closed
<1>6. Headers(m, end) \subseteq Headers(n, end)
  BY <1>5, HeadersWithin
<1> QED BY <1>4, <1>6

-----------------------------------------------------------------------------
(* What malloc's first loop makes of the headers.                           *)

(* The search ends at the end of the heap, or one word behind it. *)
Within(m, end) == \A p \in Headers(m, end) : Follows(m, p) <= end + 1

UsedBlocks(m, end) ==
  {[at |-> p, len |-> m[p].size] : p \in {q \in Headers(m, end) : ~m[q].free}}

RowEnds(m, end, p) ==
  {q \in Headers(m, end) : q > p /\ ~m[q].free}
    \cup ({Follows(m, q) : q \in Headers(m, end)} \ 0 .. end - 1)

UpTo(m, end, p) == FreeUpTo(m, end, Headers(m, end), p)
First(m, end) == Firsts(m, Headers(m, end))

LEMMA UpToIs ==
  ASSUME NEW m \in Memory, NEW end \in 0 .. Room, NEW p \in Headers(m, end)
  PROVE  /\ UpTo(m, end, p) \in RowEnds(m, end, p)
         /\ \A e \in RowEnds(m, end, p) : UpTo(m, end, p) <= e
<1> DEFINE H == Headers(m, end)
           E == RowEnds(m, end, p)
<1>1. E \in SUBSET Nat
  <2>1. \A q \in H : q \in Nat /\ Follows(m, q) \in Nat
    BY InOrder
  <2> QED BY <2>1 DEF RowEnds
<1>2. E # {}
  <2>1. end > 0
    BY HeadersClosed
  <2>2. PICK q \in H : Follows(m, q) >= end
    BY <2>1, SearchEnds
  <2>3. Follows(m, q) \in {Follows(m, k) : k \in H} \ 0 .. end - 1
    <3>1. Follows(m, q) \in Nat
      BY InOrder
    <3> QED BY <2>2, <3>1
  <2> QED BY <2>3 DEF RowEnds
<1>3. \E n \in E : \A k \in E : n <= k
  <2> HIDE DEF E
  <2> QED BY <1>1, <1>2, Smallest
<1>4. UpTo(m, end, p) = CHOOSE n \in E : \A k \in E : n <= k
  BY DEF UpTo, FreeUpTo, RowEnds, Min
<1> HIDE DEF E
<1>5. UpTo(m, end, p) \in E /\ \A e \in E : UpTo(m, end, p) <= e
  BY <1>3, <1>4
<1> QED BY <1>5 DEF E

(* A row of free blocks reaches at least to the next header, and to a block *)
(* that is used or the end of the search.                                   *)
LEMMA RowReaches ==
  ASSUME NEW m \in Memory, NEW end \in 0 .. Room, NEW p \in Headers(m, end)
  PROVE  /\ UpTo(m, end, p) \in Nat
         /\ UpTo(m, end, p) > p
         /\ UpTo(m, end, p) < end =>
              UpTo(m, end, p) \in Headers(m, end) /\ ~m[UpTo(m, end, p)].free
         /\ \A q \in Headers(m, end) :
              p <= q /\ q < UpTo(m, end, p) => Follows(m, q) <= UpTo(m, end, p)
         /\ \A q \in Headers(m, end) : p < q /\ q < UpTo(m, end, p) => m[q].free
         /\ Within(m, end) => UpTo(m, end, p) <= end + 1
<1> DEFINE H == Headers(m, end)
           e == UpTo(m, end, p)
<1>0. H \subseteq 0 .. end - 1 /\ p \in Nat /\ end \in Nat
  BY HeadersClosed
<1>1. e \in RowEnds(m, end, p) /\ \A k \in RowEnds(m, end, p) : e <= k
  BY UpToIs
<1>2. \/ e \in H /\ e > p /\ ~m[e].free
      \/ \E q \in H : e = Follows(m, q) /\ e \notin 0 .. end - 1
  BY <1>1 DEF RowEnds
<1> HIDE DEF e
<1>3. e \in Nat
  <2>1. \A q \in H : q \in Nat /\ Follows(m, q) \in Nat
    BY InOrder
  <2> QED BY <1>2, <2>1
<1>4. e > p /\ (e < end => e \in H /\ ~m[e].free)
  <2>1. CASE e \in H /\ e > p /\ ~m[e].free
    BY <2>1
  <2>2. CASE \E q \in H : e = Follows(m, q) /\ e \notin 0 .. end - 1
    <3>1. e >= end
      BY <1>0, <1>3, <2>2
    <3> QED BY <1>0, <1>3, <3>1
  <2> QED BY <1>2, <2>1, <2>2
<1>5. ASSUME NEW q \in H, p <= q, q < e PROVE Follows(m, q) <= e
  <2>1. q \in Nat /\ Follows(m, q) \in Nat
    BY InOrder
  <2>2. CASE e < end
    <3>1. e \in H
      BY <1>4, <2>2
    <3> QED BY <1>5, <3>1, InOrder
  <2>3. CASE ~(e < end)
    <3>1. CASE Follows(m, q) < end
      BY <1>0, <1>3, <2>1, <2>3, <3>1
    <3>2. CASE ~(Follows(m, q) < end)
      <4>1. PICK k \in H : e = Follows(m, k)
        BY <1>0, <1>2, <2>3
      <4>2. k \in Nat /\ (q < k => Follows(m, q) <= k) /\ k < end
        BY <1>0, InOrder
      <4>3. k < q => Follows(m, k) <= q
        BY InOrder
      <4>4. ~(k < q)
        BY <1>3, <1>5, <2>1, <4>1, <4>3
      <4>5. ~(q < k)
        BY <1>0, <2>1, <3>2, <4>2
      <4> QED BY <1>3, <2>1, <4>1, <4>2, <4>4, <4>5
    <3> QED BY <3>1, <3>2
  <2> QED BY <2>2, <2>3
<1>6. ASSUME NEW q \in H, p < q, q < e, ~m[q].free PROVE FALSE
  <2>1. q \in RowEnds(m, end, p)
    BY <1>6 DEF RowEnds
  <2>2. e <= q /\ q \in Nat
    BY <1>0, <1>1, <2>1
  <2> QED BY <1>3, <1>6, <2>2
<1>7. ASSUME Within(m, end) PROVE e <= end + 1
  <2>1. CASE e \in H
    BY <1>0, <2>1
  <2>2. CASE \E q \in H : e = Follows(m, q)
    BY <1>7, <2>2 DEF Within
  <2> QED BY <1>2, <2>1, <2>2
<1>8. \A q \in H : p <= q /\ q < e => Follows(m, q) <= e
  BY <1>5
<1>9. \A q \in H : p < q /\ q < e => m[q].free
  <2>1. \A q \in H : m[q].free \in BOOLEAN
    BY HeadersClosed DEF Memory, Word
  <2> QED BY <1>6, <2>1
<1> QED BY <1>3, <1>4, <1>7, <1>8, <1>9 DEF e

LEMMA JoinedIs ==
  ASSUME NEW m \in Memory, NEW end \in 0 .. Room
  PROVE  /\ Joined(m, end) \in Memory
         /\ First(m, end) \subseteq Headers(m, end)
         /\ \A p \in First(m, end) :
              /\ m[p].free
              /\ Joined(m, end)[p] = [size |-> UpTo(m, end, p) - p - 1, free |-> TRUE]
              /\ Follows(Joined(m, end), p) = UpTo(m, end, p)
         /\ \A w \in Words \ First(m, end) :
              Joined(m, end)[w] = m[w] /\ Follows(Joined(m, end), w) = Follows(m, w)
         /\ \A w \in Words : Joined(m, end)[w].free = m[w].free
<1> DEFINE H == Headers(m, end)
           J == Joined(m, end)
           F == First(m, end)
<1>1. F \subseteq H /\ \A p \in F : m[p].free
  BY DEF First, Firsts
<1>2. H \subseteq Words
  BY HeadersClosed
<1>3. J = [w \in Words |->
             IF w \in F THEN [size |-> UpTo(m, end, w) - w - 1, free |-> TRUE] ELSE m[w]]
  BY DEF Joined, First, UpTo
<1> HIDE DEF J, F
<1>4. \A p \in F : J[p] = [size |-> UpTo(m, end, p) - p - 1, free |-> TRUE]
  BY <1>1, <1>2, <1>3
<1>5. \A w \in Words \ F : J[w] = m[w]
  BY <1>3
<1>6. \A p \in F : /\ p \in Nat /\ UpTo(m, end, p) \in Nat /\ UpTo(m, end, p) > p
                   /\ UpTo(m, end, p) - p - 1 \in Nat
  <2> SUFFICES ASSUME NEW p \in F
               PROVE  p \in Nat /\ UpTo(m, end, p) \in Nat /\ UpTo(m, end, p) > p
    OBVIOUS
  <2>1. p \in H
    BY <1>1
  <2> QED BY <1>2, <2>1, RowReaches DEF Words
<1>7. J \in Memory
  <2>1. \A w \in Words : m[w] \in Word
    BY DEF Memory
  <2>2. \A w \in Words :
          (IF w \in F THEN [size |-> UpTo(m, end, w) - w - 1, free |-> TRUE] ELSE m[w]) \in Word
    BY <1>6, <2>1 DEF Word
  <2> QED BY <1>3, <2>2 DEF Memory
<1>8. \A p \in F : Follows(J, p) = UpTo(m, end, p)
  <2> SUFFICES ASSUME NEW p \in F PROVE Follows(J, p) = UpTo(m, end, p)
    OBVIOUS
  <2>1. Follows(J, p) = p + (UpTo(m, end, p) - p - 1) + 1
    <3>1. J[p] = [size |-> UpTo(m, end, p) - p - 1, free |-> TRUE]
      BY <1>4
    <3>2. J[p].size = UpTo(m, end, p) - p - 1
      BY <3>1
    <3> QED BY <3>2 DEF Follows
  <2> QED BY <1>6, <2>1
<1>9. \A w \in Words \ F : Follows(J, w) = Follows(m, w)
  BY <1>5 DEF Follows
<1>10. \A w \in Words : J[w].free = m[w].free
  <2>1. \A p \in F : J[p].free = TRUE /\ m[p].free = TRUE
    <3>1. ASSUME NEW p \in F PROVE m[p] \in Word
      <4>1. p \in Words
        BY <1>1, <1>2
      <4> QED BY <4>1 DEF Memory
    <3>2. ASSUME NEW p \in F PROVE m[p].free = TRUE
      <4>1. m[p].free \in BOOLEAN
        BY <3>1 DEF Word
      <4>2. m[p].free
        BY <1>1
      <4> QED BY <4>1, <4>2
    <3>3. ASSUME NEW p \in F PROVE J[p].free = TRUE
      <4>1. J[p] = [size |-> UpTo(m, end, p) - p - 1, free |-> TRUE]
        BY <1>4
      <4> QED BY <4>1
    <3> QED BY <3>2, <3>3
  <2> QED BY <1>5, <2>1
<1> QED BY <1>1, <1>4, <1>5, <1>7, <1>8, <1>9, <1>10 DEF J, F

(* Of the headers, those of free blocks that follow free ones are gone. *)
Kept(m, end) == {p \in Headers(m, end) : m[p].free => p \in First(m, end)}

LEMMA JoinedHeaders ==
  ASSUME NEW m \in Memory, NEW end \in 0 .. Room
  PROVE  Headers(Joined(m, end), end) = Kept(m, end)
<1> DEFINE H == Headers(m, end)
           J == Joined(m, end)
           F == First(m, end)
           K == Kept(m, end)
           HJ == Headers(J, end)
<1>0. H \subseteq 0 .. end - 1 /\ H \subseteq Words /\ Closed(m, end, H) /\ end \in Nat
  BY HeadersClosed
<1>1. /\ J \in Memory /\ F \subseteq H
      /\ \A p \in F : m[p].free /\ Follows(J, p) = UpTo(m, end, p)
      /\ \A w \in Words \ F : Follows(J, w) = Follows(m, w)
  BY JoinedIs
<1>2. Closed(J, end, HJ)
  BY <1>1, HeadersClosed
<1> HIDE DEF H, J, F, K, HJ
<1>3. \A p \in H : \A q \in H :
        /\ p \in Nat /\ q \in Nat /\ Follows(m, p) \in Nat /\ Follows(m, q) \in Nat
        /\ p < Follows(m, p) /\ (p < q => Follows(m, p) <= q)
        /\ (Follows(m, p) = Follows(m, q) => p = q)
  <2> SUFFICES ASSUME NEW p \in Headers(m, end), NEW q \in Headers(m, end)
               PROVE  /\ p \in Nat /\ q \in Nat /\ Follows(m, p) \in Nat /\ Follows(m, q) \in Nat
                      /\ p < Follows(m, p) /\ (p < q => Follows(m, p) <= q)
                      /\ (Follows(m, p) = Follows(m, q) => p = q)
    BY DEF H
  <2> QED BY InOrder
<1>4. \A p \in H : p \in F <=> m[p].free /\ \A q \in H : Follows(m, q) = p => ~m[q].free
  BY DEF F, H, First, Firsts
<1>5. K \subseteq H /\ \A p \in H : p \in K <=> (m[p].free => p \in F)
  BY DEF K, Kept, H, F
<1>6. Closed(J, end, K)
  <2>1. ASSUME end > 0 PROVE 0 \in K
    <3>1. 0 \in H
      BY <1>0, <2>1 DEF Closed
    <3>2. \A q \in H : Follows(m, q) # 0
      BY <1>3
    <3>3. m[0].free => 0 \in F
      BY <1>4, <3>1, <3>2
    <3> QED BY <1>5, <3>1, <3>3
  <2>2. ASSUME NEW p \in K, Follows(J, p) < end PROVE Follows(J, p) \in K
    <3>0. p \in H /\ p \in Words
      BY <1>0, <1>5
    <3>1. CASE p \in F
      <4>1. Follows(J, p) = UpTo(m, end, p)
        BY <1>1, <3>1
      <4>2. UpTo(m, end, p) \in H /\ ~m[UpTo(m, end, p)].free
        BY <2>2, <3>0, <4>1, RowReaches DEF H
      <4> QED BY <1>5, <4>1, <4>2
    <3>2. CASE p \notin F
      <4>1. Follows(J, p) = Follows(m, p) /\ ~m[p].free
        BY <1>1, <1>5, <3>0, <3>2
      <4>2. Follows(m, p) \in H
        BY <1>0, <2>2, <3>0, <4>1 DEF Closed
      <4>3. \A q \in H : Follows(m, q) = Follows(m, p) => ~m[q].free
        BY <1>3, <3>0, <4>1
      <4>4. m[Follows(m, p)].free => Follows(m, p) \in F
        BY <1>4, <4>2, <4>3
      <4> QED BY <1>5, <4>1, <4>2, <4>4
    <3> QED BY <3>1, <3>2
  <2> QED BY <2>1, <2>2 DEF Closed
<1>7. HJ \subseteq K
  BY <1>1, <1>6, HeadersWithin DEF HJ
<1> DEFINE Row(f, p) == f \in HJ /\ f \in F /\ f < p /\ p < UpTo(m, end, f)
           T == {p \in H : p \in HJ \/ \E f \in H : Row(f, p)}
<1>8. Closed(m, end, T)
  <2>1. ASSUME end > 0 PROVE 0 \in T
    BY <1>0, <1>2, <2>1 DEF Closed
  <2>2. ASSUME NEW f \in H, f \in F, f \in HJ, NEW p \in H, f <= p, p < UpTo(m, end, f),
               Follows(m, p) < end
        PROVE  Follows(m, p) \in T
    <3>1. Follows(m, p) \in H
      BY <1>0, <2>2 DEF Closed
    <3>2. Follows(m, p) <= UpTo(m, end, f) /\ UpTo(m, end, f) \in Nat
      BY <2>2, RowReaches DEF H
    <3>3. f < Follows(m, p) /\ Follows(m, p) \in Nat
      BY <1>3, <2>2
    <3>4. CASE Follows(m, p) = UpTo(m, end, f)
      <4>1. Follows(J, f) = Follows(m, p)
        BY <1>1, <2>2, <3>4
      <4>2. Follows(J, f) \in HJ
        BY <1>2, <2>2, <4>1 DEF Closed
      <4> QED BY <3>1, <4>1, <4>2
    <3>5. CASE Follows(m, p) # UpTo(m, end, f)
      <4>1. Row(f, Follows(m, p))
        BY <2>2, <3>2, <3>3, <3>5
      <4> QED BY <3>1, <4>1
    <3> QED BY <3>4, <3>5
  <2>3. ASSUME NEW p \in T, Follows(m, p) < end PROVE Follows(m, p) \in T
    <3>0. p \in H /\ p \in Words
      BY <1>0
    <3>1. CASE p \in HJ /\ p \in F
      <4>1. p <= p /\ p < UpTo(m, end, p)
        BY <1>3, <3>0, RowReaches DEF H
      <4> QED BY <2>2, <2>3, <3>0, <3>1, <4>1
    <3>2. CASE p \in HJ /\ p \notin F
      <4>1. Follows(J, p) = Follows(m, p)
        BY <1>1, <3>0, <3>2
      <4>2. Follows(m, p) \in HJ
        BY <1>2, <2>3, <3>2, <4>1 DEF Closed
      <4>3. Follows(m, p) \in H
        BY <1>0, <2>3, <3>0 DEF Closed
      <4> QED BY <4>2, <4>3
    <3>3. CASE p \notin HJ
      <4>1. PICK f \in H : Row(f, p)
        BY <3>3
      <4>2. f <= p
        BY <1>3, <3>0, <4>1
      <4> QED BY <2>2, <2>3, <3>0, <4>1, <4>2
    <3> QED BY <3>1, <3>2, <3>3
  <2> HIDE DEF T
  <2> QED BY <2>1, <2>3 DEF Closed
<1>9. H \subseteq T
  BY <1>8, HeadersWithin DEF H
<1>10. ASSUME NEW p \in K PROVE p \in HJ
  <2>0. p \in H
    BY <1>5
  <2>1. ASSUME NEW f \in H, Row(f, p) PROVE FALSE
    <3>1. m[p].free
      BY <2>0, <2>1, RowReaches DEF H
    <3>2. p \in F /\ p # 0
      BY <1>3, <1>5, <2>0, <2>1, <3>1
    <3>3. PICK q \in H : q < p /\ Follows(m, q) = p
      BY <2>0, <3>2, HeadersFrom DEF H
    <3>4. ~m[q].free
      BY <1>4, <2>0, <3>2, <3>3
    <3>5. f <= q
      <4>1. q < f => Follows(m, q) <= f
        BY <1>3
      <4> QED BY <1>3, <2>0, <2>1, <3>3, <4>1
    <3>6. q < UpTo(m, end, f)
      <4>1. UpTo(m, end, f) \in Nat
        BY RowReaches DEF H
      <4> QED BY <1>3, <2>0, <2>1, <3>3, <4>1
    <3>7. f # q
      BY <1>1, <2>1, <3>4
    <3>8. m[q].free
      <4>1. f < q
        BY <1>3, <3>5, <3>7
      <4> QED BY <3>6, <4>1, RowReaches DEF H
    <3> QED BY <3>4, <3>8
  <2>2. p \in T
    BY <1>9, <2>0
  <2> QED BY <2>1, <2>2
<1>11. HJ = K
  BY <1>7, <1>10
<1> QED BY <1>11 DEF HJ, K, J

(* After it no free block follows another, no block was lost that is used,  *)
(* and none has become free.                                                *)
NoneTouch(m, end) ==
  \A p \in Headers(m, end) : m[p].free /\ Follows(m, p) < end => ~m[Follows(m, p)].free

LEMMA JoinedKeeps ==
  ASSUME NEW m \in Memory, NEW end \in 0 .. Room, Within(m, end)
  PROVE  /\ Joined(m, end) \in Memory /\ Within(Joined(m, end), end)
         /\ UsedBlocks(Joined(m, end), end) = UsedBlocks(m, end)
         /\ NoneTouch(Joined(m, end), end)
<1> DEFINE H == Headers(m, end)
           J == Joined(m, end)
           F == First(m, end)
<1>1. H \subseteq Words
  BY HeadersClosed
<1>2. /\ J \in Memory /\ F \subseteq H
      /\ \A p \in F : m[p].free /\ Follows(J, p) = UpTo(m, end, p)
      /\ \A w \in Words \ F : J[w] = m[w] /\ Follows(J, w) = Follows(m, w)
      /\ \A w \in Words : J[w].free = m[w].free
  BY JoinedIs
<1>3. Headers(J, end) = Kept(m, end)
  BY JoinedHeaders
<1>4. Kept(m, end) = {p \in H : m[p].free => p \in F}
  BY DEF Kept
<1> HIDE DEF H, J, F
<1>5. ASSUME NEW p \in Headers(J, end) PROVE Follows(J, p) <= end + 1
  <2>1. CASE p \in F
    BY <1>2, <2>1, RowReaches DEF H
  <2>2. CASE p \notin F
    <3>1. Follows(J, p) = Follows(m, p) /\ p \in H
      BY <1>1, <1>2, <1>3, <1>4, <2>2
    <3> QED BY <3>1 DEF Within, H
  <2> QED BY <2>1, <2>2
<1>6. {p \in Headers(J, end) : ~J[p].free} = {p \in H : ~m[p].free}
  BY <1>1, <1>2, <1>3, <1>4
<1>7. \A p \in {q \in H : ~m[q].free} : J[p] = m[p]
  BY <1>1, <1>2
<1>8. UsedBlocks(J, end) = UsedBlocks(m, end)
  <2>1. UsedBlocks(J, end) = {[at |-> p, len |-> J[p].size] : p \in {q \in H : ~m[q].free}}
    BY <1>6 DEF UsedBlocks
  <2>2. UsedBlocks(m, end) = {[at |-> p, len |-> m[p].size] : p \in {q \in H : ~m[q].free}}
    BY DEF UsedBlocks, H
  <2> QED BY <1>7, <2>1, <2>2
<1>9. ASSUME NEW p \in Headers(J, end), J[p].free, Follows(J, p) < end
      PROVE  ~J[Follows(J, p)].free
  <2>1. p \in F /\ p \in H
    BY <1>1, <1>2, <1>3, <1>4, <1>9
  <2>2. Follows(J, p) = UpTo(m, end, p)
    BY <1>2, <2>1
  <2>3. UpTo(m, end, p) \in H /\ ~m[UpTo(m, end, p)].free
    BY <1>9, <2>1, <2>2, RowReaches DEF H
  <2> QED BY <1>1, <1>2, <2>2, <2>3
<1> QED BY <1>2, <1>5, <1>8, <1>9 DEF J, Within, NoneTouch

-----------------------------------------------------------------------------
(* The blocks that the headers tell of.                                     *)

LEMMA UsedBlock ==
  ASSUME NEW m \in Memory, NEW end \in 0 .. Room, NEW b \in UsedBlocks(m, end)
  PROVE  /\ b.at \in Headers(m, end) /\ b.at \in Nat /\ ~m[b.at].free
         /\ b = [at |-> b.at, len |-> m[b.at].size]
         /\ b.len \in Nat /\ Follows(m, b.at) = b.at + b.len + 1
<1>1. PICK p \in Headers(m, end) : ~m[p].free /\ b = [at |-> p, len |-> m[p].size]
  BY DEF UsedBlocks
<1>2. b.at = p /\ b.len = m[p].size
  BY <1>1
<1>3. p \in Words /\ p \in Nat
  BY HeadersClosed DEF Words
<1>4. m[p].size \in Nat
  BY <1>3 DEF Memory, Word
<1>5. Follows(m, p) = p + b.len + 1
  BY <1>2 DEF Follows
<1> QED BY <1>1, <1>2, <1>3, <1>4, <1>5

LEMMA BlocksOf ==
  ASSUME NEW m \in Memory, NEW end \in 0 .. Room, Within(m, end)
  PROVE  /\ UsedBlocks(m, end) \subseteq Block
         /\ \A b \in UsedBlocks(m, end) : Extent(b) \subseteq 0 .. end
         /\ \A b, c \in UsedBlocks(m, end) : b # c => Extent(b) \cap Extent(c) = {}
<1>1. ASSUME NEW b \in UsedBlocks(m, end) PROVE b \in Block /\ Extent(b) \subseteq 0 .. end
  <2>1. /\ b.at \in Headers(m, end) /\ b.at \in Nat
        /\ b = [at |-> b.at, len |-> m[b.at].size]
        /\ b.len \in Nat /\ Follows(m, b.at) = b.at + b.len + 1
    BY UsedBlock
  <2>2. b.at \in Words
    BY <2>1, HeadersClosed
  <2>3. m[b.at].size \in Nat
    BY <2>2 DEF Memory, Word
  <2>4. b \in Block
    BY <2>1, <2>2, <2>3 DEF Block
  <2>5. b.at + b.len <= end
    BY <2>1 DEF Within
  <2> QED BY <2>1, <2>4, <2>5 DEF Extent
<1>2. ASSUME NEW b \in UsedBlocks(m, end), NEW c \in UsedBlocks(m, end), b.at < c.at
      PROVE  Extent(b) \cap Extent(c) = {}
  <2>1. /\ b.at \in Headers(m, end) /\ b.at \in Nat
        /\ b.len \in Nat /\ Follows(m, b.at) = b.at + b.len + 1
    BY UsedBlock
  <2>2. c.at \in Headers(m, end) /\ c.at \in Nat /\ c.len \in Nat
    BY UsedBlock
  <2>3. Follows(m, b.at) <= c.at
    BY <1>2, <2>1, <2>2, InOrder
  <2> QED BY <2>1, <2>2, <2>3 DEF Extent
<1>3. ASSUME NEW b \in UsedBlocks(m, end), NEW c \in UsedBlocks(m, end), b # c
      PROVE  Extent(b) \cap Extent(c) = {}
  <2>1. b.at \in Nat /\ b = [at |-> b.at, len |-> m[b.at].size]
    BY UsedBlock
  <2>2. c.at \in Nat /\ c = [at |-> c.at, len |-> m[c.at].size]
    BY UsedBlock
  <2>3. b.at # c.at
    BY <1>3, <2>1, <2>2, Zenon
  <2>4. b.at < c.at \/ c.at < b.at
    BY <2>1, <2>2, <2>3
  <2>5. CASE b.at < c.at
    BY <1>2, <2>5
  <2>6. CASE c.at < b.at
    <3>1. Extent(c) \cap Extent(b) = {}
      BY <1>2, <2>6
    <3> QED BY <3>1
  <2> QED BY <2>4, <2>5, <2>6
<1> QED BY <1>1, <1>3

(* The words of a block are in memory, and no header is among them.         *)
LEMMA NoHeaderInside ==
  ASSUME NEW m \in Memory, NEW end \in 0 .. Room, Within(m, end),
         NEW b \in UsedBlocks(m, end), NEW w \in Extent(b) \ {b.at}
  PROVE  w \in Words /\ w \notin Headers(m, end)
<1>1. /\ b.at \in Headers(m, end) /\ b.at \in Nat
      /\ b.len \in Nat /\ Follows(m, b.at) = b.at + b.len + 1
  BY UsedBlock
<1>2. w \in Nat /\ b.at < w /\ w < Follows(m, b.at)
  BY <1>1 DEF Extent
<1>3. Follows(m, b.at) <= end + 1
  BY <1>1 DEF Within
<1>4. w \in Words
  BY <1>1, <1>2, <1>3 DEF Words
<1>5. ASSUME w \in Headers(m, end) PROVE FALSE
  <2>1. Follows(m, b.at) <= w
    BY <1>1, <1>2, <1>5, InOrder
  <2> QED BY <1>1, <1>2, <2>1
<1> QED BY <1>4, <1>5

(* What is written anywhere else changes nothing.                           *)
LEMMA SameBlocks ==
  ASSUME NEW m \in Memory, NEW n \in Memory, NEW end \in 0 .. Room, Within(m, end),
         \A p \in Headers(m, end) : n[p] = m[p]
  PROVE  Within(n, end) /\ UsedBlocks(n, end) = UsedBlocks(m, end)
<1>1. Headers(n, end) = Headers(m, end)
  BY SameHeaders
<1>2. \A p \in Headers(m, end) : Follows(n, p) = Follows(m, p)
  BY DEF Follows
<1>3. Within(n, end)
  BY <1>1, <1>2 DEF Within
<1>4. UsedBlocks(n, end) = UsedBlocks(m, end)
  <2>1. {q \in Headers(n, end) : ~n[q].free} = {q \in Headers(m, end) : ~m[q].free}
    BY <1>1
  <2>2. \A q \in {k \in Headers(m, end) : ~m[k].free} : n[q] = m[q]
    OBVIOUS
  <2> QED BY <2>1, <2>2 DEF UsedBlocks
<1> QED BY <1>3, <1>4

LEMMA WriteKeeps ==
  ASSUME NEW m \in Memory, NEW end \in 0 .. Room, Within(m, end),
         NEW b \in UsedBlocks(m, end), NEW w \in Extent(b) \ {b.at}, NEW v \in Word
  PROVE  LET n == [m EXCEPT ![w] = v]
         IN n \in Memory /\ Within(n, end) /\ UsedBlocks(n, end) = UsedBlocks(m, end)
<1> DEFINE n == [m EXCEPT ![w] = v]
<1>1. w \in Words /\ w \notin Headers(m, end)
  BY NoHeaderInside
<1>2. n \in Memory
  BY DEF Memory
<1>3. \A p \in Headers(m, end) : n[p] = m[p]
  BY <1>1, HeadersClosed DEF Memory
<1> HIDE DEF n
<1>4. Within(n, end) /\ UsedBlocks(n, end) = UsedBlocks(m, end)
  BY <1>2, <1>3, SameBlocks
<1> QED BY <1>2, <1>4 DEF n

LEMMA ClearKeeps ==
  ASSUME NEW m \in Memory, NEW end \in 0 .. Room, Within(m, end), NEW b \in UsedBlocks(m, end)
  PROVE  /\ Cleared(m, b) \in Memory /\ Within(Cleared(m, b), end)
         /\ UsedBlocks(Cleared(m, b), end) = UsedBlocks(m, end)
<1>1. Cleared(m, b) \in Memory
  BY DEF Cleared, Memory, Zero, Word
<1>2. ASSUME NEW p \in Headers(m, end) PROVE Cleared(m, b)[p] = m[p]
  <2>1. p \in Words
    BY HeadersClosed
  <2>2. p \notin Extent(b) \ {b.at}
    BY NoHeaderInside
  <2> QED BY <2>1, <2>2 DEF Cleared
<1> QED BY <1>1, <1>2, SameBlocks

LEMMA FreeKeeps ==
  ASSUME NEW m \in Memory, NEW end \in 0 .. Room, Within(m, end), NEW b \in UsedBlocks(m, end)
  PROVE  LET n == [m EXCEPT ![b.at].free = TRUE]
         IN n \in Memory /\ Within(n, end) /\ UsedBlocks(n, end) = UsedBlocks(m, end) \ {b}
<1> DEFINE n == [m EXCEPT ![b.at].free = TRUE]
           H == Headers(m, end)
<1>1. b.at \in H /\ b = [at |-> b.at, len |-> m[b.at].size]
  BY UsedBlock
<1>2. H \subseteq Words
  BY HeadersClosed
<1>3. n[b.at] = [size |-> m[b.at].size, free |-> TRUE]
  BY <1>1, <1>2 DEF Memory, Word
<1>4. \A w \in Words : w # b.at => n[w] = m[w]
  BY DEF Memory
<1>5. n \in Memory
  <2>1. m[b.at] \in Word
    BY <1>1, <1>2 DEF Memory
  <2> QED BY <1>3, <2>1 DEF Memory, Word
<1> HIDE DEF n, H
<1>6. \A p \in H : n[p].size = m[p].size
  BY <1>2, <1>3, <1>4
<1>7. Headers(n, end) = H
  BY <1>5, <1>6, SameHeaders DEF H
<1>8. Within(n, end)
  <2>1. \A p \in H : Follows(n, p) = Follows(m, p)
    BY <1>6 DEF Follows
  <2> QED BY <1>7, <2>1 DEF Within, H
<1>9. UsedBlocks(n, end) = UsedBlocks(m, end) \ {b}
  <2> DEFINE U == {q \in H : ~m[q].free}
  <2>1. {q \in H : ~n[q].free} = U \ {b.at}
    <3>1. n[b.at].free
      BY <1>3
    <3> QED BY <1>2, <1>4, <3>1
  <2>2. UsedBlocks(n, end) = {[at |-> p, len |-> n[p].size] : p \in U \ {b.at}}
    BY <1>7, <2>1 DEF UsedBlocks
  <2>3. UsedBlocks(m, end) = {[at |-> p, len |-> m[p].size] : p \in U}
    BY DEF UsedBlocks, H
  <2>4. UsedBlocks(n, end) = {[at |-> p, len |-> m[p].size] : p \in U \ {b.at}}
    BY <1>6, <2>2
  <2>5. \A p : [at |-> p, len |-> m[p].size] = b <=> p = b.at
    BY <1>1
  <2> HIDE DEF U
  <2> QED BY <2>3, <2>4, <2>5
<1> QED BY <1>5, <1>8, <1>9 DEF n

-----------------------------------------------------------------------------
(* A free block is taken, whole or in part.                                 *)

LEMMA WholeTaken ==
  ASSUME NEW m \in Memory, NEW end \in 0 .. Room, Within(m, end),
         NEW p \in Headers(m, end), m[p].free, NEW len \in Nat, m[p].size = len
  PROVE  /\ Take(m, p, len) \in Memory /\ Within(Take(m, p, len), end)
         /\ UsedBlocks(Take(m, p, len), end) = UsedBlocks(m, end) \cup {[at |-> p, len |-> len]}
<1> DEFINE n == Take(m, p, len)
           H == Headers(m, end)
           used == [size |-> len, free |-> FALSE]
<1>1. H \subseteq Words /\ p \in H
  BY HeadersClosed
<1>2. n = [m EXCEPT ![p] = used]
  BY DEF Take
<1>3. n[p] = used /\ \A w \in Words : w # p => n[w] = m[w]
  BY <1>1, <1>2 DEF Memory
<1>4. n \in Memory
  <2>1. used \in Word
    BY DEF Word
  <2> HIDE DEF used
  <2> QED BY <1>2, <2>1 DEF Memory
<1> HIDE DEF n, H
<1>5. \A q \in H : n[q].size = m[q].size
  BY <1>1, <1>3
<1>6. Headers(n, end) = H
  BY <1>4, <1>5, SameHeaders DEF H
<1>7. Within(n, end)
  <2>1. \A q \in H : Follows(n, q) = Follows(m, q)
    BY <1>5 DEF Follows
  <2> QED BY <1>6, <2>1 DEF Within, H
<1> DEFINE U == {q \in H : ~m[q].free}
<1>8. {q \in H : ~n[q].free} = U \cup {p}
  <2>1. ~n[p].free
    BY <1>3
  <2> QED BY <1>1, <1>3, <2>1
<1>9. UsedBlocks(n, end) = {[at |-> q, len |-> m[q].size] : q \in U \cup {p}}
  <2>1. UsedBlocks(n, end) = {[at |-> q, len |-> n[q].size] : q \in U \cup {p}}
    BY <1>6, <1>8 DEF UsedBlocks
  <2> QED BY <1>1, <1>5, <2>1
<1>10. UsedBlocks(m, end) = {[at |-> q, len |-> m[q].size] : q \in U}
  BY DEF UsedBlocks, H
<1> HIDE DEF U
<1>11. UsedBlocks(n, end) = UsedBlocks(m, end) \cup {[at |-> p, len |-> len]}
  BY <1>9, <1>10
<1> QED BY <1>4, <1>7, <1>11 DEF n

LEMMA PartTaken ==
  ASSUME NEW m \in Memory, NEW end \in 0 .. Room, Within(m, end),
         NEW p \in Headers(m, end), m[p].free, NEW len \in Nat, m[p].size > len
  PROVE  /\ Take(m, p, len) \in Memory /\ Within(Take(m, p, len), end)
         /\ UsedBlocks(Take(m, p, len), end) = UsedBlocks(m, end) \cup {[at |-> p, len |-> len]}
<1> DEFINE n == Take(m, p, len)
           r == p + len + 1
           H == Headers(m, end)
           HN == Headers(n, end)
           G == H \cup ({r} \cap 0 .. end - 1)
           used == [size |-> len, free |-> FALSE]
           rest == [size |-> m[p].size - len - 1, free |-> TRUE]
<1>1. H \subseteq Words /\ p \in H /\ p \in Nat /\ m[p].size \in Nat /\ end \in Nat
  BY HeadersClosed DEF Words, Memory, Word
<1>2. Closed(m, end, H)
  BY HeadersClosed
<1>3. Follows(m, p) = p + m[p].size + 1 /\ Follows(m, p) <= end + 1
  BY DEF Follows, Within
<1>4. r \in Words /\ r \in Nat /\ p < r /\ r < Follows(m, p) /\ r <= end
  BY <1>1, <1>3 DEF Words
<1>5. n = [m EXCEPT ![p] = used, ![r] = rest]
  BY <1>1 DEF Take
<1>6. n[p] = used /\ n[r] = rest /\ \A w \in Words : w # p /\ w # r => n[w] = m[w]
  <2>1. p \in Words /\ r \in Words /\ p # r
    BY <1>1, <1>4
  <2> HIDE DEF used, rest, n, r
  <2>2. \A w \in Words : n[w] = IF w = r THEN rest ELSE IF w = p THEN used ELSE m[w]
    BY <1>5, <2>1 DEF Memory
  <2> QED BY <2>1, <2>2
<1>7. n \in Memory
  <2>1. rest \in Word /\ used \in Word
    BY <1>1 DEF Word
  <2> HIDE DEF rest, used
  <2> QED BY <1>5, <2>1 DEF Memory
<1>8. r \notin H
  <2>1. ASSUME r \in H PROVE FALSE
    <3>1. Follows(m, p) <= r
      BY <1>1, <1>4, <2>1, InOrder
    <3> QED BY <1>1, <1>3, <1>4, <3>1
  <2> QED BY <2>1
<1>9. Follows(n, p) = r
  <2>1. n[p].size = len
    BY <1>6
  <2> QED BY <2>1 DEF Follows
<1>10. Follows(n, r) = Follows(m, p)
  <2>1. n[r].size = m[p].size - len - 1
    BY <1>6
  <2> HIDE DEF n
  <2>2. Follows(n, r) = r + n[r].size + 1
    BY DEF Follows
  <2> QED BY <1>1, <1>3, <2>1, <2>2
<1>11. \A q \in H : q # p => Follows(n, q) = Follows(m, q) /\ n[q] = m[q]
  BY <1>1, <1>6, <1>8 DEF Follows
<1>12. Closed(n, end, HN) /\ HN \subseteq 0 .. end - 1
  BY <1>7, HeadersClosed
<1> HIDE DEF n, H, HN, r
<1>13. Closed(n, end, G)
  <2>1. ASSUME NEW q \in G, Follows(n, q) < end PROVE Follows(n, q) \in G
    <3>1. CASE q = p
      BY <1>1, <1>4, <1>9, <2>1, <3>1
    <3>2. CASE q = r
      BY <1>1, <1>2, <1>10, <2>1, <3>2 DEF Closed
    <3>3. CASE q # p /\ q # r
      <4>1. q \in H /\ Follows(n, q) = Follows(m, q)
        BY <1>11, <3>3
      <4> QED BY <1>2, <2>1, <4>1 DEF Closed
    <3> QED BY <3>1, <3>2, <3>3
  <2>2. end > 0 => 0 \in G
    BY <1>2 DEF Closed
  <2> HIDE DEF G
  <2> QED BY <2>1, <2>2 DEF Closed
<1>14. HN \subseteq G
  BY <1>7, <1>13, HeadersWithin DEF HN
<1>15. Closed(m, end, HN \ {r})
  <2>1. ASSUME NEW q \in HN \ {r}, Follows(m, q) < end PROVE Follows(m, q) \in HN \ {r}
    <3>1. q \in H
      BY <1>14
    <3>2. Follows(m, q) \in H
      BY <1>2, <2>1, <3>1 DEF Closed
    <3>3. Follows(m, q) # r
      BY <1>8, <3>2
    <3>4. CASE q = p
      <4>1. r \in HN
        BY <1>1, <1>3, <1>4, <1>9, <1>12, <2>1, <3>4 DEF Closed
      <4>2. Follows(m, p) \in HN
        BY <1>10, <1>12, <2>1, <3>4, <4>1 DEF Closed
      <4> QED BY <3>3, <3>4, <4>2
    <3>5. CASE q # p
      <4>1. Follows(n, q) = Follows(m, q)
        BY <1>11, <3>1, <3>5
      <4>2. Follows(n, q) \in HN
        BY <1>12, <2>1, <4>1 DEF Closed
      <4> QED BY <3>3, <4>1, <4>2
    <3> QED BY <3>4, <3>5
  <2>2. end > 0 => 0 \in HN \ {r}
    BY <1>1, <1>4, <1>12 DEF Closed
  <2> QED BY <2>1, <2>2 DEF Closed
<1>16. H \subseteq HN
  <2>1. H \subseteq HN \ {r}
    BY <1>15, HeadersWithin DEF H
  <2> QED BY <2>1
<1>17. Within(n, end)
  <2> SUFFICES ASSUME NEW q \in HN PROVE Follows(n, q) <= end + 1
    BY DEF Within, HN
  <2>1. CASE q = p
    BY <1>1, <1>4, <1>9, <2>1
  <2>2. CASE q = r
    BY <1>3, <1>10, <2>2
  <2>3. CASE q # p /\ q # r
    <3>1. q \in H /\ Follows(n, q) = Follows(m, q)
      BY <1>11, <1>14, <2>3
    <3> QED BY <3>1 DEF Within, H
  <2> QED BY <2>1, <2>2, <2>3
<1> DEFINE U == {q \in H : ~m[q].free}
<1>18. {q \in HN : ~n[q].free} = U \cup {p}
  <2>1. n[r].free /\ ~n[p].free
    BY <1>6
  <2>2. ASSUME NEW q \in HN, ~n[q].free PROVE q \in U \cup {p}
    <3>1. q # r
      BY <2>1, <2>2
    <3>2. q \in H
      BY <1>14, <3>1
    <3> QED BY <1>11, <2>2, <3>2
  <2>3. ASSUME NEW q \in U \cup {p} PROVE q \in HN /\ ~n[q].free
    BY <1>1, <1>11, <1>16, <2>1
  <2> QED BY <2>2, <2>3
<1>19. UsedBlocks(n, end) = {[at |-> q, len |-> n[q].size] : q \in U \cup {p}}
  BY <1>18 DEF UsedBlocks, HN
<1>20. UsedBlocks(m, end) = {[at |-> q, len |-> m[q].size] : q \in U}
  BY DEF UsedBlocks, H
<1>21. \A q \in U : n[q].size = m[q].size
  BY <1>11
<1>22. n[p].size = len
  BY <1>6
<1> HIDE DEF U
<1>23. UsedBlocks(n, end) = UsedBlocks(m, end) \cup {[at |-> p, len |-> len]}
  BY <1>19, <1>20, <1>21, <1>22
<1> QED BY <1>7, <1>17, <1>23 DEF n

-----------------------------------------------------------------------------
(* When malloc refuses, no stretch of free words is long enough.            *)

LEMMA FitIs ==
  ASSUME NEW m \in Memory, NEW end \in 0 .. Room, NEW len \in Nat
  PROVE  /\ \A p \in FirstFit(m, end, len) :
              p \in Headers(m, end) /\ m[p].free /\ m[p].size >= len
         /\ FirstFit(m, end, len) = {} =>
              \A p \in Headers(m, end) : m[p].free => ~(m[p].size >= len)
<1> DEFINE fits == {p \in Headers(m, end) : m[p].free /\ m[p].size >= len}
<1>1. FirstFit(m, end, len) = {p \in fits : \A q \in fits : p <= q}
  BY DEF FirstFit
<1>2. fits \in SUBSET Nat
  BY HeadersClosed
<1>3. ASSUME FirstFit(m, end, len) = {}, fits # {} PROVE FALSE
  <2> HIDE DEF fits
  <2>1. PICK p \in fits : \A q \in fits : p <= q
    BY <1>2, <1>3, Smallest
  <2> QED BY <1>1, <1>3, <2>1
<1> QED BY <1>1, <1>3

LEMMA RefusedRight ==
  ASSUME NEW m \in Memory, NEW end \in 0 .. Room, NoneTouch(m, end), NEW len \in Nat,
         FirstFit(m, end, len) = {}, NEW p \in Words, p + len < end
  PROVE  \E b \in UsedBlocks(m, end) : (p .. p + len) \cap Extent(b) # {}
<1> DEFINE H == Headers(m, end)
<1>0. p \in Nat /\ p \in 0 .. end - 1 /\ end \in Nat
  BY DEF Words
<1>1. ASSUME NEW q \in H, ~m[q].free, NEW w \in p .. p + len, q <= w, w < Follows(m, q)
      PROVE  \E b \in UsedBlocks(m, end) : (p .. p + len) \cap Extent(b) # {}
  <2> DEFINE b == [at |-> q, len |-> m[q].size]
  <2>1. b \in UsedBlocks(m, end)
    BY <1>1 DEF UsedBlocks
  <2>2. q \in Nat /\ m[q].size \in Nat
    BY HeadersClosed DEF Words, Memory, Word
  <2>3. Follows(m, q) = q + m[q].size + 1
    BY DEF Follows
  <2>4. w \in q .. q + m[q].size
    BY <1>0, <1>1, <2>2, <2>3
  <2>5. w \in Extent(b)
    BY <2>4 DEF Extent
  <2> QED BY <1>1, <2>1, <2>5
<1>2. PICK q \in H : q <= p /\ p < Follows(m, q)
  BY <1>0, Tiled
<1>3. CASE ~m[q].free
  <2>1. p \in p .. p + len
    BY <1>0
  <2> QED BY <1>1, <1>2, <1>3, <2>1
<1>4. CASE m[q].free
  <2>1. ~(m[q].size >= len)
    BY <1>4, FitIs
  <2>2. q \in Nat /\ m[q].size \in Nat
    BY HeadersClosed DEF Words, Memory, Word
  <2>3. Follows(m, q) = q + m[q].size + 1
    BY DEF Follows
  <2>4. Follows(m, q) \in p .. p + len /\ Follows(m, q) < end
    BY <1>0, <1>2, <2>1, <2>2, <2>3
  <2>5. Follows(m, q) \in H
    BY <2>4, HeadersClosed DEF Closed
  <2>6. ~m[Follows(m, q)].free
    BY <1>4, <2>4 DEF NoneTouch
  <2>7. Follows(m, q) <= Follows(m, q) /\ Follows(m, q) < Follows(m, Follows(m, q))
    BY <2>5, InOrder
  <2> QED BY <1>1, <2>4, <2>5, <2>6, <2>7
<1> QED BY <1>3, <1>4

(* InitHeap leaves one free block, whatever was in memory.                  *)
LEMMA FreshHeap ==
  ASSUME NEW m \in Memory, NEW end \in 1 .. Room
  PROVE  LET n == [m EXCEPT ![0] = [size |-> end, free |-> TRUE]]
         IN n \in Memory /\ Within(n, end) /\ UsedBlocks(n, end) = {}
<1> DEFINE first == [size |-> end, free |-> TRUE]
           n == [m EXCEPT ![0] = first]
<1>1. 0 \in Words /\ first \in Word
  BY DEF Words, Word
<1>2. n \in Memory /\ n[0] = first
  BY <1>1 DEF Memory
<1>3. n[0].size = end /\ n[0].free
  BY <1>2
<1> HIDE DEF n
<1>4. Follows(n, 0) = end + 1
  BY <1>3 DEF Follows
<1>5. Closed(n, end, {0})
  BY <1>4 DEF Closed
<1>6. Headers(n, end) \subseteq {0}
  BY <1>2, <1>5, HeadersWithin
<1>7. Within(n, end)
  BY <1>4, <1>6 DEF Within
<1>8. UsedBlocks(n, end) = {}
  BY <1>3, <1>6 DEF UsedBlocks
<1> QED BY <1>2, <1>7, <1>8 DEF n

-----------------------------------------------------------------------------
(* The game's blocks are those the headers tell of, and the search for them *)
(* does not leave the heap.                                                 *)
HeapInv ==
  /\ HeapTypeOK
  /\ Within(mem, heap_end)
  /\ live = UsedBlocks(mem, heap_end)
  /\ RoomIsUsed

LEMMA HeapEnd ==
  ASSUME HeapTypeOK
  PROVE  mem \in Memory /\ heap_end \in 0 .. Room
BY DEF HeapTypeOK

LEMMA HeapStart == HeapInit => HeapInv
<1> SUFFICES ASSUME HeapInit PROVE HeapInv
  OBVIOUS
<1>1. mem \in Memory /\ heap_end = 0 /\ live = {} /\ refused = {}
  BY DEF HeapInit, Memory, Zero, Word
<1>2. HeapTypeOK
  BY <1>1 DEF HeapTypeOK
<1>3. Headers(mem, heap_end) = {}
  <2>1. Headers(mem, heap_end) \subseteq 0 .. heap_end - 1
    BY <1>2, HeapEnd, HeadersClosed
  <2> QED BY <1>1, <2>1
<1>4. Within(mem, heap_end) /\ live = UsedBlocks(mem, heap_end)
  BY <1>1, <1>3 DEF Within, UsedBlocks
<1>5. RoomIsUsed
  BY <1>1 DEF RoomIsUsed
<1> QED BY <1>2, <1>4, <1>5 DEF HeapInv

(* malloc, on the memory as it is or with a block freed before. *)
LEMMA AllocateKeeps ==
  ASSUME NEW m \in Memory, heap_end \in Sizes \cup {0}, Within(m, heap_end),
         NEW have, have = UsedBlocks(m, heap_end),
         NEW len \in Requests, NEW clear \in BOOLEAN, Allocate(m, have, len, clear)
  PROVE  HeapInv'
<1> DEFINE J == Joined(m, heap_end)
           fit == FirstFit(J, heap_end, len)
<1>0. heap_end \in 0 .. Room /\ heap_end' = heap_end /\ len \in Nat
  BY DEF Allocate
<1>1. /\ J \in Memory /\ Within(J, heap_end)
      /\ UsedBlocks(J, heap_end) = have /\ NoneTouch(J, heap_end)
  BY <1>0, JoinedKeeps
<1>2. /\ fit = {} => mem' = J /\ live' = have /\ refused' = {len}
      /\ fit # {} =>
           \E p \in fit :
             LET new == [at |-> p, len |-> len]
                 taken == Take(J, p, len)
             IN /\ mem' = IF clear THEN Cleared(taken, new) ELSE taken
                /\ live' = have \cup {new} /\ refused' = {}
  BY DEF Allocate
<1> HIDE DEF J, fit
<1>3. /\ mem' \in Memory /\ Within(mem', heap_end) /\ live' = UsedBlocks(mem', heap_end)
      /\ refused' \subseteq Requests
  <2>1. CASE fit = {}
    BY <1>1, <1>2, <2>1
  <2>2. CASE fit # {}
    <3> DEFINE new(p) == [at |-> p, len |-> len]
               taken(p) == Take(J, p, len)
    <3>1. PICK p \in fit :
            /\ mem' = IF clear THEN Cleared(taken(p), new(p)) ELSE taken(p)
            /\ live' = have \cup {new(p)} /\ refused' = {}
      BY <1>2, <2>2
    <3>2. p \in Headers(J, heap_end) /\ J[p].free /\ J[p].size >= len
      BY <1>0, <1>1, <3>1, FitIs DEF fit
    <3>3. /\ taken(p) \in Memory /\ Within(taken(p), heap_end)
          /\ UsedBlocks(taken(p), heap_end) = have \cup {new(p)}
      <4>1. J[p].size \in Nat
        BY <1>0, <1>1, <3>2, HeadersClosed DEF Memory, Word
      <4>2. CASE J[p].size = len
        BY <1>0, <1>1, <3>2, <4>2, WholeTaken
      <4>3. CASE J[p].size > len
        BY <1>0, <1>1, <3>2, <4>3, PartTaken
      <4> QED BY <1>0, <3>2, <4>1, <4>2, <4>3
    <3> HIDE DEF new, taken
    <3>4. new(p) \in UsedBlocks(taken(p), heap_end)
      BY <3>3
    <3>5. /\ Cleared(taken(p), new(p)) \in Memory
          /\ Within(Cleared(taken(p), new(p)), heap_end)
          /\ UsedBlocks(Cleared(taken(p), new(p)), heap_end) = have \cup {new(p)}
      BY <1>0, <3>3, <3>4, ClearKeeps
    <3>6. refused' \subseteq Requests
      BY <3>1
    <3>7. CASE clear
      <4>1. mem' = Cleared(taken(p), new(p))
        BY <3>1, <3>7
      <4> QED BY <3>1, <3>5, <3>6, <4>1
    <3>8. CASE ~clear
      <4>1. mem' = taken(p)
        BY <3>1, <3>8
      <4> QED BY <3>1, <3>3, <3>6, <4>1
    <3> QED BY <3>7, <3>8
  <2> QED BY <2>1, <2>2
<1>4. live' \subseteq Block
  BY <1>0, <1>3, BlocksOf
<1>5. HeapTypeOK'
  BY <1>0, <1>3, <1>4 DEF HeapTypeOK
<1>6. RoomIsUsed'
  <2> SUFFICES ASSUME NEW l \in refused', NEW p \in Words, p + l < heap_end
               PROVE  \E b \in live' : (p .. p + l) \cap Extent(b) # {}
    BY <1>0 DEF RoomIsUsed
  <2>1. fit = {} /\ l = len /\ live' = UsedBlocks(J, heap_end)
    BY <1>1, <1>2
  <2> QED BY <1>0, <1>1, <2>1, RefusedRight DEF fit
<1> QED BY <1>0, <1>3, <1>5, <1>6 DEF HeapInv

LEMMA StepInitHeap ==
  ASSUME HeapInv, InitHeap
  PROVE  HeapInv'
<1>1. PICK n \in Sizes :
        /\ heap_end' = n /\ mem' = [mem EXCEPT ![0] = [size |-> n, free |-> TRUE]]
        /\ live' = {} /\ refused' = {}
  BY DEF InitHeap
<1>2. mem \in Memory /\ n \in 1 .. Room
  BY HeapEnd DEF HeapInv
<1>3. mem' \in Memory /\ Within(mem', n) /\ UsedBlocks(mem', n) = {}
  BY <1>1, <1>2, FreshHeap
<1>4. HeapTypeOK' /\ RoomIsUsed'
  BY <1>1, <1>3 DEF HeapTypeOK, RoomIsUsed
<1> QED BY <1>1, <1>3, <1>4 DEF HeapInv

LEMMA StepMalloc ==
  ASSUME HeapInv, NEW len \in Requests, Malloc(len) \/ Calloc(len)
  PROVE  HeapInv'
<1>1. /\ mem \in Memory /\ heap_end \in Sizes \cup {0} /\ Within(mem, heap_end)
      /\ live = UsedBlocks(mem, heap_end)
  BY HeapEnd DEF HeapInv, HeapTypeOK
<1>2. CASE Malloc(len)
  BY <1>1, <1>2, AllocateKeeps DEF Malloc
<1>3. CASE Calloc(len)
  BY <1>1, <1>3, AllocateKeeps DEF Calloc
<1> QED BY <1>2, <1>3

LEMMA FreedIs ==
  ASSUME HeapInv, NEW b \in live
  PROVE  /\ Freed(b) \in Memory /\ Within(Freed(b), heap_end)
         /\ live \ {b} = UsedBlocks(Freed(b), heap_end)
<1>1. /\ mem \in Memory /\ heap_end \in 0 .. Room /\ Within(mem, heap_end)
      /\ live = UsedBlocks(mem, heap_end)
  BY HeapEnd DEF HeapInv
<1> QED BY <1>1, FreeKeeps DEF Freed

LEMMA StepFree ==
  ASSUME HeapInv, Free
  PROVE  HeapInv'
<1>1. PICK b \in live :
        mem' = Freed(b) /\ live' = live \ {b} /\ refused' = {} /\ heap_end' = heap_end
  BY DEF Free
<1>2. mem' \in Memory /\ Within(mem', heap_end) /\ live' = UsedBlocks(mem', heap_end)
  BY <1>1, FreedIs
<1>3. HeapTypeOK' /\ RoomIsUsed'
  BY <1>1, <1>2 DEF HeapInv, HeapTypeOK, RoomIsUsed
<1> QED BY <1>1, <1>2, <1>3 DEF HeapInv

LEMMA StepRealloc ==
  ASSUME HeapInv, NEW len \in Requests, Realloc(len)
  PROVE  HeapInv'
<1>1. PICK b \in live : Allocate(Freed(b), live \ {b}, len, FALSE)
  BY DEF Realloc
<1>2. heap_end \in Sizes \cup {0}
  BY DEF HeapInv, HeapTypeOK
<1>3. /\ Freed(b) \in Memory /\ Within(Freed(b), heap_end)
      /\ live \ {b} = UsedBlocks(Freed(b), heap_end)
  BY FreedIs
<1> QED BY <1>1, <1>2, <1>3, AllocateKeeps

LEMMA StepWrite ==
  ASSUME HeapInv, Write
  PROVE  HeapInv'
<1>1. PICK b \in live, v \in Junk : \E w \in Extent(b) \ {b.at} :
        mem' = [mem EXCEPT ![w] = v] /\ UNCHANGED <<heap_end, live, refused>>
  BY DEF Write
<1>0. PICK w \in Extent(b) \ {b.at} :
       mem' = [mem EXCEPT ![w] = v] /\ UNCHANGED <<heap_end, live, refused>>
  BY <1>1
<1>2. /\ mem \in Memory /\ heap_end \in 0 .. Room /\ Within(mem, heap_end)
      /\ live = UsedBlocks(mem, heap_end)
  BY HeapEnd DEF HeapInv
<1>3. v \in Word /\ b \in UsedBlocks(mem, heap_end)
  BY <1>2
<1>4. /\ mem' \in Memory /\ Within(mem', heap_end)
      /\ UsedBlocks(mem', heap_end) = UsedBlocks(mem, heap_end)
  BY <1>0, <1>2, <1>3, WriteKeeps
<1>5. HeapTypeOK' /\ RoomIsUsed'
  BY <1>0, <1>4 DEF HeapInv, HeapTypeOK, RoomIsUsed
<1> QED BY <1>0, <1>2, <1>4, <1>5 DEF HeapInv

LEMMA HeapAlways == HeapSpec => []HeapInv
<1>1. HeapInv /\ [HeapNext]_heapVars => HeapInv'
  <2> SUFFICES ASSUME HeapInv, [HeapNext]_heapVars PROVE HeapInv'
    OBVIOUS
  <2>1. CASE InitHeap
    BY <2>1, StepInitHeap
  <2>2. CASE Free
    BY <2>2, StepFree
  <2>3. CASE Write
    BY <2>3, StepWrite
  <2>4. ASSUME NEW len \in Requests, Malloc(len) \/ Calloc(len) PROVE HeapInv'
    BY <2>4, StepMalloc
  <2>5. ASSUME NEW len \in Requests, Realloc(len) PROVE HeapInv'
    BY <2>5, StepRealloc
  <2>6. CASE UNCHANGED heapVars
    BY <2>6 DEF HeapInv, HeapTypeOK, RoomIsUsed, heapVars
  <2> QED BY <2>1, <2>2, <2>3, <2>4, <2>5, <2>6 DEF HeapNext
<1> QED BY <1>1, HeapStart, PTL DEF HeapSpec

(* Memory stays memory, and the game has blocks of it: InitHeap, malloc,   *)
(* calloc, realloc and free write only headers and words within it.        *)
THEOREM HeapTyped == HeapSpec => []HeapTypeOK
<1>1. HeapInv => HeapTypeOK
  BY DEF HeapInv
<1> QED BY <1>1, HeapAlways, PTL

(* For every size of memory and of the heap, every request, and whatever   *)
(* the game writes into its blocks: malloc never hands out a word of a     *)
(* block the game has, or of its header, or one outside the heap.          *)
THEOREM BlocksStayApart == HeapSpec => []BlocksApart
<1>1. HeapInv => BlocksApart
  <2> SUFFICES ASSUME HeapInv PROVE BlocksApart
    OBVIOUS
  <2>1. mem \in Memory /\ heap_end \in 0 .. Room
    BY HeapEnd DEF HeapInv
  <2> QED BY <2>1, BlocksOf DEF HeapInv, BlocksApart
<1> QED BY <1>1, HeapAlways, PTL

(* malloc refuses only what no stretch of words below heap_end has room    *)
(* for, that no block of the game touches.                                 *)
THEOREM NoRoomIsLost == HeapSpec => []RoomIsUsed
<1>1. HeapInv => RoomIsUsed
  BY DEF HeapInv
<1> QED BY <1>1, HeapAlways, PTL
=============================================================================

----------------------------- MODULE EventSched -----------------------------
(***************************************************************************)
(* The event table of the recompiling CPU core (new_dynarec/emu_if.c):     *)
(* device code arms an event some cycles ahead, translated code runs until *)
(* next_interupt, and gen_interupt then runs the handlers that are due     *)
(* (irq_test) and computes the next stop (schedule_timeslice).  Cycle      *)
(* counters are unsigned and wrap; differences are read as signed.         *)
(* `left' is the true, unwrapped time an event still has, which no code    *)
(* keeps; it is what the wrapped arithmetic is judged by.                  *)
(***************************************************************************)
EXTENDS Integers

CONSTANTS
  Clock,      \* the cycle counter wraps at Clock (2^32 in the code)
  Events,     \* the events with a handler, numbered in bit order from 0
  Rcnt,       \* PSXINT_RCNT, whose handler always arms itself again
  Arms,       \* the events an event's handler may arm
  Cancels,    \* the events an event's handler may cancel (StopReading); never Rcnt
  Delays,     \* bound: for how many cycles ahead events are armed
  MaxSlice,   \* PSXCLK, the longest stretch between two tests
  MaxBlock    \* bound: the cycles of one translated block

ASSUME EventsAssumption ==
  /\ Events \subseteq Nat /\ Rcnt \in Events
  /\ Arms \in [Events -> SUBSET Events] /\ Cancels \in [Events -> SUBSET (Events \ {Rcnt})]

(* All armed times fit in half the clock, with the overshoot of a slice.   *)
ASSUME ClockAssumption ==
  /\ Clock \in Nat /\ MaxSlice \in Nat \ {0} /\ MaxBlock \in Nat \ {0}
  /\ Delays \subseteq Nat /\ \A d \in Delays : 2 * (d + 1) < Clock
  /\ 2 * (MaxSlice + 2 * MaxBlock) < Clock

VARIABLES
  pc,             \* "run": translated code; "test": in irq_test; "schedule"
  cycle,          \* psxRegs.cycle
  next_interupt,
  interrupt,      \* psxRegs.interrupt, as the set of its bits
  event_cycles,
  irqs, todo,     \* irq_test: its copy of the bits, and those not visited yet
  left,           \* true time left of each event last armed (negative: overdue)
  overdue,        \* events not in the future when the slice was scheduled
  fresh           \* events armed by the handlers of this irq_test

vars == <<pc, cycle, next_interupt, interrupt, event_cycles, irqs, todo, left,
          overdue, fresh>>

-----------------------------------------------------------------------------
Wrap(x) == x % Clock

(* Fault: the difference is read unsigned. *)
SignedAsUnsigned(x) == Wrap(x)

(* (s32)x of an unsigned difference. *)
Signed(x) == IF 2 * Wrap(x) < Clock THEN Wrap(x) ELSE Wrap(x) - Clock

SetMin(S) == CHOOSE x \in S : \A y \in S : x <= y

Pending == interrupt \cup irqs

TypeOK ==
  /\ pc \in {"run", "test", "schedule"}
  /\ cycle \in 0 .. Clock - 1 /\ next_interupt \in 0 .. Clock - 1
  /\ interrupt \subseteq Events /\ event_cycles \in [Events -> 0 .. Clock - 1]
  /\ irqs \subseteq Events /\ todo \subseteq irqs
  /\ left \in [Events -> Int]
  /\ overdue \subseteq Events /\ fresh \subseteq Events

(* The core enters with the counters armed and the slice scheduled. *)
Init ==
  /\ pc = "schedule" /\ cycle = 0 /\ next_interupt = 0
  /\ interrupt = {Rcnt} /\ irqs = {} /\ todo = {}
  /\ \E d \in Delays \ {0} :
       /\ event_cycles = [e \in Events |-> IF e = Rcnt THEN d ELSE 0]
       /\ left = [e \in Events |-> IF e = Rcnt THEN d ELSE 0]
  /\ overdue = {} /\ fresh = {}

-----------------------------------------------------------------------------
(* new_dyna_set_event: armed c cycles from now; next_interupt is brought   *)
(* forward if it would come too late.                                      *)
Sooner(c) == IF c < Signed(next_interupt - cycle) THEN Wrap(cycle + c)
             ELSE next_interupt

(* Fault: next_interupt is left alone. *)
SetEventsLazily(delay) ==
  /\ event_cycles' = [e \in Events |-> IF e \in DOMAIN delay
                                         THEN Wrap(cycle + delay[e])
                                         ELSE event_cycles[e]]
  /\ left' = [e \in Events |-> IF e \in DOMAIN delay THEN delay[e] ELSE left[e]]
  /\ UNCHANGED next_interupt

SetEvents(delay) ==
  /\ event_cycles' = [e \in Events |-> IF e \in DOMAIN delay
                                         THEN Wrap(cycle + delay[e])
                                         ELSE event_cycles[e]]
  /\ left' = [e \in Events |-> IF e \in DOMAIN delay THEN delay[e] ELSE left[e]]
  /\ next_interupt' = IF DOMAIN delay = {} THEN next_interupt
                      ELSE Sooner(SetMin({delay[e] : e \in DOMAIN delay}))

(* Translated code runs a block; it looks at the clock between blocks. *)
RunBlock ==
  /\ pc = "run" /\ Signed(next_interupt - cycle) > 0
  /\ \E d \in 1 .. MaxBlock :
       /\ cycle' = Wrap(cycle + d)
       /\ left' = [e \in Events |-> IF e \in interrupt THEN left[e] - d ELSE 0]
  /\ UNCHANGED <<pc, next_interupt, interrupt, event_cycles, irqs, todo,
                 overdue, fresh>>

(* A device register write arms an event or cancels one. *)
GuestArm ==
  /\ pc = "run"
  /\ \E e \in Events, c \in Delays :
       /\ interrupt' = interrupt \cup {e}
       /\ overdue' = overdue \ {e}
       /\ SetEvents([x \in {e} |-> c])
  /\ UNCHANGED <<pc, cycle, irqs, todo, fresh>>

GuestCancel ==
  /\ pc = "run"
  /\ \E e \in interrupt \ {Rcnt} :
       /\ interrupt' = interrupt \ {e}
       /\ overdue' = overdue \ {e}
       /\ left' = [left EXCEPT ![e] = 0]
  /\ UNCHANGED <<pc, cycle, next_interupt, event_cycles, irqs, todo, fresh>>

(* A write to the interrupt registers asks for a test within a cycle       *)
(* (PSXINT_NEWDRC_CHECK has no handler and never gets a bit).              *)
GuestUnmask ==
  /\ pc = "run"
  /\ next_interupt' = Sooner(1)
  /\ UNCHANGED <<pc, cycle, interrupt, event_cycles, irqs, todo, left, overdue,
                 fresh>>

(* gen_interupt, at the end of a slice or on a write to the status         *)
(* register: irq_test takes all bits, as handlers may arm more.            *)
GenInterupt ==
  /\ pc = "run" /\ pc' = "test"
  /\ irqs' = interrupt /\ todo' = interrupt /\ interrupt' = {}
  /\ fresh' = {}
  /\ UNCHANGED <<cycle, next_interupt, event_cycles, left, overdue>>

Due(e) == Signed(cycle - event_cycles[e]) >= 0

(* The next bit of the copy: not due, or its handler runs.                 *)
Skip(e) ==
  /\ ~Due(e)
  /\ UNCHANGED <<interrupt, irqs, next_interupt, event_cycles, left, fresh, overdue>>

(* Fault: the bit of an event that has run is kept. *)
HandleKeepsBit(e) ==
  /\ Due(e)
  /\ \E armed \in SUBSET Arms[e], dropped \in SUBSET Cancels[e] :
       /\ e = Rcnt => Rcnt \in armed
       /\ armed \cap dropped = {}
       /\ \E delay \in [armed -> Delays] :
            /\ interrupt' = (interrupt \ dropped) \cup armed
            /\ fresh' = fresh \cup armed
            /\ overdue' = overdue \ ({e} \cup armed)
            /\ SetEvents(delay)
  /\ UNCHANGED irqs

Handle(e) ==
  /\ Due(e)
  /\ irqs' = irqs \ {e}
  /\ \E armed \in SUBSET Arms[e], dropped \in SUBSET Cancels[e] :
       /\ e = Rcnt => Rcnt \in armed
       /\ armed \cap dropped = {}
       /\ \E delay \in [armed -> Delays] :
            /\ interrupt' = (interrupt \ dropped) \cup armed
            /\ fresh' = fresh \cup armed
            /\ overdue' = overdue \ ({e} \cup armed)
            /\ SetEvents(delay)

Visit ==
  /\ pc = "test" /\ todo # {}
  /\ LET e == SetMin(todo)
     IN todo' = todo \ {e} /\ (Skip(e) \/ Handle(e))
  /\ UNCHANGED <<pc, cycle>>

(* The bits not run are put back. *)
EndTest ==
  /\ pc = "test" /\ todo = {}
  /\ pc' = "schedule"
  /\ interrupt' = interrupt \cup irqs
  /\ irqs' = {}
  /\ UNCHANGED <<cycle, next_interupt, event_cycles, todo, left, overdue, fresh>>

(* schedule_timeslice: the nearest event that is still ahead. *)
Ahead(e) == Signed(event_cycles[e] - cycle)

Schedule ==
  /\ pc = "schedule" /\ pc' = "run"
  /\ LET ahead == {Ahead(e) : e \in {x \in interrupt : Ahead(x) > 0}}
     IN next_interupt' = Wrap(cycle + SetMin(ahead \cup {MaxSlice}))
  /\ overdue' = {e \in interrupt : Ahead(e) <= 0}
  /\ fresh' = {}
  /\ UNCHANGED <<cycle, interrupt, event_cycles, irqs, todo, left>>

Next ==
  \/ RunBlock \/ GuestArm \/ GuestCancel \/ GuestUnmask
  \/ GenInterupt \/ Visit \/ EndTest \/ Schedule

Spec == Init /\ [][Next]_vars

(* The core keeps running: translated code reaches the end of its block,   *)
(* the slice ends and irq_test goes on.                                    *)
FairSpec ==
  /\ Spec
  /\ WF_vars(RunBlock) /\ WF_vars(Visit \/ EndTest \/ Schedule)
  /\ WF_vars(GenInterupt /\ Signed(next_interupt - cycle) <= 0)

-----------------------------------------------------------------------------
(* The wrapped clock never lies: for every armed event the signed          *)
(* difference irq_test and schedule_timeslice compute is the true time     *)
(* left, however the counter has wrapped in between.                       *)
ClockAgrees == \A e \in Pending : Ahead(e) = left[e]

(* No event is late or lost: one runs less than a block late, and one       *)
(* armed for "now" by a handler at the latest when a full slice has passed,  *)
(* for arming an event brings the next stop forward, across the wrap too;  *)
(* and the root counters' event, which nothing cancels, is always armed,   *)
(* although handlers arm events while irq_test works on its copy of the    *)
(* bits.                                                                   *)
BoundedLateness ==
  /\ \A e \in Pending :
       left[e] > -(IF e \in overdue THEN MaxSlice + MaxBlock ELSE MaxBlock)
  /\ Rcnt \in Pending

(* What is overdue is eventually run or cancelled, whatever its handler and *)
(* the others arm again, for now or for later.                             *)
OverdueHandled ==
  \A e \in Events :
    e \in Pending /\ left[e] <= 0 ~> e \notin Pending \/ left[e] > 0 \/ e \in fresh
=============================================================================

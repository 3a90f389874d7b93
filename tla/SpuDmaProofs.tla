--------------------------- MODULE SpuDmaProofs ---------------------------
(***************************************************************************)
(* Proofs about SpuWorker: the counting invariant of the ring and of its   *)
(* two semaphores, the safety properties that follow from it, and that the *)
(* ring implements the queue of SpuQueue.  After them, with nothing in     *)
(* common, those about what is behind two DMA channels: that GPUdmaChain   *)
(* leaves a list as it was (DmaChain), and that the motion decoder hands   *)
(* out its blocks in order (Mdec).                                         *)
(***************************************************************************)
EXTENDS SpuWorker, DmaChain, Mdec, WellFoundedInduction, FiniteSetTheorems,
        SequenceTheorems, TLAPS

(* Two items of one window of Slots items never share a slot: masking the  *)
(* counters with WORK_I_MASK is safe.                                      *)
LEMMA SlotInjective ==
  ASSUME NEW i \in Nat, NEW j \in Nat, i < j, j < i + Slots
  PROVE  Slot(i) # Slot(j)
<1>1. Slots \in Nat /\ Slots > 0
  BY SlotsAssumption
<1>2. SUFFICES ASSUME i % Slots = j % Slots PROVE FALSE
  BY DEF Slot
<1> DEFINE qi == i \div Slots
           qj == j \div Slots
<1>3. qi \in Int /\ i = Slots * qi + (i % Slots)
  BY <1>1
<1>4. qj \in Int /\ j = Slots * qj + (j % Slots)
  BY <1>1
<1>5. (i % Slots) \in Int /\ (j % Slots) \in Int
  BY <1>1
<1>6. Slots * qj - Slots * qi = j - i
  BY <1>2, <1>3, <1>4, <1>5, <1>1
<1> HIDE DEF qi, qj
<1>7. Slots * (qj - qi) = j - i
  BY <1>6, <1>3, <1>4, <1>1
<1>8. PICK d \in Int : d = qj - qi
  BY <1>3, <1>4
<1>9. Slots * d = j - i
  BY <1>7, <1>8
<1>10. CASE d <= 0
  <2>1. Slots * d <= 0
    BY <1>1, <1>8, <1>10
  <2> QED BY <2>1, <1>9, <1>1
<1>11. CASE d >= 1
  <2>1. Slots * d >= Slots
    BY <1>1, <1>8, <1>11
  <2> QED BY <2>1, <1>9, <1>1
<1> QED BY <1>8, <1>10, <1>11

-----------------------------------------------------------------------------
(* SlotInjective in the form the invariants use: between two counters of   *)
(* the window that starts at low.                                          *)
LEMMA SlotsOfWindow ==
  ASSUME NEW low \in Nat, NEW i \in Nat, NEW j \in Nat,
         low <= i, low <= j, i < low + Slots, j < low + Slots, i # j
  PROVE  Slot(i) # Slot(j)
<1>1. Slots \in Nat
  BY SlotsAssumption
<1>2. CASE i < j
  <2>1. j < i + Slots
    BY <1>1
  <2> QED BY <2>1, <1>2, SlotInjective
<1>3. CASE j < i
  <2>1. i < j + Slots
    BY <1>1
  <2> QED BY <2>1, <1>3, SlotInjective
<1> QED BY <1>2, <1>3

LEMMA SlotInRange ==
  ASSUME NEW i \in Nat PROVE Slot(i) \in 0 .. Slots - 1
BY SlotsAssumption DEF Slot

-----------------------------------------------------------------------------
(* The types of all variables are preserved by every step. *)
LEMMA TypeStep == TypeOK /\ [Next]_vars => TypeOK'
<1> SUFFICES ASSUME TypeOK, [Next]_vars PROVE TypeOK'
  OBVIOUS
<1> USE DEF TypeOK, ringVars, spuVars
<1>1. ASSUME NEW caller \in Callers, NEW diff \in {"short", "enough", "desync"},
             BeginCall(caller, diff)
      PROVE  TypeOK'
  <2>1. call' \in Call
    BY <1>1, CallersAssumption DEF BeginCall, Call, CallerKinds, DoDirect, ForceSync, ReverbState
  <2>2. pc' \in {"idle", "sync", "reg", "mem", "load"}
    BY <1>1, CallersAssumption DEF BeginCall, Skips, AfterCall, CallerKinds
  <2> QED BY <1>1, <2>1, <2>2 DEF BeginCall
<1>2. CASE SyncTest
  BY <1>2 DEF SyncTest
<1>3. CASE SyncWait
  BY <1>3 DEF SyncWait
<1>4. CASE Finish
  <2>1. Slot(i_reaped) \in 0 .. Slots - 1
    BY SlotInRange
  <2>2. slot[Slot(i_reaped)] \in WorkItem
    BY <2>1
  <2>3. pS' \in Nat /\ decode_buf' \in {"clear", "samples"} /\ decode_dirty' \in BOOLEAN
    BY <2>2, <1>4 DEF Finish, Emit, WorkItem
  <2>4. slot' \in [0 .. Slots - 1 -> WorkItem]
    BY <2>1, <2>2, <1>4 DEF Finish, WorkItem
  <2> QED BY <1>4, <2>3, <2>4 DEF Finish
<1>5. CASE NothingToMix
  BY <1>5 DEF NothingToMix, AfterCall, Call, CallerKinds
<1>6. CASE ReverbPrep
  BY <1>6 DEF ReverbPrep, ReverbState
<1>7. CASE MixDirect
  BY <1>7 DEF MixDirect, AfterCall, Call, CallerKinds, StartAndEnd
<1>8. CASE Fill
  <2>1. PICK item \in WorkItem : slot' = [slot EXCEPT ![Slot(i_ready)] = item]
    <3> DEFINE it == [decode_pos |-> decode_pos + 1,
                      channels_on |-> dwNewChannel \cup dwChannelOn,
                      silent |-> call.silent, rvb_addr |-> rvb.StartAddr,
                      mixed |-> FALSE]
    <3>1. it \in WorkItem
      BY DEF WorkItem, Call, ReverbState
    <3>2. slot' = [slot EXCEPT ![Slot(i_ready)] = it]
      BY <1>8 DEF Fill
    <3> QED BY <3>1, <3>2
  <2>2. slot' \in [0 .. Slots - 1 -> WorkItem]
    BY <2>1
  <2>3. pc' \in {"idle", "reg", "mem", "load"}
    BY <1>8 DEF Fill, AfterCall, Call, CallerKinds
  <2>4. dwNewChannel' \in SUBSET Voices /\ dwChannelOn' \in SUBSET Voices
    BY <1>8 DEF Fill, StartAndEnd
  <2> QED BY <1>8, <2>2, <2>3, <2>4 DEF Fill
<1>9. CASE WriteRegister
  BY <1>9 DEF WriteRegister, ReverbState
<1>10. CASE CopySpuMemory
  BY <1>10 DEF CopySpuMemory
<1>11. CASE LoadState
  BY <1>11 DEF LoadState, ReverbState
<1>12. CASE Join
  BY <1>12 DEF Join
<1>13. CASE Take
  BY <1>13 DEF Take
<1>14. CASE DoChannelWork
  BY <1>14 DEF DoChannelWork, WorkItem
<1>15. CASE CountDone
  BY <1>15 DEF CountDone
<1>16. CASE PostDone
  BY <1>16 DEF PostDone
<1>17. CASE ToggleThread
  BY <1>17 DEF ToggleThread
<1>18. CASE BeginExit
  BY <1>18 DEF BeginExit
<1>19. CASE Closed \/ UNCHANGED vars
  <2>1. UNCHANGED vars
    BY <1>19 DEF Closed
  <2> QED BY <2>1 DEF vars
<1> HIDE DEF IInv, TypeOK, Counting, One, WorkerBusy, Call, ringVars, spuVars
<1> QED
  BY <1>1, <1>2, <1>3, <1>4, <1>5, <1>6, <1>7, <1>8, <1>9, <1>10, <1>11, <1>12, <1>13, <1>14, <1>15, <1>16, <1>17, <1>18, <1>19
     DEF Next, Caller, InCall, Worker

(* The three counters are ordered and at most Slots apart. *)
RingOrdered ==
  /\ i_reaped \in Nat /\ i_done \in Nat /\ i_ready \in Nat
  /\ i_reaped <= i_done /\ i_done <= i_ready
  /\ i_ready <= i_reaped + Slots
  /\ pc = "finish" => i_reaped < i_done
  /\ WorkerBusy => i_done < i_ready
  /\ pc \in {"mix", "direct", "fill"} => i_ready < i_reaped + Slots

LEMMA RingOrder == IInv => RingOrdered
BY SlotsAssumption
   DEF RingOrdered, IInv, TypeOK, Counting, Capacity, One, WorkerBusy

(* The semaphores keep counting the items. *)
LEMMA CountingStep == IInv /\ [Next]_vars => Counting'
<1> SUFFICES ASSUME IInv, [Next]_vars PROVE Counting'
  OBVIOUS
<1> USE SlotsAssumption DEF IInv, TypeOK, Counting, One, WorkerBusy, CallerKinds, Call, ringVars, spuVars
<1>1. ASSUME NEW caller \in Callers, NEW diff \in {"short", "enough", "desync"},
             BeginCall(caller, diff)
      PROVE  Counting'
  BY <1>1, CallersAssumption DEF BeginCall, Skips, AfterCall
<1>2. CASE SyncTest
  BY <1>2 DEF SyncTest, MustReap
<1>3. CASE SyncWait
  BY <1>3 DEF SyncWait, MustReap
<1>4. CASE Finish
  BY <1>4 DEF Finish
<1>5. CASE NothingToMix
  BY <1>5 DEF NothingToMix, AfterCall
<1>6. CASE ReverbPrep
  BY <1>6 DEF ReverbPrep
<1>7. CASE MixDirect
  BY <1>7 DEF MixDirect, AfterCall
<1>8. CASE Fill
  BY <1>8 DEF Fill, AfterCall
<1>9. CASE WriteRegister
  BY <1>9 DEF WriteRegister
<1>10. CASE CopySpuMemory
  BY <1>10 DEF CopySpuMemory
<1>11. CASE LoadState
  BY <1>11 DEF LoadState
<1>12. CASE Join
  BY <1>12 DEF Join
<1>13. CASE Take
  BY <1>13 DEF Take
<1>14. CASE DoChannelWork
  BY <1>14 DEF DoChannelWork
<1>15. CASE CountDone
  BY <1>15 DEF CountDone
<1>16. CASE PostDone
  BY <1>16 DEF PostDone
<1>17. CASE ToggleThread
  BY <1>17 DEF ToggleThread
<1>18. CASE BeginExit
  BY <1>18 DEF BeginExit
<1>19. CASE Closed \/ UNCHANGED vars
  <2>1. UNCHANGED vars
    BY <1>19 DEF Closed
  <2> QED BY <2>1 DEF vars
<1> QED
  BY <1>1, <1>2, <1>3, <1>4, <1>5, <1>6, <1>7, <1>8, <1>9, <1>10, <1>11, <1>12, <1>13, <1>14, <1>15, <1>16, <1>17, <1>18, <1>19
     DEF Next, Caller, InCall, Worker

(* The ring never holds more than its slots, and fewer when one is filled. *)
LEMMA CapacityStep == IInv /\ [Next]_vars => Capacity'
<1> SUFFICES ASSUME IInv, [Next]_vars PROVE Capacity'
  OBVIOUS
<1> USE SlotsAssumption DEF IInv, TypeOK, Counting, One, WorkerBusy, Capacity, CallerKinds, Call, ringVars, spuVars
<1>1. ASSUME NEW caller \in Callers, NEW diff \in {"short", "enough", "desync"},
             BeginCall(caller, diff)
      PROVE  Capacity'
  BY <1>1, CallersAssumption DEF BeginCall, Skips, AfterCall
<1>2. CASE SyncTest
  BY <1>2 DEF SyncTest, MustReap
<1>3. CASE SyncWait
  BY <1>3 DEF SyncWait, MustReap
<1>4. CASE Finish
  BY <1>4 DEF Finish
<1>5. CASE NothingToMix
  BY <1>5 DEF NothingToMix, AfterCall
<1>6. CASE ReverbPrep
  BY <1>6 DEF ReverbPrep
<1>7. CASE MixDirect
  BY <1>7 DEF MixDirect, AfterCall
<1>8. CASE Fill
  BY <1>8 DEF Fill, AfterCall
<1>9. CASE WriteRegister
  BY <1>9 DEF WriteRegister
<1>10. CASE CopySpuMemory
  BY <1>10 DEF CopySpuMemory
<1>11. CASE LoadState
  BY <1>11 DEF LoadState
<1>12. CASE Join
  BY <1>12 DEF Join
<1>13. CASE Take
  BY <1>13 DEF Take
<1>14. CASE DoChannelWork
  BY <1>14 DEF DoChannelWork
<1>15. CASE CountDone
  BY <1>15 DEF CountDone
<1>16. CASE PostDone
  BY <1>16 DEF PostDone
<1>17. CASE ToggleThread
  BY <1>17 DEF ToggleThread
<1>18. CASE BeginExit
  BY <1>18 DEF BeginExit
<1>19. CASE Closed \/ UNCHANGED vars
  <2>1. UNCHANGED vars
    BY <1>19 DEF Closed
  <2> QED BY <2>1 DEF vars
<1> QED
  BY <1>1, <1>2, <1>3, <1>4, <1>5, <1>6, <1>7, <1>8, <1>9, <1>10, <1>11, <1>12, <1>13, <1>14, <1>15, <1>16, <1>17, <1>18, <1>19
     DEF Next, Caller, InCall, Worker

(* A forced call keeps the ring empty until it has mixed. *)
LEMMA ForcedStep == IInv /\ [Next]_vars => Forced'
<1> SUFFICES ASSUME IInv, [Next]_vars PROVE Forced'
  OBVIOUS
<1> USE SlotsAssumption DEF IInv, TypeOK, Counting, One, WorkerBusy, Capacity, Forced, CallerKinds, Call, ringVars, spuVars
<1>1. ASSUME NEW caller \in Callers, NEW diff \in {"short", "enough", "desync"},
             BeginCall(caller, diff)
      PROVE  Forced'
  BY <1>1, CallersAssumption DEF BeginCall, Skips, AfterCall, DoDirect, ForceSync
<1>2. CASE SyncTest
  BY <1>2 DEF SyncTest, MustReap
<1>3. CASE SyncWait
  BY <1>3 DEF SyncWait, MustReap
<1>4. CASE Finish
  BY <1>4 DEF Finish
<1>5. CASE NothingToMix
  BY <1>5 DEF NothingToMix, AfterCall
<1>6. CASE ReverbPrep
  BY <1>6 DEF ReverbPrep
<1>7. CASE MixDirect
  BY <1>7 DEF MixDirect, AfterCall
<1>8. CASE Fill
  BY <1>8 DEF Fill, AfterCall
<1>9. CASE WriteRegister
  BY <1>9 DEF WriteRegister
<1>10. CASE CopySpuMemory
  BY <1>10 DEF CopySpuMemory
<1>11. CASE LoadState
  BY <1>11 DEF LoadState
<1>12. CASE Join
  BY <1>12 DEF Join
<1>13. CASE Take
  BY <1>13 DEF Take
<1>14. CASE DoChannelWork
  BY <1>14 DEF DoChannelWork
<1>15. CASE CountDone
  BY <1>15 DEF CountDone
<1>16. CASE PostDone
  BY <1>16 DEF PostDone
<1>17. CASE ToggleThread
  BY <1>17 DEF ToggleThread
<1>18. CASE BeginExit
  BY <1>18 DEF BeginExit
<1>19. CASE Closed \/ UNCHANGED vars
  <2>1. UNCHANGED vars
    BY <1>19 DEF Closed
  <2> QED BY <2>1 DEF vars
<1> QED
  BY <1>1, <1>2, <1>3, <1>4, <1>5, <1>6, <1>7, <1>8, <1>9, <1>10, <1>11, <1>12, <1>13, <1>14, <1>15, <1>16, <1>17, <1>18, <1>19
     DEF Next, Caller, InCall, Worker

(* The items between i_reaped and i_done stay mixed. *)
LEMMA MixedStep == IInv /\ [Next]_vars => Mixed'
<1> SUFFICES ASSUME IInv, [Next]_vars PROVE Mixed'
  OBVIOUS
<1>0. RingOrdered
  BY RingOrder
<1> USE SlotsAssumption DEF IInv, TypeOK, Counting, One, WorkerBusy, Capacity, Mixed, CallerKinds, Call, ringVars, spuVars
<1>1. ASSUME NEW caller \in Callers, NEW diff \in {"short", "enough", "desync"},
             BeginCall(caller, diff)
      PROVE  Mixed'
  BY <1>1, CallersAssumption DEF BeginCall, Skips, AfterCall
<1>2. CASE SyncTest
  BY <1>2 DEF SyncTest, MustReap
<1>3. CASE SyncWait
  BY <1>3 DEF SyncWait, MustReap
<1>4. CASE Finish
  <2>1. i_reaped < i_done /\ i_done <= i_ready /\ i_ready <= i_reaped + Slots
    BY <1>4, <1>0 DEF RingOrdered, Finish
  <2>2. ASSUME NEW i \in Nat, i_reaped < i, i < i_reaped + Slots
        PROVE  slot'[Slot(i)] = slot[Slot(i)]
    <3>1. Slot(i) # Slot(i_reaped)
      BY <2>2, SlotsOfWindow
    <3> QED BY <3>1, SlotInRange, <1>4 DEF Finish
  <2>3. ASSUME NEW i \in i_reaped' .. i_done' - 1
        PROVE  slot'[Slot(i)].mixed
    <3>0. i_reaped' = i_reaped + 1 /\ i_done' = i_done
      BY <1>4 DEF Finish
    <3>1. i \in Nat /\ i_reaped < i /\ i < i_done
      BY <3>0, <2>3
    <3>2. slot[Slot(i)].mixed
      BY <3>1
    <3> QED BY <2>1, <2>2, <3>1, <3>2
  <2>4. wpc' = "count" => slot'[Slot(i_done')].mixed
    <3>1. wpc = "count" => i_done < i_ready
      BY <1>0 DEF RingOrdered
    <3>2. wpc' = wpc /\ i_done' = i_done
      BY <1>4 DEF Finish
    <3>3. wpc = "count" => slot'[Slot(i_done)] = slot[Slot(i_done)]
      BY <2>1, <2>2, <3>1
    <3> QED BY <3>2, <3>3
  <2> QED BY <2>3, <2>4
<1>5. CASE NothingToMix
  BY <1>5 DEF NothingToMix, AfterCall
<1>6. CASE ReverbPrep
  BY <1>6 DEF ReverbPrep
<1>7. CASE MixDirect
  BY <1>7 DEF MixDirect, AfterCall
<1>8. CASE Fill
  <2>1. i_reaped <= i_done /\ i_done <= i_ready /\ i_ready < i_reaped + Slots
    BY <1>8, <1>0 DEF RingOrdered, Fill
  <2>2. ASSUME NEW i \in Nat, i_reaped <= i, i < i_ready
        PROVE  slot'[Slot(i)] = slot[Slot(i)]
    <3>1. Slot(i) # Slot(i_ready)
      BY <2>1, <2>2, SlotsOfWindow
    <3> QED BY <3>1, SlotInRange, <1>8 DEF Fill
  <2>3. \A i \in i_reaped' .. i_done' - 1 : slot'[Slot(i)].mixed
    BY <2>1, <2>2, <1>8 DEF Fill
  <2>4. wpc' = "count" => slot'[Slot(i_done')].mixed
    BY <2>1, <2>2, <1>8 DEF Fill
  <2> QED BY <2>3, <2>4
<1>9. CASE WriteRegister
  BY <1>9 DEF WriteRegister
<1>10. CASE CopySpuMemory
  BY <1>10 DEF CopySpuMemory
<1>11. CASE LoadState
  BY <1>11 DEF LoadState
<1>12. CASE Join
  BY <1>12 DEF Join
<1>13. CASE Take
  BY <1>13 DEF Take
<1>14. CASE DoChannelWork
  <2>1. Slot(i_done) \in 0 .. Slots - 1
    BY SlotInRange
  <2>2. slot'[Slot(i_done)].mixed
    BY <2>1, <1>14 DEF DoChannelWork, WorkItem
  <2>3. ASSUME NEW i \in i_reaped .. i_done - 1
        PROVE  slot'[Slot(i)].mixed
    <3>1. i \in Nat /\ slot[Slot(i)].mixed
      BY <2>3
    <3>2. CASE Slot(i) = Slot(i_done)
      BY <2>2, <3>2
    <3>3. CASE Slot(i) # Slot(i_done)
      <4>1. slot'[Slot(i)] = slot[Slot(i)]
        BY <3>1, <3>3, SlotInRange, <1>14 DEF DoChannelWork
      <4> QED BY <3>1, <4>1
    <3> QED BY <3>2, <3>3
  <2> QED BY <2>2, <2>3, <1>14 DEF DoChannelWork
<1>15. CASE CountDone
  BY <1>15 DEF CountDone
<1>16. CASE PostDone
  BY <1>16 DEF PostDone
<1>17. CASE ToggleThread
  BY <1>17 DEF ToggleThread
<1>18. CASE BeginExit
  BY <1>18 DEF BeginExit
<1>19. CASE Closed \/ UNCHANGED vars
  <2>1. UNCHANGED vars
    BY <1>19 DEF Closed
  <2> QED BY <2>1 DEF vars
<1> QED
  BY <1>1, <1>2, <1>3, <1>4, <1>5, <1>6, <1>7, <1>8, <1>9, <1>10, <1>11, <1>12, <1>13, <1>14, <1>15, <1>16, <1>17, <1>18, <1>19
     DEF Next, Caller, InCall, Worker

(* Items with a reverb address exist only while StartAddr is set. *)
LEMMA ReverbStep == IInv /\ [Next]_vars => Reverb'
<1> SUFFICES ASSUME IInv, [Next]_vars PROVE Reverb'
  OBVIOUS
<1>0. RingOrdered
  BY RingOrder
<1> USE SlotsAssumption DEF IInv, TypeOK, Counting, One, WorkerBusy, Capacity, Forced, Reverb, CallerKinds, Call, ReverbState, ringVars, spuVars
<1>1. ASSUME NEW caller \in Callers, NEW diff \in {"short", "enough", "desync"},
             BeginCall(caller, diff)
      PROVE  Reverb'
  BY <1>1, CallersAssumption DEF BeginCall, Skips, AfterCall, ForceSync
<1>2. CASE SyncTest
  BY <1>2 DEF SyncTest, MustReap
<1>3. CASE SyncWait
  BY <1>3 DEF SyncWait, MustReap
<1>4. CASE Finish
  <2>1. i_reaped < i_ready /\ i_ready <= i_reaped + Slots
    BY <1>4, <1>0 DEF RingOrdered, Finish
  <2>2. ASSUME NEW i \in Nat, i_reaped < i, i < i_reaped + Slots
        PROVE  slot'[Slot(i)] = slot[Slot(i)]
    <3>1. Slot(i) # Slot(i_reaped)
      BY <2>2, SlotsOfWindow
    <3> QED BY <3>1, SlotInRange, <1>4 DEF Finish
  <2>3. \A i \in i_reaped' .. i_ready' - 1 : slot'[Slot(i)].rvb_addr => rvb'.StartAddr
    BY <2>1, <2>2, <1>4 DEF Finish
  <2> QED BY <2>3, <1>4 DEF Finish
<1>5. CASE NothingToMix
  <2>1. pc' \in {"idle", "reg", "mem", "load"}
    BY <1>5 DEF NothingToMix, AfterCall
  <2>2. \A i \in i_reaped' .. i_ready' - 1 : slot'[Slot(i)].rvb_addr => rvb'.StartAddr
    BY <1>5 DEF NothingToMix
  <2> QED BY <2>1, <2>2
<1>6. CASE ReverbPrep
  <2>1. CASE rvb.dirty /\ rvb.StartAddr
    <3>1. i_reaped = i_ready
      BY <2>1, <1>6 DEF ReverbPrep
    <3> QED BY <3>1, <1>6 DEF ReverbPrep
  <2>2. CASE ~(rvb.dirty /\ rvb.StartAddr)
    <3>1. rvb.StartAddr => rvb'.StartAddr
      BY <2>2, <1>6 DEF ReverbPrep
    <3>2. \A i \in i_reaped' .. i_ready' - 1 : slot'[Slot(i)].rvb_addr => rvb'.StartAddr
      BY <3>1, <1>6 DEF ReverbPrep
    <3> QED BY <3>2, <1>6 DEF ReverbPrep
  <2> QED BY <2>1, <2>2
<1>7. CASE MixDirect
  BY <1>7 DEF MixDirect, AfterCall
<1>8. CASE Fill
  <2>1. i_ready < i_reaped + Slots
    BY <1>8, <1>0 DEF RingOrdered, Fill
  <2>2. ASSUME NEW i \in Nat, i_reaped <= i, i < i_ready
        PROVE  slot'[Slot(i)] = slot[Slot(i)]
    <3>1. Slot(i) # Slot(i_ready)
      BY <2>1, <2>2, SlotsOfWindow
    <3> QED BY <3>1, SlotInRange, <1>8 DEF Fill
  <2>3. slot'[Slot(i_ready)].rvb_addr = rvb.StartAddr
    BY SlotInRange, <1>8 DEF Fill
  <2>4. \A i \in i_reaped' .. i_ready' - 1 : slot'[Slot(i)].rvb_addr => rvb'.StartAddr
    BY <2>1, <2>2, <2>3, <1>8 DEF Fill
  <2>5. pc' \in {"idle", "reg", "mem", "load"}
    BY <1>8 DEF Fill, AfterCall
  <2> QED BY <2>4, <2>5
<1>9. CASE WriteRegister
  BY <1>9 DEF WriteRegister
<1>10. CASE CopySpuMemory
  BY <1>10 DEF CopySpuMemory
<1>11. CASE LoadState
  BY <1>11 DEF LoadState
<1>12. CASE Join
  BY <1>12 DEF Join
<1>13. CASE Take
  BY <1>13 DEF Take
<1>14. CASE DoChannelWork
  <2>1. ASSUME NEW i \in i_reaped .. i_ready - 1
        PROVE  slot'[Slot(i)].rvb_addr = slot[Slot(i)].rvb_addr
    BY SlotInRange, <1>14 DEF DoChannelWork, WorkItem
  <2> QED BY <2>1, <1>14 DEF DoChannelWork
<1>15. CASE CountDone
  BY <1>15 DEF CountDone
<1>16. CASE PostDone
  BY <1>16 DEF PostDone
<1>17. CASE ToggleThread
  BY <1>17 DEF ToggleThread
<1>18. CASE BeginExit
  BY <1>18 DEF BeginExit
<1>19. CASE Closed \/ UNCHANGED vars
  <2>1. UNCHANGED vars
    BY <1>19 DEF Closed
  <2> QED BY <2>1 DEF vars
<1> QED
  BY <1>1, <1>2, <1>3, <1>4, <1>5, <1>6, <1>7, <1>8, <1>9, <1>10, <1>11, <1>12, <1>13, <1>14, <1>15, <1>16, <1>17, <1>18, <1>19
     DEF Next, Caller, InCall, Worker

-----------------------------------------------------------------------------
LEMMA InitTypes == Init => TypeOK
<1>1. NoCall \in Call
  BY DEF NoCall, Call, CallerKinds
<1>2. EmptyItem \in WorkItem
  BY DEF EmptyItem, WorkItem
<1>3. [reg |-> FALSE, dirty |-> FALSE, StartAddr |-> FALSE] \in ReverbState
  BY DEF ReverbState
<1>4. ASSUME Init PROVE slot \in [0 .. Slots - 1 -> WorkItem]
  BY <1>2, <1>4 DEF Init
<1> SUFFICES ASSUME Init PROVE TypeOK
  OBVIOUS
<1>5. slot \in [0 .. Slots - 1 -> WorkItem]
  BY <1>4
<1>6. call \in Call /\ rvb \in ReverbState
  BY <1>1, <1>3 DEF Init
<1> QED
  BY <1>5, <1>6 DEF Init, TypeOK

(* Every variable keeps its type. *)
THEOREM TypeCorrect == Spec => []TypeOK
BY InitTypes, TypeStep, PTL DEF Spec

(* The counting of items and semaphores, and what it implies for the slots, *)
(* holds in every reachable state, for every number of slots and voices and *)
(* every choice of callers.                                                *)
THEOREM RingInvariant == Spec => []IInv
<1>1. Init => IInv
  <2>2. Init => Counting /\ Capacity /\ Mixed /\ Forced /\ Reverb
    BY SlotsAssumption DEF Init, Counting, One, WorkerBusy, Capacity, Mixed, Forced, Reverb, NoCall
  <2> QED BY <2>2, InitTypes DEF IInv
<1>2. IInv /\ [Next]_vars => IInv'
  BY TypeStep, CountingStep, CapacityStep, ForcedStep, MixedStep, ReverbStep DEF IInv
<1> QED
  BY <1>1, <1>2, PTL DEF Spec

(* The emulator thread and the worker never use the same slot. *)
THEOREM SlotSafety == Spec => []NoSlotClash
<1>1. IInv => NoSlotClash
  <2> SUFFICES ASSUME IInv, WorkerBusy
               PROVE  /\ pc = "fill" => Slot(i_ready) # Slot(i_done)
                      /\ pc = "finish" => Slot(i_reaped) # Slot(i_done)
    BY DEF NoSlotClash
  <2>1. i_reaped <= i_done /\ i_done < i_ready /\ i_ready <= i_reaped + Slots
    BY RingOrder DEF RingOrdered
  <2>2. i_reaped \in Nat /\ i_done \in Nat /\ i_ready \in Nat /\ Slots \in Nat
    BY SlotsAssumption DEF IInv, TypeOK
  <2>3. CASE pc = "fill"
    <3>1. i_ready < i_reaped + Slots
      BY <2>3, RingOrder DEF RingOrdered
    <3> QED BY <2>1, <2>2, <2>3, <3>1, SlotsOfWindow
  <2>4. CASE pc = "finish"
    <3>1. i_reaped < i_done /\ i_done < i_reaped + Slots
      BY <2>1, <2>2, <2>4, RingOrder DEF RingOrdered
    <3>2. Slot(i_reaped) # Slot(i_done)
      BY <2>2, <3>1, SlotInjective
    <3> QED BY <2>4, <3>2
  <2> QED BY <2>3, <2>4
<1> QED
  BY <1>1, RingInvariant, PTL

(* The output never receives a half mixed item. *)
THEOREM MixedSafety == Spec => []PlaysMixedItems
<1> USE SlotsAssumption DEF IInv, TypeOK, Counting, One, WorkerBusy, InFlight
<1>1. IInv => PlaysMixedItems
  BY RingOrder DEF RingOrdered, Mixed, PlaysMixedItems
<1> QED
  BY <1>1, RingInvariant, PTL

(* A thread that mixes by itself, recomputes the reverb or copies SPU      *)
(* memory does so alone.                                                   *)
THEOREM ExclusionSafety == Spec => []MixesAlone
<1> USE SlotsAssumption DEF IInv, TypeOK, Counting, One, WorkerBusy, InFlight
<1>2. IInv => DirectAlone
  BY DEF Forced, DirectAlone
<1>3. IInv => ReverbPrepAlone
  BY DEF Forced, Reverb, ReverbPrepAlone, ReverbState, Call
<1>4. IInv => SpuMemoryAlone
  BY DEF Forced, SpuMemoryAlone
<1>5. IInv => MixesAlone
  BY <1>2, <1>3, <1>4 DEF MixesAlone
<1> QED
  BY <1>5, RingInvariant, PTL

-----------------------------------------------------------------------------
(* The refinement: the ring is the queue of SpuQueue.                      *)

(* The option is changed between calls only, so the choice made in a call  *)
(* still agrees with it: only a forced call, or one made with the option   *)
(* off, mixes directly.                                                    *)
Threaded ==
  /\ pc = "direct" => call.do_direct \/ ~iUseThread
  /\ pc = "fill" => iUseThread

LEMMA ThreadedStep == TypeOK /\ Threaded /\ [Next]_vars => Threaded'
<1> SUFFICES ASSUME TypeOK, Threaded, [Next]_vars PROVE Threaded'
  OBVIOUS
<1> USE DEF Threaded, ringVars, spuVars
<1>1. ASSUME NEW caller \in Callers, NEW diff \in {"short", "enough", "desync"},
             BeginCall(caller, diff)
      PROVE  Threaded'
  BY <1>1, CallersAssumption DEF BeginCall, Skips, AfterCall, CallerKinds
<1>2. CASE InCall
  <2>1. CASE SyncTest \/ SyncWait \/ Finish
    BY <2>1 DEF SyncTest, SyncWait, Finish
  <2>2. CASE NothingToMix \/ MixDirect \/ Fill
    <3>1. AfterCall(call) \in {"idle", "reg", "mem", "load"}
      BY DEF TypeOK, Call, CallerKinds, AfterCall
    <3> QED BY <2>2, <3>1 DEF NothingToMix, MixDirect, Fill
  <2>3. CASE ReverbPrep
    BY <2>3 DEF ReverbPrep
  <2>4. CASE WriteRegister \/ CopySpuMemory \/ LoadState \/ Join
    BY <2>4 DEF WriteRegister, CopySpuMemory, LoadState, Join
  <2> QED BY <1>2, <2>1, <2>2, <2>3, <2>4 DEF InCall
<1>3. CASE Worker
  BY <1>3 DEF Worker, Take, DoChannelWork, CountDone, PostDone
<1>4. CASE ToggleThread
  BY <1>4 DEF ToggleThread
<1>5. CASE BeginExit
  BY <1>5 DEF BeginExit
<1>6. CASE Closed \/ UNCHANGED vars
  BY <1>6 DEF Closed, vars
<1> QED
  BY <1>1, <1>2, <1>3, <1>4, <1>5, <1>6 DEF Next, Caller

(* What is owed is a sequence of updates, one for each filled slot. *)
LEMMA OwedSequence ==
  IInv => Owed \in Seq(Nat) /\ Len(Owed) = i_ready - i_reaped
<1> SUFFICES ASSUME IInv PROVE Owed \in Seq(Nat) /\ Len(Owed) = i_ready - i_reaped
  OBVIOUS
<1> DEFINE n == i_ready - i_reaped
<1>1. n \in Nat
  BY RingOrder DEF RingOrdered
<1>2. ASSUME NEW k \in 1 .. n
      PROVE  slot[Slot(i_reaped + k - 1)].decode_pos \in Nat
  <2>1. i_reaped + k - 1 \in Nat
    BY RingOrder DEF RingOrdered
  <2>2. slot[Slot(i_reaped + k - 1)] \in WorkItem
    BY <2>1, SlotInRange DEF IInv, TypeOK
  <2> QED BY <2>2 DEF WorkItem
<1>3. Owed \in [1 .. n -> Nat]
  BY <1>2 DEF Owed
<1> QED
  BY <1>1, <1>3

(* A sequence is the function of its elements. *)
LEMMA SequenceAsFunction ==
  ASSUME NEW S, NEW s \in Seq(S)
  PROVE  s = [k \in 1 .. Len(s) |-> s[k]]
BY LenProperties

(* Playing an item takes it off the front. *)
LEMMA FinishPlays == IInv /\ Finish => Queue!Play
<1> SUFFICES ASSUME IInv, Finish PROVE Queue!Play
  OBVIOUS
<1>1. i_reaped \in Nat /\ i_ready \in Nat /\ i_reaped < i_ready /\ i_ready <= i_reaped + Slots
  BY RingOrder DEF RingOrdered, Finish
<1>2. /\ i_reaped' = i_reaped + 1 /\ i_ready' = i_ready
      /\ decode_pos' = decode_pos /\ iUseThread' = iUseThread
  BY DEF Finish
<1>3. pS' = slot[Slot(i_reaped)].decode_pos
  BY DEF Finish, Emit
<1>4. ASSUME NEW i \in Nat, i_reaped < i, i < i_ready
      PROVE  slot'[Slot(i)] = slot[Slot(i)]
  <2>1. Slot(i) # Slot(i_reaped)
    BY <1>1, <1>4, SlotInjective, SlotsAssumption
  <2> QED BY <2>1, SlotInRange DEF Finish, IInv, TypeOK
<1>5. Len(Owed) = i_ready - i_reaped /\ Owed \in Seq(Nat)
  BY OwedSequence
<1>6. Owed # <<>>
  BY <1>1, <1>5
<1>7. pS' = Head(Owed)
  <2>1. Head(Owed) = Owed[1]
    BY <1>5, <1>6
  <2>2. Owed[1] = slot[Slot(i_reaped)].decode_pos
    BY <1>1 DEF Owed
  <2> QED BY <2>1, <2>2, <1>3
<1>8. Owed' = Tail(Owed)
  <2> DEFINE m == i_ready - (i_reaped + 1)
  <2>1. m \in Nat
    BY <1>1
  <2>2. Owed' = [k \in 1 .. m |-> slot'[Slot(i_reaped + 1 + k - 1)].decode_pos]
    BY <1>2 DEF Owed
  <2>3. ASSUME NEW k \in 1 .. m
        PROVE  slot'[Slot(i_reaped + 1 + k - 1)].decode_pos = Owed[k + 1]
    <3>1. i_reaped + 1 + k - 1 \in Nat /\ i_reaped < i_reaped + 1 + k - 1
            /\ i_reaped + 1 + k - 1 < i_ready
      BY <1>1
    <3>2. slot'[Slot(i_reaped + 1 + k - 1)] = slot[Slot(i_reaped + 1 + k - 1)]
      BY <1>4, <3>1
    <3>3. k + 1 \in 1 .. i_ready - i_reaped /\ i_reaped + (k + 1) - 1 = i_reaped + 1 + k - 1
      BY <1>1
    <3>4. Owed[k + 1] = slot[Slot(i_reaped + (k + 1) - 1)].decode_pos
      BY <3>3 DEF Owed
    <3> QED BY <3>2, <3>3, <3>4
  <2>4. Tail(Owed) = [k \in 1 .. m |-> Owed[k + 1]]
    <3>1. Len(Owed) - 1 = m
      BY <1>1, <1>5
    <3>2. Tail(Owed) \in Seq(Nat) /\ Len(Tail(Owed)) = m
      BY <1>5, <1>6, <3>1
    <3>3. \A k \in 1 .. m : Tail(Owed)[k] = Owed[k + 1]
      BY <1>5, <1>6, <3>1
    <3>4. Tail(Owed) = [k \in 1 .. m |-> Tail(Owed)[k]]
      BY <3>2, SequenceAsFunction
    <3> QED BY <3>3, <3>4
  <2> QED BY <2>2, <2>3, <2>4
<1> QED
  BY <1>2, <1>6, <1>7, <1>8 DEF Queue!Play

(* Filling an item appends it. *)
LEMMA FillRequests == IInv /\ Threaded /\ Fill => Queue!Request
<1> SUFFICES ASSUME IInv, Threaded, Fill PROVE Queue!Request
  OBVIOUS
<1>1. i_reaped \in Nat /\ i_ready \in Nat /\ i_reaped <= i_ready /\ i_ready < i_reaped + Slots
  BY RingOrder DEF RingOrdered, Fill
<1>2. i_reaped' = i_reaped /\ i_ready' = i_ready + 1
        /\ decode_pos' = decode_pos + 1 /\ pS' = pS
        /\ iUseThread /\ iUseThread' = iUseThread
  BY DEF Fill, Threaded
<1>3. slot'[Slot(i_ready)].decode_pos = decode_pos + 1
  BY SlotInRange, <1>1 DEF Fill, IInv, TypeOK
<1>4. ASSUME NEW i \in Nat, i_reaped <= i, i < i_ready
      PROVE  slot'[Slot(i)] = slot[Slot(i)]
  <2>1. Slot(i) # Slot(i_ready)
    BY <1>1, <1>4, SlotInjective, SlotsAssumption
  <2> QED BY <2>1, SlotInRange DEF Fill, IInv, TypeOK
<1>5. Len(Owed) = i_ready - i_reaped /\ Owed \in Seq(Nat)
  BY OwedSequence
<1>6. Len(Owed) < Slots
  BY <1>1, <1>5, SlotsAssumption
<1>7. Owed' = Append(Owed, decode_pos + 1)
  <2> DEFINE m == i_ready + 1 - i_reaped
  <2>1. m \in Nat /\ m = Len(Owed) + 1
    BY <1>1, <1>5
  <2>2. Owed' = [k \in 1 .. m |-> slot'[Slot(i_reaped + k - 1)].decode_pos]
    <3>1. i_ready' - i_reaped' = m /\ i_reaped' = i_reaped
      BY <1>1, <1>2
    <3>2. Owed' = [k \in 1 .. i_ready' - i_reaped' |->
                     slot'[Slot(i_reaped' + k - 1)].decode_pos]
      BY DEF Owed
    <3> QED BY <3>1, <3>2
  <2>3. ASSUME NEW k \in 1 .. m
        PROVE  slot'[Slot(i_reaped + k - 1)].decode_pos
                 = IF k = m THEN decode_pos + 1 ELSE Owed[k]
    <3>1. CASE k = m
      <4>1. i_reaped + k - 1 = i_ready
        BY <3>1, <1>1
      <4> QED BY <3>1, <4>1, <1>3
    <3>2. CASE k # m
      <4>1. k \in 1 .. i_ready - i_reaped /\ i_reaped + k - 1 \in Nat
              /\ i_reaped <= i_reaped + k - 1 /\ i_reaped + k - 1 < i_ready
        BY <3>2, <1>1
      <4>2. slot'[Slot(i_reaped + k - 1)] = slot[Slot(i_reaped + k - 1)]
        BY <4>1, <1>4
      <4>3. Owed[k] = slot[Slot(i_reaped + k - 1)].decode_pos
        BY <4>1 DEF Owed
      <4> QED BY <3>2, <4>2, <4>3
    <3> QED BY <3>1, <3>2
  <2>4. Append(Owed, decode_pos + 1)
          = [k \in 1 .. m |-> IF k = m THEN decode_pos + 1 ELSE Owed[k]]
    BY <1>5, <2>1
  <2> QED BY <2>2, <2>3, <2>4
<1> QED
  BY <1>2, <1>6, <1>7 DEF Queue!Request

(* Direct mixing happens with nothing owed, or with the option off. *)
LEMMA DirectPlays == IInv /\ Threaded /\ MixDirect => Queue!PlayDirect
<1> SUFFICES ASSUME IInv, Threaded, MixDirect PROVE Queue!PlayDirect
  OBVIOUS
<1>1. i_ready = i_reaped \/ ~iUseThread
  BY DEF IInv, Forced, Threaded, MixDirect
<1>2. Owed = <<>> \/ ~iUseThread
  BY <1>1, OwedSequence, RingOrder DEF RingOrdered
<1>3. /\ Owed' = Owed /\ decode_pos' = decode_pos + 1 /\ pS' = decode_pos + 1
      /\ iUseThread' = iUseThread
  BY DEF MixDirect, ringVars, Owed
<1> QED
  BY <1>2, <1>3 DEF Queue!PlayDirect

(* The worker's mixing leaves the updates the items stand for alone. *)
LEMMA WorkKeepsOwed == IInv /\ DoChannelWork => UNCHANGED <<iUseThread, decode_pos, Owed, pS>>
<1> SUFFICES ASSUME IInv, DoChannelWork PROVE UNCHANGED <<iUseThread, decode_pos, Owed, pS>>
  OBVIOUS
<1>1. ASSUME NEW k \in 1 .. i_ready - i_reaped
      PROVE  slot'[Slot(i_reaped + k - 1)].decode_pos
               = slot[Slot(i_reaped + k - 1)].decode_pos
  <2>1. Slot(i_reaped + k - 1) \in 0 .. Slots - 1
    BY RingOrder, SlotInRange DEF RingOrdered
  <2>2. slot \in [0 .. Slots - 1 -> WorkItem]
    BY DEF IInv, TypeOK
  <2> QED BY <2>1, <2>2 DEF DoChannelWork, WorkItem
<1>2. UNCHANGED <<iUseThread, decode_pos, pS, i_ready, i_reaped>>
  BY DEF DoChannelWork
<1> QED
  BY <1>1, <1>2 DEF Owed

(* Every update asked for is played once, no more than Slots of them are   *)
(* owed, and with the "Threaded SPU" option on they keep their order: the  *)
(* threaded mixer implements SpuQueue.                                     *)
THEOREM QueueImplemented == Spec => QueueSpec
<1>1. Init => Threaded
  BY DEF Init, Threaded
<1>2. Init => Queue!Init
  BY DEF Init, Queue!Init, Owed
<1>3. IInv /\ Threaded /\ [Next]_vars => [Queue!Next]_<<iUseThread, decode_pos, Owed, pS>>
  <2> SUFFICES ASSUME IInv, Threaded, [Next]_vars
               PROVE  Queue!Next \/ UNCHANGED <<iUseThread, decode_pos, Owed, pS>>
    OBVIOUS
  <2> USE DEF ringVars, spuVars
  <2>1. CASE Caller
    BY <2>1 DEF Caller, BeginCall, Owed
  <2>2. CASE Finish
    BY <2>2, FinishPlays DEF Queue!Next
  <2>3. CASE Fill
    BY <2>3, FillRequests DEF Queue!Next
  <2>4. CASE MixDirect
    BY <2>4, DirectPlays DEF Queue!Next
  <2>5. CASE DoChannelWork
    BY <2>5, WorkKeepsOwed
  <2>6. CASE SyncTest \/ SyncWait \/ NothingToMix \/ ReverbPrep \/ WriteRegister
             \/ CopySpuMemory \/ LoadState \/ Join
    BY <2>6 DEF SyncTest, SyncWait, NothingToMix, ReverbPrep, WriteRegister,
       CopySpuMemory, LoadState, Join, Owed
  <2>7. CASE Take \/ CountDone \/ PostDone
    BY <2>7 DEF Take, CountDone, PostDone, Owed
  <2>9. CASE ToggleThread
    BY <2>9 DEF ToggleThread, Owed, Queue!Next, Queue!Toggle
  <2>8. CASE BeginExit \/ Closed \/ UNCHANGED vars
    BY <2>8 DEF BeginExit, Closed, vars, Owed
  <2> QED
    BY <2>1, <2>2, <2>3, <2>4, <2>5, <2>6, <2>7, <2>8, <2>9 DEF Next, InCall, Worker
<1> QED
  BY <1>1, <1>2, <1>3, ThreadedStep, TypeCorrect, RingInvariant, PTL
     DEF Spec, QueueSpec, Queue!Spec, Queue!qvars

-----------------------------------------------------------------------------
(* Iteration: a step taken n times.                                         *)

LEMMA Smallest ==
  ASSUME NEW S \in SUBSET Nat, S # {}
  PROVE  \E n \in S : \A k \in S : n <= k
<1> DEFINE R == {ss \in Nat \X Nat : ss[1] < ss[2]}
<1>1. IsWellFoundedOn(R, Nat)
  BY NatLessThanWellFounded DEF OpToRel
<1>2. PICK n \in S : \A k \in S : <<k, n>> \notin R
  <2> HIDE DEF R
  <2> QED BY <1>1, WFMin
<1>3. ASSUME NEW k \in S, ~(n <= k) PROVE FALSE
  <2>1. k \in Nat /\ n \in Nat /\ k < n
    BY <1>3
  <2>2. <<k, n>> \in R
    BY <2>1
  <2> QED BY <1>2, <2>2
<1> QED BY <1>3

(* f is the first n steps of F from s. *)
Steps(n, S, F, s, f) ==
  f \in [0 .. n -> S] /\ f[0] = s /\ \A k \in 0 .. n - 1 : f[k + 1] = F[f[k]]

LEMMA StepOn ==
  ASSUME NEW S, NEW F \in [S -> S], NEW s \in S, NEW n \in Nat, NEW f, Steps(n, S, F, s, f)
  PROVE  \E g : Steps(n + 1, S, F, s, g)
<1> DEFINE g == [k \in 0 .. n + 1 |-> IF k <= n THEN f[k] ELSE F[f[n]]]
<1>1. f \in [0 .. n -> S] /\ f[0] = s /\ \A k \in 0 .. n - 1 : f[k + 1] = F[f[k]]
  BY DEF Steps
<1>2. f[n] \in S /\ F[f[n]] \in S
  BY <1>1
<1>3. g \in [0 .. n + 1 -> S]
  BY <1>1, <1>2
<1>4. g[0] = s
  BY <1>1
<1>5. ASSUME NEW k \in 0 .. n PROVE g[k + 1] = F[g[k]]
  <2>1. g[k] = f[k]
    OBVIOUS
  <2>2. CASE k = n
    BY <2>1, <2>2
  <2>3. CASE k # n
    <3>1. k \in 0 .. n - 1 /\ k + 1 \in 0 .. n
      BY <2>3
    <3>2. g[k + 1] = f[k + 1]
      BY <3>1
    <3> QED BY <1>1, <2>1, <3>1, <3>2
  <2> QED BY <2>2, <2>3
<1> HIDE DEF g
<1>6. Steps(n + 1, S, F, s, g)
  BY <1>3, <1>4, <1>5 DEF Steps
<1> QED BY <1>6

LEMMA Iterated ==
  ASSUME NEW S, NEW F \in [S -> S], NEW s \in S, NEW n \in Nat
  PROVE  \E f : Steps(n, S, F, s, f)
<1> DEFINE Without == {m \in Nat : ~ \E f : Steps(m, S, F, s, f)}
<1>1. ASSUME Without # {} PROVE FALSE
  <2>1. PICK m \in Without : \A k \in Without : m <= k
    BY <1>1, Smallest
  <2>2. CASE m = 0
    <3>1. Steps(0, S, F, s, [k \in 0 .. 0 |-> s])
      BY DEF Steps
    <3> QED BY <2>1, <2>2, <3>1
  <2>3. CASE m # 0
    <3>1. m - 1 \in Nat /\ m - 1 \notin Without
      BY <2>1, <2>3
    <3>2. PICK f : Steps(m - 1, S, F, s, f)
      BY <3>1
    <3>3. \E g : Steps((m - 1) + 1, S, F, s, g)
      BY <3>1, <3>2, StepOn
    <3>4. (m - 1) + 1 = m
      BY <3>1
    <3> QED BY <2>1, <3>3, <3>4
  <2> QED BY <2>2, <2>3
<1> QED BY <1>1

-----------------------------------------------------------------------------
(* The lists: packets that lead to packets, and nothing marked.             *)

Packets(n, W) == [to : 0 .. n, bit : BOOLEAN, words : W]
Lists(n, W) == {p \in [1 .. n -> Packets(n, W)] : \A i \in 1 .. n : p[i].bit = (p[i].to = End)}

(* With the packets of a set marked. *)
WithMarks(p, M) == [i \in DOMAIN p |-> [p[i] EXCEPT !.bit = @ \/ i \in M]]

(* What a walk goes through. *)
WalkStates(n, W) ==
  {s \in [heap : [1 .. n -> Packets(n, W)], addr : 0 .. n, bit : BOOLEAN,
          count : Nat, ld_addr : 0 .. n, sent : Seq(W)] :
     /\ \A i \in 1 .. n : s.heap[i].to = End => s.heap[i].bit
     /\ s.addr = End => s.bit}

Steady(s) == IF s.bit THEN s ELSE PastPacket(s)

LEMMA PastType ==
  ASSUME NEW n \in Nat, NEW W, NEW s \in WalkStates(n, W), ~s.bit
  PROVE  PastPacket(s) \in WalkStates(n, W)
<1>1. /\ s.heap \in [1 .. n -> Packets(n, W)] /\ s.addr \in 0 .. n /\ s.count \in Nat
      /\ s.ld_addr \in 0 .. n /\ s.sent \in Seq(W)
      /\ \A i \in 1 .. n : s.heap[i].to = End => s.heap[i].bit
      /\ s.addr = End => s.bit
  BY DEF WalkStates
<1> DEFINE packet == s.heap[s.addr]
           marked == [s.heap EXCEPT ![s.addr].bit = TRUE]
           heap1 == IF s.count > Threshold THEN marked ELSE s.heap
<1>2. s.addr \in 1 .. n
  BY <1>1 DEF End
<1>3. packet \in Packets(n, W)
  BY <1>1, <1>2
<1>4. packet.to \in 0 .. n /\ packet.bit \in BOOLEAN /\ packet.words \in W
      /\ (packet.to = End => packet.bit)
  BY <1>1, <1>2, <1>3 DEF Packets
<1>5. marked \in [1 .. n -> Packets(n, W)]
      /\ \A i \in 1 .. n : marked[i].to = End => marked[i].bit
  <2>1. [packet EXCEPT !.bit = TRUE] \in Packets(n, W)
    BY <1>3 DEF Packets
  <2>2. marked = [s.heap EXCEPT ![s.addr] = [packet EXCEPT !.bit = TRUE]]
    OBVIOUS
  <2>3. [packet EXCEPT !.bit = TRUE].bit
    BY <1>3 DEF Packets
  <2> QED BY <1>1, <1>2, <2>1, <2>2, <2>3
<1>6. heap1 \in [1 .. n -> Packets(n, W)] /\ \A i \in 1 .. n : heap1[i].to = End => heap1[i].bit
  BY <1>1, <1>5
<1>7. Append(s.sent, packet.words) \in Seq(W)
  BY <1>1, <1>4
<1> DEFINE t == PastPacket(s)
<1>8. t = [heap |-> heap1, addr |-> packet.to, bit |-> packet.bit, count |-> s.count + 1,
           ld_addr |-> IF s.count = Threshold THEN packet.to ELSE s.ld_addr,
           sent |-> Append(s.sent, packet.words)]
  BY DEF PastPacket
<1> HIDE DEF t, heap1, packet, marked
<1>9. t \in [heap : [1 .. n -> Packets(n, W)], addr : 0 .. n, bit : BOOLEAN,
             count : Nat, ld_addr : 0 .. n, sent : Seq(W)]
  BY <1>1, <1>4, <1>6, <1>7, <1>8
<1>10. t.heap = heap1 /\ t.addr = packet.to /\ t.bit = packet.bit
  BY <1>8
<1>11. t \in WalkStates(n, W)
  BY <1>4, <1>6, <1>9, <1>10 DEF WalkStates
<1> QED BY <1>11 DEF t

LEMMA HeadType ==
  ASSUME NEW n \in Nat, NEW W, NEW p \in Lists(n, W), NEW start \in 1 .. n
  PROVE  AtHead(p, start) \in WalkStates(n, W)
<1>1. p \in [1 .. n -> Packets(n, W)] /\ \A i \in 1 .. n : p[i].bit = (p[i].to = End)
  BY DEF Lists
<1>2. <<>> \in Seq(W)
  BY EmptySeq
<1> DEFINE t == AtHead(p, start)
<1>3. t = [heap |-> p, addr |-> start, bit |-> FALSE, count |-> 0, ld_addr |-> End, sent |-> <<>>]
  BY DEF AtHead
<1> HIDE DEF t
<1>4. t.heap = p /\ t.addr = start /\ start # End /\ start \in 0 .. n /\ End \in 0 .. n
  BY <1>3 DEF End
<1>5. t \in [heap : [1 .. n -> Packets(n, W)], addr : 0 .. n, bit : BOOLEAN,
            count : Nat, ld_addr : 0 .. n, sent : Seq(W)]
  BY <1>1, <1>2, <1>3, <1>4
<1>6. t \in WalkStates(n, W)
  BY <1>1, <1>4, <1>5 DEF WalkStates
<1> QED BY <1>6 DEF t

(* The walk, step by step. *)
IsWalk(w, p, start, n, W) ==
  /\ w \in [0 .. Threshold + n + 2 -> WalkStates(n, W)]
  /\ w[0] = AtHead(p, start)
  /\ \A k \in 0 .. Threshold + n + 1 : w[k + 1] = Steady(w[k])

WalkEquation(w, p, start) ==
  w = [n \in 0 .. Longest(p) |->
         IF n = 0 THEN AtHead(p, start)
         ELSE LET s == w[n - 1] IN IF s.bit THEN s ELSE PastPacket(s)]

LEMMA WalkChosen ==
  ASSUME NEW p, NEW start
  PROVE  Walk(p, start) = (CHOOSE w : WalkEquation(w, p, start))[Longest(p)]
BY DEF Walk, WalkEquation

LEMMA ListLength ==
  ASSUME NEW n \in Nat, NEW W, NEW p \in Lists(n, W)
  PROVE  Len(p) = n
<1>1. p \in [1 .. n -> Packets(n, W)]
  BY DEF Lists
<1> QED BY <1>1

LEMMA WalkExists ==
  ASSUME NEW n \in Nat, NEW W, NEW p \in Lists(n, W), NEW start \in 1 .. n
  PROVE  \E w : IsWalk(w, p, start, n, W) /\ Walk(p, start) = w[Threshold + n + 2]
<1> DEFINE S == WalkStates(n, W)
           F == [s \in S |-> Steady(s)]
           L == Threshold + n + 2
<1>1. L \in Nat /\ Longest(p) = L
  BY ChainAssumption, ListLength DEF Longest
<1>2. F \in [S -> S]
  BY PastType DEF Steady
<1>3. AtHead(p, start) \in S
  BY HeadType
<1>4. PICK f : Steps(L, S, F, AtHead(p, start), f)
  <2> HIDE DEF S, F, L
  <2> QED BY <1>1, <1>2, <1>3, Iterated
<1>5. /\ f \in [0 .. L -> S] /\ f[0] = AtHead(p, start)
      /\ \A k \in 0 .. L - 1 : f[k + 1] = Steady(f[k])
  <2>1. f \in [0 .. L -> S] /\ f[0] = AtHead(p, start) /\ \A k \in 0 .. L - 1 : f[k + 1] = F[f[k]]
    BY <1>4 DEF Steps
  <2>2. ASSUME NEW k \in 0 .. L - 1 PROVE f[k + 1] = Steady(f[k])
    <3>1. f[k] \in S
      BY <1>1, <2>1
    <3>2. F[f[k]] = Steady(f[k])
      BY <3>1
    <3> QED BY <2>1, <3>2
  <2> QED BY <2>1, <2>2
<1> DEFINE g == [k \in 0 .. L |-> IF k = 0 THEN AtHead(p, start)
                                  ELSE LET s == f[k - 1] IN IF s.bit THEN s ELSE PastPacket(s)]
<1>6. WalkEquation(f, p, start)
  <2>1. ASSUME NEW k \in 0 .. L PROVE f[k] = g[k]
    <3>1. CASE k = 0
      BY <1>5, <3>1
    <3>2. CASE k # 0
      <4>1. k - 1 \in 0 .. L - 1 /\ (k - 1) + 1 = k
        BY <1>1, <3>2
      <4>2. f[k] = Steady(f[k - 1])
        BY <1>5, <4>1
      <4> QED BY <3>2, <4>2 DEF Steady
    <3> QED BY <3>1, <3>2
  <2>2. f = g
    <3>1. f = [k \in 0 .. L |-> f[k]]
      BY <1>5
    <3> QED BY <2>1, <3>1
  <2> QED BY <1>1, <2>2 DEF WalkEquation
<1> DEFINE w == CHOOSE v : WalkEquation(v, p, start)
<1>7. WalkEquation(w, p, start)
  BY <1>6
<1>8. Walk(p, start) = w[L]
  BY <1>1, WalkChosen
<1> HIDE DEF w, g, F
<1>9. /\ w = [k \in 0 .. L |-> w[k]] /\ w[0] = AtHead(p, start)
      /\ \A k \in 0 .. L - 1 : w[k + 1] = Steady(w[k])
  <2>1. w = [k \in 0 .. L |-> IF k = 0 THEN AtHead(p, start)
                              ELSE LET s == w[k - 1] IN IF s.bit THEN s ELSE PastPacket(s)]
    BY <1>1, <1>7 DEF WalkEquation
  <2>2. w = [k \in 0 .. L |-> w[k]] /\ w[0] = AtHead(p, start)
    BY <1>1, <2>1
  <2>3. ASSUME NEW k \in 0 .. L - 1 PROVE w[k + 1] = Steady(w[k])
    <3>1. k + 1 \in 0 .. L /\ k + 1 # 0 /\ (k + 1) - 1 = k
      BY <1>1
    <3>2. w[k + 1] = LET s == w[(k + 1) - 1] IN IF s.bit THEN s ELSE PastPacket(s)
      BY <2>1, <3>1
    <3> QED BY <3>1, <3>2 DEF Steady
  <2> QED BY <2>2, <2>3
<1>10. ASSUME NEW k \in 0 .. L PROVE w[k] \in S
  <2> DEFINE Bad == {j \in 0 .. L : w[j] \notin S}
  <2>1. ASSUME Bad # {} PROVE FALSE
    <3>1. Bad \in SUBSET Nat
      OBVIOUS
    <3>2. PICK j \in Bad : \A i \in Bad : j <= i
      BY <2>1, <3>1, Smallest
    <3>3. j # 0
      BY <1>3, <1>9, <3>2
    <3>4. j - 1 \in 0 .. L - 1 /\ j - 1 \in 0 .. L /\ (j - 1) + 1 = j /\ j - 1 \notin Bad
      BY <1>1, <3>2, <3>3
    <3>5. w[j - 1] \in S
      BY <3>4
    <3>6. w[j] = Steady(w[j - 1])
      BY <1>9, <3>4
    <3>7. Steady(w[j - 1]) \in S
      BY <3>5, PastType DEF Steady
    <3> QED BY <3>2, <3>6, <3>7
  <2> QED BY <2>1
<1>11. IsWalk(w, p, start, n, W)
  <2>1. Threshold + n + 1 = L - 1
    BY ChainAssumption
  <2>2. w \in [0 .. L -> S]
    BY <1>9, <1>10
  <2> QED BY <1>9, <2>1, <2>2 DEF IsWalk
<1> QED BY <1>8, <1>11

(* As far as the walk has come: which packets are marked, and that every    *)
(* one led to the next.                                                     *)
Marks(w, from, to) == {w[k].addr : k \in from .. to}

WalkedTo(w, p, n, m) ==
  /\ \A k \in 0 .. m - 1 : w[k].addr \in 1 .. n /\ w[k + 1].addr = p[w[k].addr].to
  /\ w[m].count = m
  /\ w[m].heap = WithMarks(p, Marks(w, Threshold + 1, m - 1))
  /\ w[m].ld_addr = IF m > Threshold THEN w[Threshold + 1].addr ELSE End
  /\ m > 0 => (w[m].bit <=> \/ p[w[m - 1].addr].bit
                            \/ w[m - 1].addr \in Marks(w, Threshold + 1, m - 2))

LEMMA MarkedIs ==
  ASSUME NEW n \in Nat, NEW W, NEW p \in Lists(n, W), NEW M
  PROVE  /\ WithMarks(p, M) \in [1 .. n -> Packets(n, W)]
         /\ \A i \in 1 .. n : /\ WithMarks(p, M)[i].to = p[i].to
                              /\ WithMarks(p, M)[i].bit = (p[i].bit \/ i \in M)
                              /\ WithMarks(p, M)[i].words = p[i].words
<1>1. p \in [1 .. n -> Packets(n, W)] /\ DOMAIN p = 1 .. n
  BY DEF Lists
<1>2. ASSUME NEW i \in 1 .. n
      PROVE  /\ [p[i] EXCEPT !.bit = @ \/ i \in M] \in Packets(n, W)
             /\ [p[i] EXCEPT !.bit = @ \/ i \in M].to = p[i].to
             /\ [p[i] EXCEPT !.bit = @ \/ i \in M].bit = (p[i].bit \/ i \in M)
             /\ [p[i] EXCEPT !.bit = @ \/ i \in M].words = p[i].words
  <2>1. p[i] \in Packets(n, W)
    BY <1>1
  <2> QED BY <2>1 DEF Packets
<1> QED BY <1>1, <1>2 DEF WithMarks

(* Lists of packets are the same when their packets are. *)
LEMMA SameList ==
  ASSUME NEW n \in Nat, NEW W,
         NEW p \in [1 .. n -> Packets(n, W)], NEW q \in [1 .. n -> Packets(n, W)],
         \A i \in 1 .. n : p[i].to = q[i].to /\ p[i].bit = q[i].bit /\ p[i].words = q[i].words
  PROVE  p = q
<1>1. ASSUME NEW i \in 1 .. n PROVE p[i] = q[i]
  <2>1. p[i] \in Packets(n, W) /\ q[i] \in Packets(n, W)
    OBVIOUS
  <2>2. /\ p[i] = [to |-> p[i].to, bit |-> p[i].bit, words |-> p[i].words]
        /\ q[i] = [to |-> q[i].to, bit |-> q[i].bit, words |-> q[i].words]
    BY <2>1 DEF Packets
  <2> QED BY <2>2
<1>2. p = [i \in 1 .. n |-> p[i]] /\ q = [i \in 1 .. n |-> q[i]]
  OBVIOUS
<1> QED BY <1>1, <1>2

LEMMA NoMarks ==
  ASSUME NEW n \in Nat, NEW W, NEW p \in Lists(n, W)
  PROVE  WithMarks(p, {}) = p
<1>0. p \in [1 .. n -> Packets(n, W)]
  BY DEF Lists
<1> DEFINE q == WithMarks(p, {})
<1>1. q \in [1 .. n -> Packets(n, W)]
      /\ \A i \in 1 .. n : /\ q[i].to = p[i].to /\ q[i].words = p[i].words
                           /\ q[i].bit = (p[i].bit \/ i \in {})
  BY MarkedIs
<1> HIDE DEF q
<1>2. ASSUME NEW i \in 1 .. n PROVE q[i].bit = p[i].bit
  <2>1. p[i] \in Packets(n, W)
    BY <1>0
  <2>2. p[i].bit \in BOOLEAN
    BY <2>1 DEF Packets
  <2>3. q[i].bit = (p[i].bit \/ i \in {})
    BY <1>1
  <2> QED BY <2>2, <2>3
<1>3. \A i \in 1 .. n : q[i].to = p[i].to /\ q[i].bit = p[i].bit /\ q[i].words = p[i].words
  BY <1>1, <1>2
<1>4. q \in [1 .. n -> Packets(n, W)]
  BY <1>1
<1>5. q = p
  BY <1>0, <1>3, <1>4, SameList
<1> QED BY <1>5 DEF q

LEMMA WalkedStart ==
  ASSUME NEW n \in Nat, NEW W, NEW p \in Lists(n, W), NEW start \in 1 .. n,
         NEW w, IsWalk(w, p, start, n, W)
  PROVE  WalkedTo(w, p, n, 0)
<1>1. w[0] = [heap |-> p, addr |-> start, bit |-> FALSE, count |-> 0, ld_addr |-> End,
              sent |-> <<>>]
  BY DEF IsWalk, AtHead
<1>2. Marks(w, Threshold + 1, 0 - 1) = {}
  BY ChainAssumption DEF Marks
<1>4. WithMarks(p, {}) = p
  BY NoMarks
<1>5. w[0].heap = p /\ w[0].count = 0 /\ w[0].ld_addr = End
  BY <1>1
<1> QED BY <1>2, <1>4, <1>5, ChainAssumption DEF WalkedTo

LEMMA WalkedOn ==
  ASSUME NEW n \in Nat, NEW W, NEW p \in Lists(n, W), NEW start \in 1 .. n,
         NEW w, IsWalk(w, p, start, n, W),
         NEW m \in 0 .. Threshold + n + 1, ~w[m].bit, WalkedTo(w, p, n, m)
  PROVE  WalkedTo(w, p, n, m + 1)
<1> DEFINE a == w[m].addr
           T == Threshold + 1
<1>1. /\ \A k \in 0 .. m - 1 : w[k].addr \in 1 .. n /\ w[k + 1].addr = p[w[k].addr].to
      /\ w[m].count = m
      /\ w[m].heap = WithMarks(p, Marks(w, T, m - 1))
      /\ w[m].ld_addr = IF m > Threshold THEN w[T].addr ELSE End
  BY DEF WalkedTo
<1>2. Threshold \in Nat /\ m \in Nat
  BY ChainAssumption
<1>3. w[m] \in WalkStates(n, W)
  BY <1>2 DEF IsWalk
<1>4. a \in 1 .. n
  BY <1>3 DEF WalkStates, End
<1>5. w[m + 1] = PastPacket(w[m])
  BY DEF IsWalk, Steady
<1> DEFINE packet == w[m].heap[a]
<1>6. /\ w[m + 1].heap = IF m > Threshold THEN [w[m].heap EXCEPT ![a].bit = TRUE] ELSE w[m].heap
      /\ w[m + 1].addr = packet.to /\ w[m + 1].bit = packet.bit /\ w[m + 1].count = m + 1
      /\ w[m + 1].ld_addr = IF m = Threshold THEN packet.to ELSE w[m].ld_addr
  BY <1>1, <1>5 DEF PastPacket
<1>7. packet.to = p[a].to /\ packet.bit = (p[a].bit \/ a \in Marks(w, T, m - 1))
  BY <1>1, <1>4, MarkedIs
<1>8. ASSUME NEW k \in 0 .. m PROVE w[k].addr \in 1 .. n /\ w[k + 1].addr = p[w[k].addr].to
  <2>1. CASE k = m
    BY <1>4, <1>6, <1>7, <2>1
  <2>2. CASE k # m
    <3>1. k \in 0 .. m - 1
      BY <1>2, <2>2
    <3> QED BY <1>1, <3>1
  <2> QED BY <2>1, <2>2
<1>9. w[m + 1].heap = WithMarks(p, Marks(w, T, m))
  <2>1. CASE m > Threshold
    <3>1. Marks(w, T, m) = Marks(w, T, m - 1) \cup {a}
      <4>1. T .. m = (T .. m - 1) \cup {m}
        BY <1>2, <2>1
      <4> QED BY <4>1 DEF Marks
    <3> DEFINE h == [w[m].heap EXCEPT ![a].bit = TRUE]
    <3>2. w[m].heap \in [1 .. n -> Packets(n, W)]
      BY <1>1, MarkedIs
    <3>3. [packet EXCEPT !.bit = TRUE] \in Packets(n, W)
          /\ [packet EXCEPT !.bit = TRUE].to = packet.to
          /\ [packet EXCEPT !.bit = TRUE].bit = TRUE
          /\ [packet EXCEPT !.bit = TRUE].words = packet.words
      <4>1. packet \in Packets(n, W)
        BY <1>4, <3>2
      <4> QED BY <4>1 DEF Packets
    <3>4. h \in [1 .. n -> Packets(n, W)]
          /\ \A i \in 1 .. n : /\ h[i].to = w[m].heap[i].to /\ h[i].words = w[m].heap[i].words
                               /\ h[i].bit = (w[m].heap[i].bit \/ i = a)
      <4>1. h = [w[m].heap EXCEPT ![a] = [packet EXCEPT !.bit = TRUE]]
        OBVIOUS
      <4> HIDE DEF h, packet
      <4>2. h \in [1 .. n -> Packets(n, W)]
        BY <3>2, <3>3, <4>1
      <4>3. ASSUME NEW i \in 1 .. n
            PROVE  /\ h[i].to = w[m].heap[i].to /\ h[i].words = w[m].heap[i].words
                   /\ h[i].bit = (w[m].heap[i].bit \/ i = a)
        <5>1. CASE i = a
          BY <1>4, <3>2, <3>3, <4>1, <5>1 DEF packet
        <5>2. CASE i # a
          <6>1. h[i] = w[m].heap[i] /\ w[m].heap[i] \in Packets(n, W)
            BY <3>2, <4>1, <5>2
          <6>2. w[m].heap[i].bit \in BOOLEAN
            BY <6>1 DEF Packets
          <6> QED BY <5>2, <6>1, <6>2
        <5> QED BY <5>1, <5>2
      <4> QED BY <4>2, <4>3
    <3> HIDE DEF h
    <3>5. \A i \in 1 .. n : /\ h[i].to = p[i].to /\ h[i].words = p[i].words
                            /\ h[i].bit = (p[i].bit \/ i \in Marks(w, T, m))
      <4> DEFINE M0 == Marks(w, T, m - 1)
      <4>1. \A i \in 1 .. n : /\ WithMarks(p, M0)[i].to = p[i].to
                             /\ WithMarks(p, M0)[i].bit = (p[i].bit \/ i \in M0)
                             /\ WithMarks(p, M0)[i].words = p[i].words
        BY MarkedIs
      <4>2. w[m].heap = WithMarks(p, M0)
        BY <1>1
      <4>3. Marks(w, T, m) = M0 \cup {a}
        BY <3>1
      <4> HIDE DEF M0
      <4>4. ASSUME NEW i \in 1 .. n
            PROVE  /\ h[i].to = p[i].to /\ h[i].words = p[i].words
                   /\ h[i].bit = (p[i].bit \/ i \in Marks(w, T, m))
        <5>1. /\ h[i].to = w[m].heap[i].to /\ h[i].words = w[m].heap[i].words
              /\ h[i].bit = (w[m].heap[i].bit \/ i = a)
          BY <3>4
        <5>2. /\ w[m].heap[i].to = p[i].to /\ w[m].heap[i].words = p[i].words
              /\ w[m].heap[i].bit = (p[i].bit \/ i \in M0)
          BY <4>1, <4>2
        <5>3. i \in Marks(w, T, m) <=> (i \in M0 \/ i = a)
          BY <4>3
        <5> QED BY <5>1, <5>2, <5>3
      <4> QED BY <4>4
    <3>6. h = WithMarks(p, Marks(w, T, m))
      <4> DEFINE h2 == WithMarks(p, Marks(w, T, m))
      <4>1. h2 \in [1 .. n -> Packets(n, W)]
            /\ \A i \in 1 .. n : /\ h2[i].to = p[i].to /\ h2[i].words = p[i].words
                                 /\ h2[i].bit = (p[i].bit \/ i \in Marks(w, T, m))
        BY MarkedIs
      <4> HIDE DEF h2
      <4>2. \A i \in 1 .. n : h[i].to = h2[i].to /\ h[i].bit = h2[i].bit /\ h[i].words = h2[i].words
        BY <3>5, <4>1
      <4>3. h \in [1 .. n -> Packets(n, W)] /\ h2 \in [1 .. n -> Packets(n, W)]
        BY <3>4, <4>1
      <4>4. h = h2
        BY <4>2, <4>3, SameList
      <4> QED BY <4>4 DEF h2
    <3> QED BY <1>6, <2>1, <3>6 DEF h
  <2>2. CASE ~(m > Threshold)
    <3>1. Marks(w, T, m) = {} /\ Marks(w, T, m - 1) = {}
      BY <1>2, <2>2 DEF Marks
    <3> QED BY <1>1, <1>6, <2>2, <3>1
  <2> QED BY <2>1, <2>2
<1>10. w[m + 1].ld_addr = IF m + 1 > Threshold THEN w[T].addr ELSE End
  <2>1. CASE m = Threshold
    BY <1>2, <1>6, <2>1
  <2>2. CASE m # Threshold
    BY <1>1, <1>2, <1>6, <2>2
  <2> QED BY <2>1, <2>2
<1>11. w[m + 1].bit <=> p[a].bit \/ a \in Marks(w, T, m - 1)
  BY <1>6, <1>7
<1>12. (m + 1) - 1 = m /\ (m + 1) - 2 = m - 1
  BY <1>2
<1> HIDE DEF packet
<1> QED BY <1>6, <1>8, <1>9, <1>10, <1>11, <1>12 DEF WalkedTo

LEMMA Walked ==
  ASSUME NEW n \in Nat, NEW W, NEW p \in Lists(n, W), NEW start \in 1 .. n,
         NEW w, IsWalk(w, p, start, n, W),
         NEW m \in 0 .. Threshold + n + 2, \A k \in 0 .. m - 1 : ~w[k].bit
  PROVE  WalkedTo(w, p, n, m)
<1> DEFINE Bad == {j \in 0 .. m : ~WalkedTo(w, p, n, j)}
<1>1. ASSUME Bad # {} PROVE FALSE
  <2>1. Bad \in SUBSET Nat
    OBVIOUS
  <2>2. PICK j \in Bad : \A i \in Bad : j <= i
    BY <1>1, <2>1, Smallest
  <2>3. j # 0
    BY <2>2, WalkedStart
  <2>4. /\ j - 1 \in 0 .. m /\ j - 1 \in 0 .. m - 1 /\ j - 1 \in 0 .. Threshold + n + 1
        /\ (j - 1) + 1 = j /\ j - 1 \notin Bad
    BY <2>2, <2>3, ChainAssumption
  <2>5. WalkedTo(w, p, n, j - 1) /\ ~w[j - 1].bit
    BY <2>4
  <2>6. WalkedTo(w, p, n, (j - 1) + 1)
    <3> HIDE DEF Bad
    <3> QED BY <2>4, <2>5, WalkedOn
  <2> QED BY <2>2, <2>4, <2>6
<1>2. m \in 0 .. m
  BY ChainAssumption
<1> QED BY <1>1, <1>2

(* The walk stays where a mark or the end of the list has stopped it.       *)
LEMMA WalkStays ==
  ASSUME NEW n \in Nat, NEW W, NEW p \in Lists(n, W), NEW start \in 1 .. n,
         NEW w, IsWalk(w, p, start, n, W),
         NEW m \in 0 .. Threshold + n + 2, w[m].bit
  PROVE  \A k \in m .. Threshold + n + 2 : w[k] = w[m]
<1> DEFINE L == Threshold + n + 2
           Bad == {j \in m .. L : w[j] # w[m]}
<1>1. ASSUME Bad # {} PROVE FALSE
  <2>1. Bad \in SUBSET Nat
    BY ChainAssumption
  <2>2. PICK j \in Bad : \A i \in Bad : j <= i
    BY <1>1, <2>1, Smallest
  <2>3. j # m
    BY <2>2
  <2>4. /\ j - 1 \in m .. L /\ j - 1 \in 0 .. Threshold + n + 1
        /\ (j - 1) + 1 = j /\ j - 1 \notin Bad
    BY <2>2, <2>3, ChainAssumption
  <2>5. w[j - 1] = w[m]
    BY <2>4
  <2>6. w[j] = Steady(w[j - 1])
    BY <2>4 DEF IsWalk
  <2>7. w[j] = w[m]
    BY <2>5, <2>6 DEF Steady
  <2> QED BY <2>2, <2>7
<1> QED BY <1>1

(* Before that no packet beyond the threshold is met twice, and none that   *)
(* ends the list is left behind.                                            *)
LEMMA MetOnce ==
  ASSUME NEW n \in Nat, NEW W, NEW p \in Lists(n, W), NEW start \in 1 .. n,
         NEW w, IsWalk(w, p, start, n, W),
         NEW k \in 0 .. Threshold + n + 1, \A j \in 0 .. k + 1 : ~w[j].bit
  PROVE  /\ w[k].addr \in 1 .. n /\ w[k + 1].addr = p[w[k].addr].to
         /\ ~p[w[k].addr].bit
         /\ w[k].addr \notin Marks(w, Threshold + 1, k - 1)
<1>1. /\ k + 1 \in 0 .. Threshold + n + 2 /\ k + 1 > 0 /\ (k + 1) - 1 = k /\ (k + 1) - 2 = k - 1
      /\ k \in 0 .. (k + 1) - 1 /\ k + 1 \in 0 .. k + 1
  BY ChainAssumption
<1>2. \A j \in 0 .. (k + 1) - 1 : ~w[j].bit
  BY ChainAssumption
<1>3. WalkedTo(w, p, n, k + 1)
  BY <1>1, <1>2, Walked
<1>4. w[k + 1].bit <=> p[w[k].addr].bit \/ w[k].addr \in Marks(w, Threshold + 1, k - 1)
  BY <1>1, <1>3 DEF WalkedTo
<1>5. w[k].addr \in 1 .. n /\ w[k + 1].addr = p[w[k].addr].to
  BY <1>1, <1>3 DEF WalkedTo
<1>6. ~w[k + 1].bit
  BY <1>1
<1> QED BY <1>4, <1>5, <1>6

(* A list of any shape is walked to an end: a packet without a mark gets    *)
(* one with every step beyond the threshold.                                *)
LEMMA WalkEnds ==
  ASSUME NEW n \in Nat, NEW W, NEW p \in Lists(n, W), NEW start \in 1 .. n,
         NEW w, IsWalk(w, p, start, n, W)
  PROVE  w[Threshold + n + 2].bit
<1> DEFINE L == Threshold + n + 2
           D == Threshold + 1 .. L - 1
           f == [k \in D |-> w[k].addr]
<1>1. Threshold \in Nat /\ L \in Nat
  BY ChainAssumption
<1>2. SUFFICES ASSUME ~w[L].bit PROVE FALSE
  OBVIOUS
<1>3. ASSUME NEW j \in 0 .. L, w[j].bit PROVE FALSE
  <2>1. \A k \in j .. L : w[k] = w[j]
    BY <1>3, WalkStays
  <2>2. L \in j .. L
    BY <1>1
  <2> QED BY <1>2, <1>3, <2>1, <2>2
<1>4. ASSUME NEW k \in D
      PROVE  w[k].addr \in 1 .. n /\ w[k].addr \notin Marks(w, Threshold + 1, k - 1)
  <2>1. k \in 0 .. Threshold + n + 1 /\ \A j \in 0 .. k + 1 : j \in 0 .. L
    BY <1>1
  <2>2. \A j \in 0 .. k + 1 : ~w[j].bit
    BY <1>3, <2>1
  <2> HIDE DEF L
  <2> QED BY <2>1, <2>2, MetOnce
<1>5. ASSUME NEW j \in D, NEW k \in D, j < k PROVE f[j] # f[k]
  <2>1. j \in Threshold + 1 .. k - 1
    BY <1>1, <1>5
  <2>2. w[j].addr \in Marks(w, Threshold + 1, k - 1)
    BY <2>1 DEF Marks
  <2> QED BY <1>4, <2>2
<1>6. f \in [D -> 1 .. n]
  BY <1>4
<1>7. \A j, k \in DOMAIN f : f[j] = f[k] => j = k
  <2> SUFFICES ASSUME NEW j \in D, NEW k \in D, f[j] = f[k], j # k PROVE FALSE
    OBVIOUS
  <2>1. j \in Int /\ k \in Int
    OBVIOUS
  <2>2. j < k \/ k < j
    BY <2>1
  <2> HIDE DEF f, D
  <2> QED BY <1>5, <2>2
<1>8. f \in Injection(D, 1 .. n)
  <2> HIDE DEF f, D
  <2> QED BY <1>6, <1>7 DEF Injection, IsInjective
<1>9. IsFiniteSet(1 .. n) /\ Cardinality(1 .. n) = n
  <2>1. Cardinality(1 .. n) = IF 1 > n THEN 0 ELSE n - 1 + 1
    BY FS_Interval
  <2> QED BY <2>1, FS_Interval
<1>10. Cardinality(D) = n + 1
  <2>1. Threshold + 1 \in Int /\ L - 1 \in Int
    BY <1>1
  <2>2. Cardinality(D) = IF Threshold + 1 > L - 1 THEN 0 ELSE (L - 1) - (Threshold + 1) + 1
    BY <2>1, FS_Interval
  <2> QED BY <1>1, <2>2
<1>11. Cardinality(D) <= Cardinality(1 .. n)
  <2> HIDE DEF f, D
  <2> QED BY <1>8, <1>9, FS_Injection
<1> QED BY <1>9, <1>10, <1>11

-----------------------------------------------------------------------------
(* The second loop. *)

ClearAt(q, a) == [q EXCEPT ![a].bit = FALSE]
Cleared(s) == [heap |-> ClearAt(s.heap, s.addr), addr |-> s.heap[s.addr].to]

UnmarkEquation(f, q, start, count) ==
  f = [n \in 0 .. count |->
         IF n = 0 THEN [heap |-> q, addr |-> start] ELSE Cleared(f[n - 1])]

LEMMA UnmarkChosen ==
  ASSUME NEW q, NEW start, NEW count
  PROVE  Unmark(q, start, count) = (CHOOSE f : UnmarkEquation(f, q, start, count))[count].heap
BY DEF Unmark, UnmarkEquation, Cleared, ClearAt

(* One mark less. *)
LEMMA OneLess ==
  ASSUME NEW n \in Nat, NEW W, NEW p \in Lists(n, W), NEW M, NEW a \in 1 .. n,
         NEW M1, M1 = M \cup {a}, ~p[a].bit, a \notin M
  PROVE  ClearAt(WithMarks(p, M1), a) = WithMarks(p, M)
<1> DEFINE q == WithMarks(p, M1)
           r == WithMarks(p, M)
           h == [q EXCEPT ![a].bit = FALSE]
<1>1. q \in [1 .. n -> Packets(n, W)]
      /\ \A i \in 1 .. n : /\ q[i].to = p[i].to /\ q[i].words = p[i].words
                           /\ q[i].bit = (p[i].bit \/ i \in M1)
  BY MarkedIs
<1>2. r \in [1 .. n -> Packets(n, W)]
      /\ \A i \in 1 .. n : /\ r[i].to = p[i].to /\ r[i].words = p[i].words
                           /\ r[i].bit = (p[i].bit \/ i \in M)
  BY MarkedIs
<1> HIDE DEF q, r
<1>3. q[a] \in Packets(n, W)
  BY <1>1
<1>4. /\ [q[a] EXCEPT !.bit = FALSE] \in Packets(n, W)
      /\ [q[a] EXCEPT !.bit = FALSE].to = q[a].to
      /\ [q[a] EXCEPT !.bit = FALSE].bit = FALSE
      /\ [q[a] EXCEPT !.bit = FALSE].words = q[a].words
  BY <1>3 DEF Packets
<1>5. h = [q EXCEPT ![a] = [q[a] EXCEPT !.bit = FALSE]]
  OBVIOUS
<1> HIDE DEF h
<1>6. h \in [1 .. n -> Packets(n, W)]
  BY <1>1, <1>4, <1>5
<1>7. ASSUME NEW i \in 1 .. n
      PROVE  h[i].to = r[i].to /\ h[i].bit = r[i].bit /\ h[i].words = r[i].words
  <2>1. CASE i = a
    <3>1. h[i] = [q[a] EXCEPT !.bit = FALSE]
      BY <1>1, <1>5, <2>1
    <3>2. r[i].bit = FALSE
      BY <1>2, <2>1
    <3>3. q[a].to = r[a].to /\ q[a].words = r[a].words
      BY <1>1, <1>2
    <3> QED BY <1>4, <2>1, <3>1, <3>2, <3>3
  <2>2. CASE i # a
    <3>1. h[i] = q[i]
      BY <1>1, <1>5, <2>2
    <3>2. q[i].to = r[i].to /\ q[i].words = r[i].words
      BY <1>1, <1>2
    <3>3. i \in M1 <=> i \in M
      BY <2>2
    <3>4. q[i].bit = (p[i].bit \/ i \in M1) /\ r[i].bit = (p[i].bit \/ i \in M)
      BY <1>1, <1>2
    <3> QED BY <3>1, <3>2, <3>3, <3>4
  <2> QED BY <2>1, <2>2
<1>8. r \in [1 .. n -> Packets(n, W)]
  BY <1>2
<1>9. h = r
  BY <1>6, <1>7, <1>8, SameList
<1> QED BY <1>9 DEF h, q, r, ClearAt

LEMMA UnmarkIs ==
  ASSUME NEW n \in Nat, NEW W, NEW p \in Lists(n, W), NEW w, NEW count \in Nat,
         \A k \in Threshold + 1 .. Threshold + count :
           /\ w[k].addr \in 1 .. n /\ w[k + 1].addr = p[w[k].addr].to
           /\ ~p[w[k].addr].bit
           /\ w[k].addr \notin Marks(w, Threshold + 1, k - 1)
  PROVE  Unmark(WithMarks(p, Marks(w, Threshold + 1, Threshold + count)),
                w[Threshold + 1].addr, count) = p
<1> DEFINE T == Threshold + 1
           last == Threshold + count
           M(k) == Marks(w, T + k, last)
           q == WithMarks(p, M(0))
           first == w[T].addr
           g == [k \in 0 .. count |-> [heap |-> WithMarks(p, M(k)), addr |-> w[T + k].addr]]
<1>1. Threshold \in Nat /\ T \in Nat /\ last \in Nat /\ T + 0 = T
  BY ChainAssumption
<1>2. g[0] = [heap |-> q, addr |-> first]
  BY <1>1
<1>3. ASSUME NEW k \in 0 .. count - 1 PROVE g[k + 1] = Cleared(g[k])
  <2> DEFINE a == w[T + k].addr
  <2>1. T + k \in T .. last /\ T + (k + 1) = (T + k) + 1 /\ k \in 0 .. count /\ k + 1 \in 0 .. count
    BY <1>1
  <2>2. a \in 1 .. n /\ ~p[a].bit /\ w[(T + k) + 1].addr = p[a].to
    BY <2>1
  <2>3. a \notin M(k + 1)
    <3>1. ASSUME NEW j \in (T + k) + 1 .. last, w[j].addr = a PROVE FALSE
      <4>1. j \in T .. last /\ T + k \in T .. j - 1
        BY <1>1, <2>1
      <4>2. a \in Marks(w, T, j - 1)
        BY <4>1 DEF Marks
      <4> QED BY <3>1, <4>1, <4>2
    <3> QED BY <2>1, <3>1 DEF Marks
  <2>4. M(k) = M(k + 1) \cup {a}
    <3>1. T + k .. last = (T + (k + 1) .. last) \cup {T + k}
      BY <1>1, <2>1
    <3> QED BY <3>1 DEF Marks
  <2>5. g[k].heap = WithMarks(p, M(k)) /\ g[k].addr = a
    BY <2>1
  <2>6. g[k + 1] = [heap |-> WithMarks(p, M(k + 1)), addr |-> w[(T + k) + 1].addr]
    BY <2>1
  <2> HIDE DEF M, a, g
  <2>7. ClearAt(g[k].heap, a) = WithMarks(p, M(k + 1))
    <3>1. ClearAt(WithMarks(p, M(k)), a) = WithMarks(p, M(k + 1))
      BY <2>2, <2>3, <2>4, OneLess
    <3> QED BY <2>5, <3>1
  <2>8. g[k].heap[a].to = p[a].to
    BY <2>2, <2>5, MarkedIs
  <2> QED BY <2>2, <2>5, <2>6, <2>7, <2>8 DEF Cleared
<1>4. UnmarkEquation(g, q, first, count)
  <2> DEFINE e == [k \in 0 .. count |-> IF k = 0 THEN [heap |-> q, addr |-> first]
                                        ELSE Cleared(g[k - 1])]
  <2>1. ASSUME NEW k \in 0 .. count PROVE g[k] = e[k]
    <3>1. CASE k = 0
      BY <1>2, <3>1
    <3>2. CASE k # 0
      <4>1. k - 1 \in 0 .. count - 1 /\ (k - 1) + 1 = k
        BY <3>2
      <4>2. g[k] = Cleared(g[k - 1])
        <5> HIDE DEF g
        <5> QED BY <1>3, <4>1
      <4> HIDE DEF g
      <4> QED BY <3>2, <4>2
    <3> QED BY <3>1, <3>2
  <2>2. g = [k \in 0 .. count |-> g[k]] /\ e = [k \in 0 .. count |-> e[k]]
    OBVIOUS
  <2>3. g = e
    <3> HIDE DEF g, e
    <3> QED BY <2>1, <2>2
  <2> HIDE DEF g
  <2> QED BY <2>3 DEF UnmarkEquation
<1> DEFINE h == CHOOSE f : UnmarkEquation(f, q, first, count)
<1>5. UnmarkEquation(h, q, first, count)
  <2> HIDE DEF g, q, first
  <2> QED BY <1>4
<1>6. Unmark(q, first, count) = h[count].heap
  BY UnmarkChosen
<1> HIDE DEF h, g, q, first, M
<1>7. h[0] = [heap |-> q, addr |-> first]
  BY <1>5 DEF UnmarkEquation
<1>8. ASSUME NEW k \in 0 .. count - 1 PROVE h[k + 1] = Cleared(h[k])
  <2>1. k + 1 \in 0 .. count /\ k + 1 # 0 /\ (k + 1) - 1 = k
    OBVIOUS
  <2>2. h[k + 1] = Cleared(h[(k + 1) - 1])
    BY <1>5, <2>1 DEF UnmarkEquation
  <2> QED BY <2>1, <2>2
<1>9. ASSUME NEW k \in 0 .. count PROVE h[k] = g[k]
  <2> DEFINE Bad == {j \in 0 .. count : h[j] # g[j]}
  <2>1. ASSUME Bad # {} PROVE FALSE
    <3>1. Bad \in SUBSET Nat
      OBVIOUS
    <3>2. PICK j \in Bad : \A i \in Bad : j <= i
      BY <2>1, <3>1, Smallest
    <3>3. j # 0
      BY <1>2, <1>7, <3>2
    <3>4. j - 1 \in 0 .. count /\ j - 1 \in 0 .. count - 1 /\ (j - 1) + 1 = j /\ j - 1 \notin Bad
      BY <3>2, <3>3
    <3>5. h[j - 1] = g[j - 1]
      BY <3>4
    <3>6. h[j] = Cleared(h[j - 1]) /\ g[j] = Cleared(g[j - 1])
      BY <1>3, <1>8, <3>4
    <3> QED BY <3>2, <3>5, <3>6
  <2> QED BY <2>1
<1>10. h[count].heap = WithMarks(p, M(count))
  <2>1. h[count] = g[count]
    BY <1>9
  <2> QED BY <2>1 DEF g
<1>11. M(count) = {}
  <2>1. T + count .. last = {}
    BY <1>1
  <2> QED BY <2>1 DEF M, Marks
<1>12. Unmark(q, first, count) = p
  BY <1>6, <1>10, <1>11, NoMarks
<1>13. q = WithMarks(p, Marks(w, T, last))
  BY <1>1 DEF q, M
<1> QED BY <1>12, <1>13 DEF first

-----------------------------------------------------------------------------
(* GPUdmaChain leaves a list as it was. *)

LEMMA ChainRestores ==
  ASSUME NEW n \in Nat, NEW W, NEW p \in Lists(n, W), NEW start \in 1 .. n
  PROVE  Unmarked(Walk(p, start)) = p
<1> DEFINE L == Threshold + n + 2
           T == Threshold + 1
<1>1. Threshold \in Nat /\ L \in Nat
  BY ChainAssumption
<1>2. PICK w : IsWalk(w, p, start, n, W) /\ Walk(p, start) = w[L]
  BY WalkExists
<1> DEFINE Ended == {k \in 0 .. L : w[k].bit}
<1>3. L \in Ended
  BY <1>1, <1>2, WalkEnds
<1>4. PICK m \in Ended : \A k \in Ended : m <= k
  <2>1. Ended \in SUBSET Nat /\ Ended # {}
    BY <1>3
  <2> HIDE DEF Ended
  <2> QED BY <2>1, Smallest
<1>5. m \in 0 .. L /\ m \in Nat /\ w[m].bit /\ \A k \in 0 .. m - 1 : ~w[k].bit
  <2>1. m \in 0 .. L /\ w[m].bit
    BY <1>4
  <2>2. ASSUME NEW k \in 0 .. m - 1, w[k].bit PROVE FALSE
    <3>1. k \in Ended /\ k < m
      BY <1>1, <2>1, <2>2
    <3> QED BY <1>4, <2>1, <3>1
  <2> QED BY <1>1, <2>1, <2>2
<1> HIDE DEF Ended
<1>6. w[L] = w[m]
  <2>1. L \in m .. L
    BY <1>1, <1>5
  <2>2. \A k \in m .. L : w[k] = w[m]
    BY <1>2, <1>5, WalkStays
  <2> QED BY <2>1, <2>2
<1>7. WalkedTo(w, p, n, m)
  BY <1>2, <1>5, Walked
<1>8. m > 0
  <2>1. ~w[0].bit
    BY <1>2 DEF IsWalk, AtHead
  <2> QED BY <1>5, <2>1
<1>9. /\ w[m].count = m
      /\ w[m].heap = WithMarks(p, Marks(w, T, m - 1))
      /\ w[m].ld_addr = IF m > Threshold THEN w[T].addr ELSE End
      /\ p[w[m - 1].addr].bit \/ w[m - 1].addr \in Marks(w, T, m - 2)
      /\ w[m - 1].addr \in 1 .. n
  <2>1. m - 1 \in 0 .. m - 1
    BY <1>5, <1>8
  <2> QED BY <1>5, <1>7, <1>8, <2>1 DEF WalkedTo
(* The last packet is marked already, or was marked by the game.            *)
<1>10. w[m].heap = WithMarks(p, Marks(w, T, m - 2))
  <2>1. CASE T <= m - 1
    <3> DEFINE a == w[m - 1].addr
               q == WithMarks(p, Marks(w, T, m - 1))
               r == WithMarks(p, Marks(w, T, m - 2))
    <3>1. Marks(w, T, m - 1) = Marks(w, T, m - 2) \cup {a}
      <4>1. T .. m - 1 = (T .. m - 2) \cup {m - 1}
        BY <1>1, <1>5, <2>1
      <4> QED BY <4>1 DEF Marks
    <3>2. q \in [1 .. n -> Packets(n, W)]
          /\ \A i \in 1 .. n : /\ q[i].to = p[i].to /\ q[i].words = p[i].words
                               /\ q[i].bit = (p[i].bit \/ i \in Marks(w, T, m - 1))
      BY MarkedIs
    <3>3. r \in [1 .. n -> Packets(n, W)]
          /\ \A i \in 1 .. n : /\ r[i].to = p[i].to /\ r[i].words = p[i].words
                               /\ r[i].bit = (p[i].bit \/ i \in Marks(w, T, m - 2))
      BY MarkedIs
    <3> HIDE DEF q, r
    <3>4. ASSUME NEW i \in 1 .. n
          PROVE  q[i].to = r[i].to /\ q[i].bit = r[i].bit /\ q[i].words = r[i].words
      <4>1. i \in Marks(w, T, m - 1) <=> i \in Marks(w, T, m - 2) \/ i = a
        BY <3>1
      <4>2. i = a => p[i].bit \/ i \in Marks(w, T, m - 2)
        BY <1>9
      <4>3. q[i].bit = (p[i].bit \/ i \in Marks(w, T, m - 1))
            /\ r[i].bit = (p[i].bit \/ i \in Marks(w, T, m - 2))
        BY <3>2, <3>3
      <4>4. q[i].bit = r[i].bit
        BY <4>1, <4>2, <4>3
      <4> QED BY <3>2, <3>3, <4>4
    <3>5. q \in [1 .. n -> Packets(n, W)] /\ r \in [1 .. n -> Packets(n, W)]
      BY <3>2, <3>3
    <3>6. q = r
      BY <3>4, <3>5, SameList
    <3> QED BY <1>9, <3>6 DEF q, r
  <2>2. CASE ~(T <= m - 1)
    <3>1. Marks(w, T, m - 1) = {} /\ Marks(w, T, m - 2) = {}
      BY <1>1, <1>5, <2>2 DEF Marks
    <3> QED BY <1>9, <3>1
  <2> QED BY <2>1, <2>2
<1>11. Walk(p, start) = w[m]
  BY <1>2, <1>6
<1>12. CASE m - 2 < T
  <2>1. Marks(w, T, m - 2) = {}
    BY <1>1, <1>5, <1>12 DEF Marks
  <2>2. w[m].heap = p
    BY <1>10, <2>1, NoMarks
  <2>3. ~(MarksToRemove(w[m].count) > 0)
    BY <1>1, <1>5, <1>9, <1>12 DEF MarksToRemove
  <2> QED BY <1>11, <2>2, <2>3 DEF Unmarked
<1>13. CASE T <= m - 2
  <2> DEFINE count == m - (Threshold + 2)
  <2>1. /\ count \in Nat /\ count > 0 /\ m > Threshold /\ T + count - 1 = m - 2
        /\ Threshold + count = m - 2
    BY <1>1, <1>5, <1>13
  <2>2. MarksToRemove(w[m].count) = count
    BY <1>9 DEF MarksToRemove
  <2>3. w[m].ld_addr = w[T].addr
    BY <1>9, <2>1
  <2>4. ASSUME NEW k \in T .. Threshold + count
        PROVE  /\ w[k].addr \in 1 .. n /\ w[k + 1].addr = p[w[k].addr].to
               /\ ~p[w[k].addr].bit
               /\ w[k].addr \notin Marks(w, T, k - 1)
    <3>1. k \in 0 .. Threshold + n + 1 /\ \A j \in 0 .. k + 1 : j \in 0 .. m - 1
      BY <1>1, <1>5, <2>1
    <3>2. \A j \in 0 .. k + 1 : ~w[j].bit
      BY <1>5, <3>1
    <3> QED BY <1>2, <3>1, <3>2, MetOnce
  <2>5. Unmark(WithMarks(p, Marks(w, T, Threshold + count)), w[T].addr, count) = p
    <3> HIDE DEF count
    <3> QED BY <2>1, <2>4, UnmarkIs
  <2>6. Unmark(w[m].heap, w[m].ld_addr, count) = p
    BY <1>10, <2>1, <2>3, <2>5
  <2>7. Unmarked(w[m]) = Unmark(w[m].heap, w[m].ld_addr, count)
    BY <1>9, <2>1, <2>2 DEF Unmarked
  <2> QED BY <1>11, <2>6, <2>7
<1> QED BY <1>1, <1>5, <1>12, <1>13

(* Whatever lists the game sends, of however many packets and however they  *)
(* lead to each other, the memory is as the game wrote it when GPUdmaChain  *)
(* returns.                                                                 *)
THEOREM ListsStayAsWritten == ChainSpec => []ListRestored
<1>1. ChainInit => ListRestored
  BY DEF ChainInit, ListRestored
<1>2. ListRestored /\ [SendList]_chain_vars => ListRestored'
  <2> SUFFICES ASSUME ListRestored, [SendList]_chain_vars PROVE ListRestored'
    OBVIOUS
  <2>1. CASE SendList
    <3>1. PICK next \in [1 .. MaxPackets -> End .. MaxPackets] :
            /\ links' = [i \in 1 .. MaxPackets |-> Packet(next[i], <<>>)]
            /\ heap' = Unmarked(Walk([i \in 1 .. MaxPackets |-> Packet(next[i], <<>>)], 1))
      BY <2>1 DEF SendList
    <3> DEFINE p == [i \in 1 .. MaxPackets |-> Packet(next[i], <<>>)]
               W == {<<>>}
    <3>2. MaxPackets \in Nat /\ 1 \in 1 .. MaxPackets
      BY ChainAssumption
    <3>3. p \in Lists(MaxPackets, W)
      BY <3>2 DEF Lists, Packets, Packet, End
    <3>4. links' = p /\ heap' = Unmarked(Walk(p, 1))
      BY <3>1
    <3> HIDE DEF p, W
    <3>5. Unmarked(Walk(p, 1)) = p
      BY <3>2, <3>3, ChainRestores
    <3> QED BY <3>4, <3>5 DEF ListRestored
  <2>2. CASE UNCHANGED chain_vars
    BY <2>2 DEF chain_vars, ListRestored
  <2> QED BY <2>1, <2>2
<1> QED BY <1>1, <1>2, PTL DEF ChainSpec

-----------------------------------------------------------------------------
(* Quotients. *)

LEMMA PiecesApart ==
  ASSUME NEW d \in Nat \ {0}, NEW a \in Int, NEW b \in Int, a < b
  PROVE  a * d \in Int /\ b * d \in Int /\ a * d + d <= b * d
<1>1. PICK n \in Nat : b = a + 1 + n
  <2>1. b - a - 1 \in Nat /\ b = a + 1 + (b - a - 1)
    OBVIOUS
  <2> QED BY <2>1
<1>2. n * d \in Nat /\ a * d \in Int /\ b * d = a * d + d + n * d
  BY <1>1
<1> QED BY <1>2

Quot(n, d) == n \div d
Rem(n, d) == n % d

LEMMA Quotient ==
  ASSUME NEW d \in Nat \ {0}, NEW n \in Nat, NEW q, NEW r, q = Quot(n, d), r = Rem(n, d)
  PROVE  q \in Nat /\ r \in 0 .. d - 1 /\ n = q * d + r /\ q * d \in Nat
<1>1. q \in Int /\ r \in 0 .. d - 1 /\ n = d * q + r
  BY DEF Quot, Rem
<1>2. n = q * d + r /\ q * d \in Int
  BY <1>1
<1>3. q >= 0
  <2>1. ASSUME q < 0 PROVE FALSE
    <3>1. q * d + d <= 0 * d
      BY <1>1, <2>1, PiecesApart
    <3> QED BY <1>1, <1>2, <3>1
  <2> QED BY <1>1, <2>1
<1>4. q \in Nat /\ q * d \in Nat
  BY <1>1, <1>3
<1> QED BY <1>1, <1>2, <1>4

LEMMA QuotientIs ==
  ASSUME NEW d \in Nat \ {0}, NEW n \in Nat, NEW q \in Int, NEW r \in 0 .. d - 1, n = q * d + r
  PROVE  n \div d = q /\ n % d = r
<1> DEFINE p == n \div d
           s == n % d
<1>0. p = Quot(n, d) /\ s = Rem(n, d) /\ p = n \div d /\ s = n % d
  BY DEF Quot, Rem
<1> HIDE DEF p, s
<1>1. p \in Nat /\ s \in 0 .. d - 1 /\ n = p * d + s
  <2>1. p = Quot(n, d) /\ s = Rem(n, d)
    BY <1>0
  <2> QED BY <2>1, Quotient
<1>2. p * d \in Int /\ q * d \in Int
  BY <1>1
<1>3. ~(p < q)
  <2>1. ASSUME p < q PROVE FALSE
    <3>1. p * d + d <= q * d
      BY <1>1, <2>1, PiecesApart
    <3> QED BY <1>1, <1>2, <3>1
  <2> QED BY <2>1
<1>4. ~(q < p)
  <2>1. ASSUME q < p PROVE FALSE
    <3>1. q * d + d <= p * d
      BY <1>1, <2>1, PiecesApart
    <3> QED BY <1>1, <1>2, <3>1
  <2> QED BY <2>1
<1>5. p = q
  BY <1>1, <1>3, <1>4
<1>6. s = r
  BY <1>1, <1>2, <1>5
<1> QED BY <1>0, <1>5, <1>6

-----------------------------------------------------------------------------
(* The motion decoder.  How much it has handed out, in units, and what each *)
(* of them ought to be.                                                     *)
Given(m) == IF m.part = 0 THEN m.rl * BlockUnits ELSE (m.rl - 1) * BlockUnits + m.part
UnitAt(i) == <<(i - 1) \div BlockUnits + 1, ((i - 1) % BlockUnits) + 1>>

Unit == (Nat \ {0}) \X (1 .. BlockUnits)

(* The units from one place on, so many of them. *)
Run(from, len) == [u \in 1 .. len |-> UnitAt(from + u)]

MdecRecord == [busy : BOOLEAN, pending : Nat, rl : Nat, rl_end : Nat,
               part : 0 .. BlockUnits - 1, out : Seq(Unit)]

(* What is out is what should be, as far as the decoder has come, which is  *)
(* no further than its input.                                               *)
Decoded(m) ==
  /\ m \in MdecRecord
  /\ m.rl <= m.rl_end
  /\ m.part > 0 => m.rl > 0
  /\ m.out = Run(0, Given(m))

(* The decoder has input exactly while channel 0 feeds it, which no event   *)
(* but its own ends; a request that waits is not for less than what is left *)
(* of a block.                                                              *)
MdecInv ==
  /\ Decoded(mdec)
  /\ 0 \in armed => 0 \in busy /\ ~mdec.busy
  /\ 1 \in armed => mdec.busy
  /\ mdec.busy => 0 \in busy
  /\ ~mdec.busy => mdec.rl = mdec.rl_end
  /\ mdec.busy => mdec.pending = 0
  /\ mdec.pending > 0 => Left(mdec) <= mdec.pending

LEMMA UnitsPositive == BlockUnits \in Nat \ {0}
BY MdecAssumption

LEMMA ProductType == \A q \in Nat : q * BlockUnits \in Nat
BY UnitsPositive

(* A unit by its block and its place in it. *)
LEMMA UnitIs ==
  ASSUME NEW q \in Nat, NEW r \in 1 .. BlockUnits
  PROVE  /\ UnitAt(q * BlockUnits + r) = <<q + 1, r>>
         /\ q * BlockUnits + r \in Nat \ {0}
<1>1. BlockUnits \in Nat \ {0} /\ q * BlockUnits \in Nat
  BY UnitsPositive, ProductType
<1> DEFINE n == q * BlockUnits + (r - 1)
<1>2. n \in Nat /\ r - 1 \in 0 .. BlockUnits - 1 /\ (q * BlockUnits + r) - 1 = n
      /\ n = q * BlockUnits + (r - 1)
  BY <1>1
<1> HIDE DEF n
<1>3. n \div BlockUnits = q /\ n % BlockUnits = r - 1
  BY <1>1, <1>2, QuotientIs
<1> QED BY <1>1, <1>2, <1>3 DEF UnitAt

LEMMA UnitType == ASSUME NEW i \in Nat \ {0} PROVE UnitAt(i) \in Unit
<1>1. BlockUnits \in Nat \ {0} /\ i - 1 \in Nat
  BY UnitsPositive
<1> DEFINE q == (i - 1) \div BlockUnits
           r == (i - 1) % BlockUnits
<1>2. UnitAt(i) = <<q + 1, r + 1>> /\ q = Quot(i - 1, BlockUnits) /\ r = Rem(i - 1, BlockUnits)
  BY DEF UnitAt, Quot, Rem
<1> HIDE DEF q, r
<1>3. q \in Nat /\ r \in 0 .. BlockUnits - 1
  BY <1>1, <1>2, Quotient
<1>4. q + 1 \in Nat \ {0} /\ r + 1 \in 1 .. BlockUnits
  BY <1>1, <1>3
<1> QED BY <1>2, <1>4 DEF Unit

LEMMA RunType ==
  ASSUME NEW from \in Nat, NEW len \in Nat
  PROVE  Run(from, len) \in Seq(Unit) /\ Len(Run(from, len)) = len
<1>1. ASSUME NEW u \in 1 .. len PROVE UnitAt(from + u) \in Unit
  <2>1. from + u \in Nat \ {0}
    OBVIOUS
  <2> QED BY <2>1, UnitType
<1>2. Run(from, len) \in [1 .. len -> Unit]
  BY <1>1 DEF Run
<1> QED BY <1>2

LEMMA RunFirst ==
  ASSUME NEW len \in Nat, NEW more \in Nat, NEW all, all = len + more
  PROVE  Run(0, len) \o Run(len, more) = Run(0, all)
<1> DEFINE a == Run(0, len)
           b == Run(len, more)
           c == Run(0, all)
<1>1. a \in Seq(Unit) /\ Len(a) = len /\ b \in Seq(Unit) /\ Len(b) = more
      /\ c \in Seq(Unit) /\ Len(c) = all
  <2>1. a \in Seq(Unit) /\ Len(a) = len
    BY RunType
  <2>2. 0 \in Nat /\ all \in Nat
    OBVIOUS
  <2>3. b \in Seq(Unit) /\ Len(b) = more
    BY <2>2, RunType
  <2>4. c \in Seq(Unit) /\ Len(c) = all
    BY <2>2, RunType
  <2> HIDE DEF a, b, c
  <2> QED BY <2>1, <2>3, <2>4
<1>2. /\ a \o b \in Seq(Unit) /\ Len(a \o b) = len + more
      /\ \A i \in 1 .. len + more : (a \o b)[i] = IF i <= len THEN a[i] ELSE b[i - len]
  <2> HIDE DEF a, b
  <2> QED BY <1>1, ConcatProperties
<1>3. ASSUME NEW i \in 1 .. len + more PROVE (a \o b)[i] = c[i]
  <2>1. c[i] = UnitAt(0 + i)
    BY DEF Run
  <2>2. CASE i <= len
    <3>1. i \in 1 .. len
      BY <2>2
    <3>2. a[i] = UnitAt(0 + i)
      BY <3>1 DEF Run
    <3> QED BY <1>2, <2>1, <2>2, <3>2
  <2>3. CASE ~(i <= len)
    <3>1. i - len \in 1 .. more /\ len + (i - len) = 0 + i
      BY <2>3
    <3>2. b[i - len] = UnitAt(0 + i)
      BY <3>1 DEF Run
    <3> QED BY <1>2, <2>1, <2>3, <3>2
  <2> QED BY <2>2, <2>3
<1> HIDE DEF a, b, c
<1>4. a \o b = c
  BY <1>1, <1>2, <1>3, SeqEqual
<1> QED BY <1>4 DEF a, b, c

(* The pieces of which psxDma1 puts its output together. *)
LEMMA UnitsAre ==
  ASSUME NEW q \in Nat, NEW from \in 0 .. BlockUnits, NEW to \in from .. BlockUnits
  PROVE  UnitsOf(q + 1, from, to) = Run(q * BlockUnits + from, to - from)
<1>1. BlockUnits \in Nat \ {0} /\ q * BlockUnits \in Nat
  BY UnitsPositive, ProductType
<1>2. ASSUME NEW u \in 1 .. to - from
      PROVE  UnitAt((q * BlockUnits + from) + u) = <<q + 1, from + u>>
  <2>1. from + u \in 1 .. BlockUnits
    BY <1>1
  <2>2. UnitAt(q * BlockUnits + (from + u)) = <<q + 1, from + u>>
    BY <2>1, UnitIs
  <2>3. q * BlockUnits + (from + u) = (q * BlockUnits + from) + u
    BY <1>1
  <2> QED BY <2>2, <2>3
<1> QED BY <1>2 DEF UnitsOf, Run

LEMMA WholeUnitsAre ==
  ASSUME NEW q \in Nat, NEW blocks \in Nat
  PROVE  UnitsOfWhole(q + 1, blocks) = Run(q * BlockUnits, blocks * BlockUnits)
<1>1. BlockUnits \in Nat \ {0} /\ q * BlockUnits \in Nat /\ blocks * BlockUnits \in Nat
  BY UnitsPositive, ProductType
<1>2. ASSUME NEW u \in 1 .. blocks * BlockUnits
      PROVE  UnitAt(q * BlockUnits + u)
             = <<q + 1 + (u - 1) \div BlockUnits, ((u - 1) % BlockUnits) + 1>>
  <2> DEFINE d == (u - 1) \div BlockUnits
             r == (u - 1) % BlockUnits
  <2>1. u - 1 \in Nat /\ d = Quot(u - 1, BlockUnits) /\ r = Rem(u - 1, BlockUnits)
    BY <1>1 DEF Quot, Rem
  <2> HIDE DEF d, r
  <2>2. d \in Nat /\ r \in 0 .. BlockUnits - 1 /\ u - 1 = d * BlockUnits + r
    BY <1>1, <2>1, Quotient
  <2>3. /\ q + d \in Nat /\ r + 1 \in 1 .. BlockUnits
        /\ (q + d) * BlockUnits = q * BlockUnits + d * BlockUnits /\ d * BlockUnits \in Nat
    BY <1>1, <2>2
  <2>4. UnitAt((q + d) * BlockUnits + (r + 1)) = <<(q + d) + 1, r + 1>>
    BY <2>3, UnitIs
  <2>5. (q + d) * BlockUnits + (r + 1) = q * BlockUnits + u
    BY <1>1, <2>1, <2>2, <2>3
  <2>6. UnitAt(q * BlockUnits + u) = <<q + 1 + d, r + 1>>
    BY <2>2, <2>4, <2>5
  <2> QED BY <2>6 DEF d, r
<1> QED BY <1>1, <1>2 DEF UnitsOfWhole, Run

(* A piece of output goes on where the last one ended, and uses no more     *)
(* input than there is.                                                     *)
GoesOn(m, d) ==
  /\ d = [m EXCEPT !.out = d.out, !.rl = d.rl, !.part = d.part]
  /\ d.rl \in Nat /\ d.rl <= m.rl_end /\ d.part \in 0 .. BlockUnits - 1
  /\ d.part > 0 => d.rl > 0
  /\ d.out \in Seq(Unit) /\ d.out = Run(0, Given(d))

LEMMA DecodeGoesOn ==
  ASSUME NEW m \in MdecRecord, Decoded(m),
         NEW size \in Nat, Left(m) <= size, size <= Left(m) + Fed(m)
  PROVE  GoesOn(m, Decode(m, size))
<1>0. m.rl <= m.rl_end /\ (m.part > 0 => m.rl > 0) /\ m.out = Run(0, Given(m))
  BY DEF Decoded
<1> DEFINE rest == Left(m)
           after == size - rest
           whole == after \div BlockUnits
           part == after % BlockUnits
           wide == whole * BlockUnits
           base == m.rl * BlockUnits
           rl == m.rl + whole + (IF part > 0 THEN 1 ELSE 0)
           piece1 == IF m.part = 0 THEN <<>> ELSE UnitsOf(m.rl, m.part, BlockUnits)
           piece2 == UnitsOfWhole(m.rl + 1, whole)
           piece3 == UnitsOf(m.rl + whole + 1, 0, part)
           out == m.out \o piece1 \o piece2 \o piece3
           d == Decode(m, size)
<1>1. /\ m.rl \in Nat /\ m.rl_end \in Nat /\ m.part \in 0 .. BlockUnits - 1 /\ m.out \in Seq(Unit)
      /\ m = [busy |-> m.busy, pending |-> m.pending, rl |-> m.rl, rl_end |-> m.rl_end,
              part |-> m.part, out |-> m.out]
      /\ m.busy \in BOOLEAN /\ m.pending \in Nat
  BY DEF MdecRecord
<1>2. BlockUnits \in Nat \ {0}
  BY UnitsPositive
<1>3. rest \in 0 .. BlockUnits /\ rest = IF m.part = 0 THEN 0 ELSE BlockUnits - m.part
  BY <1>1, <1>2 DEF Left
<1>4. after \in Nat /\ size = rest + after
  BY <1>3
<1>5. /\ whole \in Nat /\ part \in 0 .. BlockUnits - 1 /\ after = wide + part /\ wide \in Nat
      /\ part \in Nat /\ rest \in Nat /\ part < BlockUnits
  <2>1. whole = Quot(after, BlockUnits) /\ part = Rem(after, BlockUnits)
    BY DEF Quot, Rem
  <2> HIDE DEF after, whole, part
  <2>2. /\ whole \in Nat /\ part \in 0 .. BlockUnits - 1 /\ after = whole * BlockUnits + part
        /\ whole * BlockUnits \in Nat
    BY <1>2, <1>4, <2>1, Quotient
  <2>3. part \in Nat /\ rest \in Nat /\ part < BlockUnits
    BY <1>2, <1>3, <2>2
  <2> QED BY <2>2, <2>3
<1>6. /\ d.out = out /\ d.rl = rl /\ d.part = part
      /\ d = [m EXCEPT !.out = out, !.rl = rl, !.part = part]
  <2>1. d = [m EXCEPT !.out = out, !.rl = rl, !.part = part]
    BY DEF Decode
  <2> HIDE DEF out, rl, part, d
  <2> QED BY <1>1, <2>1
<1> HIDE DEF d, rest, after, whole, part, wide, base
<1>7. base \in Nat /\ base + wide = (m.rl + whole) * BlockUnits /\ m.rl + whole \in Nat
  <2> DEFINE r == m.rl
  <2>0. r \in Nat /\ whole \in Nat /\ r * BlockUnits \in Nat
    <3>1. r \in Nat /\ whole \in Nat
      BY <1>1, <1>5
    <3> HIDE DEF r
    <3> QED BY <3>1, ProductType
  <2> HIDE DEF r
  <2>3. r * BlockUnits + whole * BlockUnits = (r + whole) * BlockUnits /\ r + whole \in Nat
    BY <1>2, <2>0
  <2>1. base \in Nat /\ m.rl * BlockUnits + whole * BlockUnits = (m.rl + whole) * BlockUnits
    BY <2>0, <2>3 DEF base, r
  <2>2. m.rl + whole \in Nat
    BY <2>3 DEF r
  <2> QED BY <2>1, <2>2 DEF base, wide
<1>9. Given(m) \in Nat /\ Given(m) + rest = base
  <2>1. CASE m.part = 0
    BY <1>1, <1>3, <1>7, <2>1 DEF Given, base
  <2>2. CASE m.part # 0
    <3> DEFINE before == m.rl - 1
    <3>0. before \in Nat /\ m.rl = before + 1
      BY <1>0, <1>1, <1>2, <2>2
    <3> HIDE DEF before
    <3>7. before * BlockUnits \in Nat
      BY <3>0, ProductType
    <3>8. base = before * BlockUnits + BlockUnits
      BY <1>2, <3>0 DEF base
    <3>1. m.rl - 1 \in Nat /\ base = (m.rl - 1) * BlockUnits + BlockUnits
            /\ (m.rl - 1) * BlockUnits \in Nat
      BY <3>0, <3>7, <3>8 DEF before
    <3>2. Given(m) = (m.rl - 1) * BlockUnits + m.part
      BY <2>2 DEF Given
    <3>3. rest = BlockUnits - m.part /\ m.part \in Nat /\ m.part < BlockUnits
      BY <1>1, <1>2, <1>3, <2>2
    <3> DEFINE low == (m.rl - 1) * BlockUnits
    <3>4. low \in Nat /\ base = low + BlockUnits /\ Given(m) = low + m.part
      BY <3>1, <3>2
    <3> DEFINE given == Given(m)
    <3>5. given = low + m.part
      BY <3>4
    <3> HIDE DEF low, given
    <3>6. given \in Nat /\ given + rest = base
      BY <1>2, <3>3, <3>4, <3>5
    <3> QED BY <3>6 DEF given
  <2> QED BY <2>1, <2>2
<1>10. piece1 = Run(Given(m), rest)
  <2>1. CASE m.part = 0
    <3>1. rest = 0
      BY <1>3, <2>1
    <3>2. Run(Given(m), 0) = <<>>
      <4>1. Run(Given(m), 0) \in Seq(Unit) /\ Len(Run(Given(m), 0)) = 0
        BY <1>9, RunType
      <4> QED BY <4>1
    <3> QED BY <2>1, <3>1, <3>2
  <2>2. CASE m.part # 0
    <3> DEFINE q == m.rl - 1
    <3>1. q \in Nat /\ q + 1 = m.rl
      BY <1>0, <1>1, <2>2
    <3>2. m.part \in 0 .. BlockUnits /\ BlockUnits \in m.part .. BlockUnits
      BY <1>1, <1>2
    <3>3. Given(m) = q * BlockUnits + m.part
      BY <2>2 DEF Given
    <3>4. rest = BlockUnits - m.part
      BY <1>3, <2>2
    <3> HIDE DEF q
    <3>5. UnitsOf(q + 1, m.part, BlockUnits) = Run(q * BlockUnits + m.part, BlockUnits - m.part)
      BY <3>1, <3>2, UnitsAre
    <3> QED BY <2>2, <3>1, <3>3, <3>4, <3>5
  <2> QED BY <2>1, <2>2
<1>11. piece2 = Run(base, wide)
  BY <1>1, <1>5, WholeUnitsAre DEF base, wide
<1>12. piece3 = Run(base + wide, part)
  <2> DEFINE q == m.rl + whole
  <2>1. q \in Nat
    BY <1>7
  <2>2. 0 \in 0 .. BlockUnits /\ part \in 0 .. BlockUnits
    BY <1>2, <1>5
  <2>3. base + wide = q * BlockUnits
    BY <1>7
  <2> HIDE DEF q
  <2>4. UnitsOf(q + 1, 0, part) = Run(q * BlockUnits + 0, part - 0)
    BY <2>1, <2>2, UnitsAre
  <2>5. q * BlockUnits + 0 = base + wide /\ part - 0 = part
    <3>1. base + wide \in Nat
      BY <1>5, <1>7
    <3> DEFINE x == q * BlockUnits
    <3>2. x = base + wide
      BY <2>3
    <3> HIDE DEF x
    <3>3. x + 0 = base + wide /\ part - 0 = part
      BY <1>5, <3>1, <3>2
    <3> QED BY <3>3 DEF x
  <2>6. UnitsOf(q + 1, 0, part) = Run(base + wide, part)
    BY <2>4, <2>5
  <2> QED BY <2>6 DEF q
<1> DEFINE given == base + wide + part
<1>13. out = Run(0, given) /\ given \in Nat
  <2>1. m.out \o piece1 = Run(0, base)
    <3>1. Given(m) \in Nat /\ rest \in Nat /\ Given(m) = 0 + Given(m) /\ base = Given(m) + rest
      BY <1>5, <1>9
    <3>2. Run(0, Given(m)) \o Run(Given(m), rest) = Run(0, base)
      BY <3>1, RunFirst
    <3> HIDE DEF piece1
    <3> QED BY <1>0, <1>10, <3>2
  <2>2. (m.out \o piece1) \o piece2 = Run(0, base + wide)
    <3>1. base \in Nat /\ wide \in Nat /\ base = 0 + base
      BY <1>5, <1>7
    <3>2. Run(0, base) \o Run(base, wide) = Run(0, base + wide)
      BY <3>1, RunFirst
    <3> HIDE DEF piece1, piece2
    <3> QED BY <1>11, <2>1, <3>2
  <2>3. ((m.out \o piece1) \o piece2) \o piece3 = Run(0, given)
    <3> DEFINE so == base + wide
    <3>1. so \in Nat /\ so = 0 + so /\ part \in Nat /\ given = so + part
      BY <1>5, <1>7
    <3> HIDE DEF given, piece1, piece2, piece3
    <3>2. ((m.out \o piece1) \o piece2) \o piece3 = Run(0, so) \o Run(so, part)
      BY <1>12, <2>2
    <3> HIDE DEF so
    <3>3. Run(0, so) \o Run(so, part) = Run(0, given)
      BY <3>1, RunFirst
    <3> QED BY <3>2, <3>3
  <2>4. given \in Nat
    BY <1>5, <1>7
  <2> HIDE DEF piece1, piece2, piece3
  <2> QED BY <2>3, <2>4
<1>14. Given(d) = given
  <2>1. CASE part = 0
    <3>1. d.rl = m.rl + whole /\ d.part = 0
      BY <1>1, <1>5, <1>6, <2>1
    <3>2. Given(d) = (m.rl + whole) * BlockUnits
      BY <3>1 DEF Given
    <3> QED BY <1>5, <1>7, <2>1, <3>2
  <2>2. CASE part # 0
    <3>1. d.rl = m.rl + whole + 1 /\ d.part = part /\ d.rl - 1 = m.rl + whole
      BY <1>1, <1>5, <1>6, <2>2
    <3>2. Given(d) = (m.rl + whole) * BlockUnits + part
      BY <2>2, <3>1 DEF Given
    <3> QED BY <1>7, <3>2
  <2> QED BY <2>1, <2>2
<1>15. rl \in Nat /\ m.rl <= rl /\ (part > 0 => rl > 0)
  <2>1. m.rl \in Nat /\ whole \in Nat /\ part \in Nat
    BY <1>1, <1>5
  <2>2. CASE part > 0
    <3>1. rl = m.rl + whole + 1
      BY <2>2
    <3> HIDE DEF rl
    <3> QED BY <2>1, <3>1
  <2>3. CASE ~(part > 0)
    <3>1. rl = m.rl + whole + 0
      BY <2>3
    <3> HIDE DEF rl
    <3> QED BY <2>1, <2>3, <3>1
  <2> QED BY <2>2, <2>3
<1>16. rl <= m.rl_end
  <2> DEFINE k == m.rl_end - m.rl
             room == k * BlockUnits
  <2>1. k \in Nat /\ Fed(m) = room /\ m.rl_end = m.rl + k
    BY <1>0, <1>1 DEF Fed
  <2>2. room \in Nat
    <3> HIDE DEF k
    <3> QED BY <2>1, ProductType
  <2>3. /\ size = rest + after /\ rest = Left(m) /\ size <= Left(m) + room
        /\ rest \in Nat /\ after \in Nat /\ after = wide + part /\ wide \in Nat /\ part \in Nat
    BY <1>4, <1>5, <2>1 DEF rest
  <2>4. wide + part <= room
    <3> HIDE DEF k, room
    <3> QED BY <2>2, <2>3
  <2>5. CASE part = 0
    <3>1. ASSUME k < whole PROVE FALSE
      <4>1. room + BlockUnits <= wide
        <5>1. k \in Int /\ whole \in Int
          BY <1>5, <2>1
        <5> HIDE DEF k
        <5> QED BY <1>2, <3>1, <5>1, PiecesApart DEF wide
      <4> HIDE DEF k, room
      <4> QED BY <1>2, <2>2, <2>3, <2>4, <4>1
    <3>2. rl = m.rl + whole
      BY <1>1, <1>5, <2>5
    <3> HIDE DEF rl, k, room
    <3> QED BY <1>1, <1>5, <2>1, <3>1, <3>2
  <2>6. CASE part > 0
    <3>1. ASSUME k < whole + 1 PROVE FALSE
      <4>1. room <= wide
        <5>1. k \in Int /\ whole \in Int
          BY <1>5, <2>1
        <5>2. CASE k = whole
          <6> HIDE DEF k
          <6>1. room = wide
            BY <5>2 DEF wide
          <6> HIDE DEF room
          <6> QED BY <2>2, <6>1
        <5>3. CASE k < whole
          <6>1. room + BlockUnits <= wide
            <7> HIDE DEF k
            <7> QED BY <1>2, <5>1, <5>3, PiecesApart DEF wide
          <6> HIDE DEF k, room
          <6> QED BY <1>2, <2>2, <2>3, <6>1
        <5> HIDE DEF k, room
        <5> QED BY <3>1, <5>1, <5>2, <5>3
      <4> HIDE DEF k, room
      <4> QED BY <2>2, <2>3, <2>4, <2>6, <4>1
    <3>2. rl = m.rl + whole + 1
      BY <2>6
    <3>3. ~(k < whole + 1) /\ k \in Nat /\ whole \in Nat
      BY <1>5, <2>1, <3>1
    <3>4. m.rl \in Nat /\ m.rl_end = m.rl + k
      BY <1>1, <2>1
    <3> HIDE DEF rl, k, room
    <3> QED BY <3>2, <3>3, <3>4
  <2> QED BY <1>5, <2>5, <2>6
<1>17. d.out \in Seq(Unit) /\ d.out = Run(0, Given(d))
  <2>1. Run(0, given) \in Seq(Unit)
    <3> HIDE DEF given
    <3> QED BY <1>13, RunType
  <2> HIDE DEF out, given
  <2> QED BY <1>6, <1>13, <1>14, <2>1
<1> HIDE DEF rl, out, given
<1>18. /\ d = [m EXCEPT !.out = d.out, !.rl = d.rl, !.part = d.part]
       /\ d.rl \in Nat /\ d.rl <= m.rl_end /\ d.part \in 0 .. BlockUnits - 1
       /\ d.part > 0 => d.rl > 0
  BY <1>5, <1>6, <1>15, <1>16
<1>19. GoesOn(m, d)
  BY <1>17, <1>18 DEF GoesOn
<1> QED BY <1>19 DEF d

LEMMA DecodeKeeps ==
  ASSUME NEW m, Decoded(m), NEW size \in Nat, Left(m) <= size, size <= Left(m) + Fed(m)
  PROVE  /\ Decoded(Decode(m, size))
         /\ Decode(m, size).busy = m.busy /\ Decode(m, size).pending = m.pending
         /\ Decode(m, size).rl_end = m.rl_end
<1> DEFINE d == Decode(m, size)
<1>1. m \in MdecRecord
  BY DEF Decoded
<1>2. GoesOn(m, d)
  BY <1>1, DecodeGoesOn
<1> HIDE DEF d
<1>3. d \in MdecRecord /\ d.busy = m.busy /\ d.pending = m.pending /\ d.rl_end = m.rl_end
  BY <1>1, <1>2 DEF MdecRecord, GoesOn
<1>4. Decoded(d)
  BY <1>2, <1>3 DEF Decoded, GoesOn
<1> QED BY <1>3, <1>4 DEF d

(* The fields that say how far the decoder is. *)
LEMMA DecodedSame ==
  ASSUME NEW m, NEW n \in MdecRecord, Decoded(m), n.rl = m.rl, n.part = m.part, n.out = m.out,
         m.rl_end <= n.rl_end
  PROVE  Decoded(n) /\ Left(n) = Left(m)
<1>1. /\ m \in MdecRecord /\ m.rl <= m.rl_end /\ (m.part > 0 => m.rl > 0)
      /\ m.out = Run(0, Given(m))
  BY DEF Decoded
<1>2. n.rl <= n.rl_end
  BY <1>1 DEF MdecRecord
<1>3. Given(n) = Given(m) /\ Left(n) = Left(m)
  BY DEF Given, Left
<1> QED BY <1>1, <1>2, <1>3 DEF Decoded

LEMMA LeftType == ASSUME NEW m \in MdecRecord PROVE Left(m) \in Nat
<1>1. m.part \in 0 .. BlockUnits - 1 /\ BlockUnits \in Nat \ {0}
  BY UnitsPositive DEF MdecRecord
<1> QED BY <1>1 DEF Left

(* A decoder that has done nothing. *)
LEMMA IdleDecoded == ASSUME NEW m \in MdecRecord, m.rl = 0, m.rl_end = 0, m.part = 0, m.out = <<>>
                     PROVE  Decoded(m) /\ Left(m) = 0
<1>1. Given(m) = 0 /\ Left(m) = 0
  BY UnitsPositive DEF Given, Left
<1>2. Run(0, 0) \in Seq(Unit) /\ Len(Run(0, 0)) = 0
  BY RunType
<1>3. Run(0, 0) = <<>>
  BY <1>2
<1> QED BY <1>1, <1>3 DEF Decoded

LEMMA MdecStarts == MdecInit => MdecInv
<1> SUFFICES ASSUME MdecInit PROVE MdecInv
  OBVIOUS
<1>1. busy = {} /\ armed = {} /\ mdec = IdleMdec
  BY DEF MdecInit
<1>2. IdleMdec \in MdecRecord
  <2>1. 0 \in 0 .. BlockUnits - 1 /\ <<>> \in Seq(Unit)
    BY UnitsPositive
  <2> QED BY <2>1 DEF IdleMdec, MdecRecord
<1>3. Decoded(mdec)
  <2>1. IdleMdec.rl = 0 /\ IdleMdec.rl_end = 0 /\ IdleMdec.part = 0 /\ IdleMdec.out = <<>>
    BY DEF IdleMdec
  <2>2. Decoded(IdleMdec)
    BY <1>2, <2>1, IdleDecoded
  <2> QED BY <1>1, <2>2
<1>4. mdec.busy = FALSE /\ mdec.pending = 0 /\ mdec.rl = mdec.rl_end
  BY <1>1 DEF IdleMdec
<1> QED BY <1>1, <1>3, <1>4 DEF MdecInv

LEMMA FetchKeeps ==
  ASSUME MdecInv, NEW size \in Nat \ {0}, Fetch(size)
  PROVE  MdecInv'
<1>0. Decoded(mdec) /\ mdec \in MdecRecord
  BY DEF MdecInv, Decoded
<1>1. CASE mdec.busy
  <2>1. /\ Left(mdec) <= size /\ size <= Left(mdec) + Fed(mdec) /\ mdec' = Decode(mdec, size)
        /\ busy' = busy \cup {1} /\ armed' = armed \cup {1}
    BY <1>1 DEF Fetch, Begins
  <2>2. Decoded(mdec') /\ mdec'.busy = mdec.busy /\ mdec'.pending = mdec.pending
    <3>1. size \in Nat
      OBVIOUS
    <3> QED BY <1>0, <2>1, <3>1, DecodeKeeps
  <2>3. 0 \in busy /\ 0 \notin armed /\ mdec.pending = 0
    BY <1>1 DEF MdecInv
  <2>4. Decoded(mdec)'
    BY <2>2
  <2> QED BY <1>1, <2>1, <2>2, <2>3, <2>4 DEF MdecInv
<1>2. CASE ~mdec.busy
  <2>1. /\ Left(mdec) <= size /\ mdec' = [mdec EXCEPT !.pending = size]
        /\ busy' = busy \cup {1} /\ armed' = armed
    BY <1>2 DEF Fetch
  <2>2. /\ mdec' \in MdecRecord /\ mdec'.pending = size /\ mdec'.busy = mdec.busy
        /\ mdec'.rl = mdec.rl /\ mdec'.rl_end = mdec.rl_end /\ mdec'.part = mdec.part
        /\ mdec'.out = mdec.out /\ mdec.rl_end <= mdec'.rl_end
    BY <1>0, <2>1 DEF MdecRecord
  <2>3. Decoded(mdec') /\ Left(mdec') = Left(mdec)
    BY <1>0, <2>2, DecodedSame
  <2>4. Decoded(mdec)' /\ Left(mdec)' = Left(mdec)
    BY <2>3
  <2> QED BY <1>2, <2>1, <2>2, <2>4 DEF MdecInv
<1> QED BY <1>1, <1>2

LEMMA FeedKeeps ==
  ASSUME MdecInv, NEW blocks \in Nat \ {0}, Feed(blocks)
  PROVE  MdecInv'
<1> DEFINE fed == [mdec EXCEPT !.busy = TRUE, !.pending = 0,
                               !.rl = mdec.rl_end, !.rl_end = mdec.rl_end + blocks]
<1>0. Decoded(mdec) /\ mdec \in MdecRecord
  BY DEF MdecInv, Decoded
<1>1. /\ 0 \notin busy /\ mdec.pending <= Left(mdec) + blocks * BlockUnits
      /\ busy' = busy \cup {0}
      /\ IF mdec.pending > 0
         THEN mdec' = Decode(fed, mdec.pending) /\ armed' = armed \cup {1}
         ELSE mdec' = fed /\ armed' = armed
  BY DEF Feed
<1>2. ~mdec.busy /\ mdec.rl = mdec.rl_end /\ 0 \notin armed /\ 1 \notin armed
      /\ (mdec.pending > 0 => Left(mdec) <= mdec.pending)
  BY <1>1 DEF MdecInv
<1>3. /\ fed \in MdecRecord /\ fed.busy = TRUE /\ fed.pending = 0 /\ fed.rl = mdec.rl
      /\ fed.rl_end = mdec.rl + blocks /\ fed.part = mdec.part /\ fed.out = mdec.out
      /\ mdec.rl_end <= fed.rl_end /\ fed.rl_end - fed.rl = blocks
  <2>1. mdec.rl_end \in Nat /\ mdec.rl = mdec.rl_end /\ mdec.rl_end + blocks \in Nat
    BY <1>0, <1>2 DEF MdecRecord
  <2>2. /\ fed \in MdecRecord /\ fed.busy = TRUE /\ fed.pending = 0 /\ fed.rl = mdec.rl_end
        /\ fed.rl_end = mdec.rl_end + blocks /\ fed.part = mdec.part /\ fed.out = mdec.out
    BY <1>0, <2>1 DEF MdecRecord
  <2> HIDE DEF fed
  <2> QED BY <2>1, <2>2
<1> HIDE DEF fed
<1>4. Decoded(fed) /\ Left(fed) = Left(mdec)
  BY <1>0, <1>3, DecodedSame
<1>5. Fed(fed) = blocks * BlockUnits
  BY <1>3 DEF Fed
<1>6. CASE mdec.pending > 0
  <2>1. mdec.pending \in Nat /\ Left(fed) <= mdec.pending /\ mdec.pending <= Left(fed) + Fed(fed)
    BY <1>0, <1>1, <1>2, <1>4, <1>5, <1>6 DEF MdecRecord
  <2>2. /\ Decoded(Decode(fed, mdec.pending))
        /\ Decode(fed, mdec.pending).busy = fed.busy
        /\ Decode(fed, mdec.pending).pending = fed.pending
    <3> DEFINE pending == mdec.pending
    <3>1. pending \in Nat /\ Left(fed) <= pending /\ pending <= Left(fed) + Fed(fed)
      BY <2>1
    <3> HIDE DEF pending
    <3>2. /\ Decoded(Decode(fed, pending)) /\ Decode(fed, pending).busy = fed.busy
          /\ Decode(fed, pending).pending = fed.pending
      BY <1>4, <3>1, DecodeKeeps
    <3> QED BY <3>2 DEF pending
  <2>3. mdec' = Decode(fed, mdec.pending) /\ armed' = armed \cup {1}
    BY <1>1, <1>6
  <2>4. Decoded(mdec') /\ mdec'.busy = TRUE /\ mdec'.pending = 0
    BY <1>3, <2>2, <2>3
  <2>5. Decoded(mdec)'
    BY <2>4
  <2> QED BY <1>1, <1>2, <2>3, <2>4, <2>5 DEF MdecInv
<1>7. CASE ~(mdec.pending > 0)
  <2>1. mdec' = fed /\ armed' = armed
    BY <1>1, <1>7
  <2>2. Decoded(mdec)' /\ mdec'.busy = TRUE /\ mdec'.pending = 0
    BY <1>3, <1>4, <2>1
  <2> QED BY <1>1, <1>2, <2>1, <2>2 DEF MdecInv
<1> QED BY <1>6, <1>7

LEMMA ResetKeeps == ASSUME MdecInv, ResetMdec PROVE MdecInv'
<1>0. mdec \in MdecRecord
  BY DEF MdecInv, Decoded
<1>1. /\ armed' = {} /\ busy' = busy \ {0, 1}
      /\ mdec' = [mdec EXCEPT !.busy = FALSE, !.pending = 0, !.part = 0,
                              !.rl = 0, !.rl_end = 0, !.out = <<>>]
  BY <1>0 DEF ResetMdec, ResetRegisters, MdecRecord
<1>2. 0 \in 0 .. BlockUnits - 1 /\ <<>> \in Seq(Unit)
  BY UnitsPositive
<1>3. /\ mdec' \in MdecRecord /\ mdec'.busy = FALSE /\ mdec'.pending = 0
      /\ mdec'.rl = 0 /\ mdec'.rl_end = 0 /\ mdec'.part = 0 /\ mdec'.out = <<>>
  BY <1>0, <1>1, <1>2 DEF MdecRecord
<1>4. Decoded(mdec')
  BY <1>3, IdleDecoded
<1>5. Decoded(mdec)'
  BY <1>4
<1> QED BY <1>1, <1>3, <1>5 DEF MdecInv

LEMMA OutEventKeeps == ASSUME MdecInv, OutEvent PROVE MdecInv'
<1>0. Decoded(mdec) /\ mdec \in MdecRecord /\ mdec.rl <= mdec.rl_end
      /\ mdec.rl \in Nat /\ mdec.rl_end \in Nat
  BY DEF MdecInv, Decoded, MdecRecord
<1>1. 1 \in armed /\ mdec.busy = TRUE /\ 0 \in busy /\ 0 \notin armed /\ mdec.pending = 0
  BY <1>0 DEF MdecInv, OutEvent, MdecRecord
<1>2. armed' = armed \ {1}
  BY DEF OutEvent
<1>3. CASE mdec.rl >= mdec.rl_end
  <2>1. busy' = busy \ {0, 1} /\ mdec' = [mdec EXCEPT !.busy = FALSE]
    BY <1>0, <1>1, <1>3 DEF OutEvent, MdecRecord
  <2>2. /\ mdec' \in MdecRecord /\ mdec'.busy = FALSE /\ mdec'.pending = 0
        /\ mdec'.rl = mdec.rl /\ mdec'.rl_end = mdec.rl_end /\ mdec'.part = mdec.part
        /\ mdec'.out = mdec.out
    BY <1>0, <1>1, <2>1 DEF MdecRecord
  <2>5. mdec.rl_end <= mdec'.rl_end
    BY <1>0, <2>2
  <2>3. Decoded(mdec)'
    <3>1. Decoded(mdec')
      BY <1>0, <2>2, <2>5, DecodedSame
    <3> QED BY <3>1
  <2>4. mdec.rl = mdec.rl_end
    BY <1>0, <1>3
  <2> QED BY <1>1, <1>2, <2>1, <2>2, <2>3, <2>4 DEF MdecInv
<1>4. CASE ~(mdec.rl >= mdec.rl_end)
  <2>1. busy' = busy \ {1} /\ mdec' = [mdec EXCEPT !.busy = TRUE]
    BY <1>0, <1>1, <1>4 DEF OutEvent, MdecRecord
  <2>2. mdec' = mdec
    BY <1>0, <1>1, <2>1 DEF MdecRecord
  <2>3. Decoded(mdec)'
    BY <1>0, <2>2
  <2> QED BY <1>1, <1>2, <2>1, <2>2, <2>3 DEF MdecInv
<1> QED BY <1>3, <1>4

LEMMA MdecKept == MdecInv /\ [MdecNext]_mdec_vars => MdecInv'
<1> SUFFICES ASSUME MdecInv, [MdecNext]_mdec_vars PROVE MdecInv'
  OBVIOUS
<1>1. ASSUME NEW size \in 1 .. MaxBlocks * BlockUnits, Fetch(size) PROVE MdecInv'
  <2>1. size \in Nat \ {0}
    BY MdecAssumption
  <2> QED BY <1>1, <2>1, FetchKeeps
<1>2. ASSUME NEW blocks \in 1 .. MaxBlocks, Feed(blocks) PROVE MdecInv'
  <2>1. blocks \in Nat \ {0}
    BY MdecAssumption
  <2> QED BY <1>2, <2>1, FeedKeeps
<1>3. CASE UploadTable
  <2>1. /\ 0 \notin busy /\ busy' = busy \cup {0} /\ armed' = armed \cup {0} /\ mdec' = mdec
    BY <1>3 DEF UploadTable, Begins
  <2>2. ~mdec.busy /\ 1 \notin armed
    BY <2>1 DEF MdecInv
  <2>3. Decoded(mdec)' /\ Left(mdec)' = Left(mdec)
    BY <2>1 DEF MdecInv
  <2> QED BY <2>1, <2>2, <2>3 DEF MdecInv
<1>4. CASE ResetMdec
  BY <1>4, ResetKeeps
<1>5. CASE OutEvent
  BY <1>5, OutEventKeeps
<1>6. CASE EndEvent(0)
  <2>1. 0 \in armed /\ armed' = armed \ {0} /\ busy' = busy \ {0} /\ mdec' = mdec
    BY <1>6 DEF EndEvent
  <2>2. ~mdec.busy /\ 1 \notin armed
    BY <2>1 DEF MdecInv
  <2>3. Decoded(mdec)' /\ Left(mdec)' = Left(mdec)
    BY <2>1 DEF MdecInv
  <2> QED BY <2>1, <2>2, <2>3 DEF MdecInv
<1>7. CASE UNCHANGED mdec_vars
  BY <1>7 DEF mdec_vars, MdecInv, Decoded, Left, Given
<1> QED BY <1>1, <1>2, <1>3, <1>4, <1>5, <1>6, <1>7 DEF MdecNext, Watches

LEMMA MdecOrdered == MdecInv => BlocksInOrder
<1> SUFFICES ASSUME MdecInv, NEW i \in DOMAIN mdec.out
             PROVE  mdec.out[i] = <<(i - 1) \div BlockUnits + 1, ((i - 1) % BlockUnits) + 1>>
  BY DEF BlocksInOrder
<1> DEFINE given == Given(mdec)
<1>1. mdec.out = Run(0, given)
  BY DEF MdecInv, Decoded
<1> HIDE DEF given
<1>2. i \in 1 .. given /\ mdec.out[i] = UnitAt(0 + i)
  BY <1>1 DEF Run
<1>3. mdec.out[i] = UnitAt(i)
  <2>1. i = 0 + i
    BY <1>2
  <2> HIDE DEF given
  <2> QED BY <1>2, <2>1
<1> QED BY <1>3 DEF UnitAt

(* Whatever the size of a block, the sizes of the requests and the order of *)
(* feeding, fetching and resetting, the decoder hands out every unit of     *)
(* every block it is fed once and in its place (psxDma0, psxDma1,           *)
(* mdec1Interrupt, mdecWrite1).                                             *)
THEOREM BlocksComeInOrder == MdecSpec => []BlocksInOrder
<1>1. MdecInit => MdecInv
  BY MdecStarts
<1>2. MdecInv /\ [MdecNext]_mdec_vars => MdecInv'
  BY MdecKept
<1>3. MdecInv => BlocksInOrder
  BY MdecOrdered
<1> QED BY <1>1, <1>2, <1>3, PTL DEF MdecSpec
=============================================================================

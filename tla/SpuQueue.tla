------------------------------ MODULE SpuQueue ------------------------------
(***************************************************************************)
(* What the sound mixer promises to whoever listens to it: every stretch   *)
(* of sound ("update") the emulated SPU asks for is written to the output  *)
(* buffer once, and at most Capacity updates are ever owed.  They come in  *)
(* the order of emulated time, except where the threading option has just  *)
(* been switched off: then an update may overtake those still owed.        *)
(* SpuWorker implements this module.                                       *)
(***************************************************************************)
EXTENDS Integers, Sequences

CONSTANT Capacity        \* at least 1: how many updates may be owed to the output

VARIABLES
  threaded,              \* the "Threaded SPU" option
  requested,             \* how many updates emulated time has asked for
  owed,                  \* the updates asked for and not yet played, in order
  played                 \* the last update written to the output buffer

qvars == <<threaded, requested, owed, played>>

Init == threaded = TRUE /\ requested = 0 /\ owed = <<>> /\ played = 0

(* An update is handed to the worker. *)
Request ==
  /\ threaded
  /\ Len(owed) < Capacity
  /\ requested' = requested + 1
  /\ owed' = Append(owed, requested + 1)
  /\ UNCHANGED <<threaded, played>>

(* The oldest owed update reaches the output. *)
Play ==
  /\ owed # <<>>
  /\ played' = Head(owed)
  /\ owed' = Tail(owed)
  /\ UNCHANGED <<threaded, requested>>

(* An update is mixed and played at once, which needs an empty queue or    *)
(* the option off.                                                         *)
PlayDirect ==
  /\ owed = <<>> \/ ~threaded
  /\ requested' = requested + 1
  /\ played' = requested + 1
  /\ UNCHANGED <<threaded, owed>>

Toggle ==
  /\ threaded' = ~threaded
  /\ UNCHANGED <<requested, owed, played>>

Next == Request \/ Play \/ PlayDirect \/ Toggle

Spec == Init /\ [][Next]_qvars
=============================================================================

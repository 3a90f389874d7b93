--------------------------- MODULE MCRootCounters ---------------------------
(* An instance of RootCounters for TLC. *)
EXTENDS RootCounters

Programmed(toTarget, onTarget, onOverflow, regenerate) ==
  [toTarget |-> toTarget, onTarget |-> onTarget, onOverflow |-> onOverflow,
   regenerate |-> regenerate]

(* A timer of a given period, for once, and one that runs free. *)
SomeModes == {Programmed(TRUE, TRUE, TRUE, FALSE), Programmed(FALSE, TRUE, TRUE, TRUE)}
=============================================================================

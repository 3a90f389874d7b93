---------------------------- MODULE MCEventSched ----------------------------
(* Instances of EventSched: a CD command event that arms itself and the    *)
(* read event and may cancel the latter, the read event, and the counters. *)
EXTENDS EventSched, TLC

CDR == 0
CDREAD == 1
RCNT == 2
ThreeEvents == {CDR, CDREAD, RCNT}
CdArms == (CDR :> {CDR, CDREAD}) @@ (CDREAD :> {CDREAD}) @@ (RCNT :> {RCNT})
CdCancels == (CDR :> {CDREAD}) @@ (CDREAD :> {}) @@ (RCNT :> {})
SomeDelays == {0, 1, 4}
=============================================================================

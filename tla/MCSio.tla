------------------------------- MODULE MCSio -------------------------------
(* An instance of Sio for TLC. *)
EXTENDS Sio
=============================================================================

------------------------------- MODULE MCCdda -------------------------------
(* Instances of Cdda for TLC. *)
EXTENDS Cdda
=============================================================================

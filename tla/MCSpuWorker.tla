---------------------------- MODULE MCSpuWorker ----------------------------
(* Instances of SpuWorker for TLC: two voices, one of them captured. *)
EXTENDS SpuWorker, TLC

CONSTANTS v1, v2

OneVoice == {v1}
TwoVoices == {v1, v2}
AllCallers == {"async", "reg", "mem", "load"}
AudioCallers == {"async", "reg"}
=============================================================================

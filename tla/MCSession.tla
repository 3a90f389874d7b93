----------------------------- MODULE MCSession -----------------------------
(* Instances of Session for TLC: the players of one question at a time. *)
EXTENDS Session, TLC

CONSTANTS d1, d2

Player(discs, keys, menu, may) ==
  [discs |-> discs, keys |-> keys, menu |-> menu, alarms |-> may,
   patient |-> FALSE, exitdir |-> FALSE]

(* Two discs, with AB_EXIT_DIR set. *)
DiscPlayer ==
  [Player({d1, d2}, {"reset", "cd_change", "load"}, {}, {})
     EXCEPT !.patient = TRUE, !.exitdir = TRUE]

(* One disc, either one, and everything the menu offers. *)
MenuPlayer(d) ==
  Player({d}, {"reset", "menu"},
         {"autosave", "load", "swap", "next", "restart", "exit"}, {})

(* The power button and the temperature, with keys held down. *)
AlarmedPlayer == Player({d1}, {"reset", "cd_change"}, {}, {"power", "hot"})

TwoDiscs == {d1, d2}
SafetyPlayers == {DiscPlayer} \cup {MenuPlayer(d) : d \in TwoDiscs}

(* The discs are interchangeable; only safety is checked with it. *)
DiscSymmetry == Permutations(TwoDiscs)
AlarmedPlayers == {AlarmedPlayer}
=============================================================================

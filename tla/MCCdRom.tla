------------------------------ MODULE MCCdRom ------------------------------
(* Instances of CdRom for TLC: the guests of one question at a time. *)
EXTENDS CdRom, TLC

Running(commands, modes, may) == [commands |-> commands, modes |-> modes, may |-> may]

(* Data commands, in any order and at any time, with bad sectors. *)
DataGuest ==
  Running({"Sync", "Nop", "Read", "Pause", "Stop", "Init", "Seek"}, {{}},
          {"read_fails", "mask", "hurry"})

(* Reading, playing and stopping while the disc is changed. *)
DriveGuests ==
  {Running(c, {{}}, {"open", "hurry"}) :
     c \in {{"Read", "Play", "Reset"}, {"Play", "Stop", "Forward"}}}

(* Audio in every mode, saved, loaded and reset at any time. *)
AudioGuests ==
  {Running({"Play", "Pause"}, {{"CDDA", "REPORT"}}, {"save"}),
   Running({"Play", "Setmode"}, {{"CDDA"}, {"CDDA", "AUTOPAUSE"}}, {"save"}),
   Running({"Play", "Read"}, {{}}, {"save"})}

(* Every kind of command, one at a time. *)
PoliteGuest ==
  Running({"Setloc", "Read", "Play", "Pause", "Stop", "Standby", "Init", "ID", "ReadToc",
           "ReadT", "GetTN", "Getmode", "Mute", "Undefined", "Setmode"}, {{}, {"STRSND"}}, {})

(* A game that goes on while the player changes discs. *)
LidGuest == Running({"Nop", "Read", "Pause", "Seek"}, {{}}, {"open", "hurry"})

AllGuests == {DataGuest, PoliteGuest, LidGuest} \cup DriveGuests \cup AudioGuests
=============================================================================

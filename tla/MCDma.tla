-------------------------------- MODULE MCDma --------------------------------
(* Programs of up to three commands, of every kind, with transfers of      *)
(* pixels that end within a word, go on to another line, and wrap around.  *)
EXTENDS Dma

Command == [cmd : {"show", "hide", "quad"}, w : {0}, h : {0}]
           \cup [cmd : {"line"}, w : {2, 3}, h : {0}]
           \cup [cmd : {"write"}, w : {3}, h : {1, 2}] \cup [cmd : {"read"}, w : {3}, h : {1}]
Triples == UNION {[1 .. n -> Command] : n \in 1 .. 3}
=============================================================================

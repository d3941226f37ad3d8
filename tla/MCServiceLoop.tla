--------------------------- MODULE MCServiceLoop ---------------------------
(* A small instance of ServiceLoop for TLC. *)
EXTENDS ServiceLoop

MCAsock == 1 .. 2
MCFD == 0 .. 3
=============================================================================

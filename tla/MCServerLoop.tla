---------------------------- MODULE MCServerLoop ----------------------------
(* Small instances of ServerLoop for TLC. *)
EXTENDS ServerLoop

MCAsock == 1 .. 2
MCThreeAsocks == 1 .. 3
MCFD == 0 .. 2
MCMoreFD == 0 .. 3
=============================================================================

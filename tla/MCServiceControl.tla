-------------------------- MODULE MCServiceControl --------------------------
(* A small instance of ServiceControl for TLC. *)
EXTENDS ServiceControl

CONSTANTS main, second, third

MCCallers == {main, second, third}
=============================================================================

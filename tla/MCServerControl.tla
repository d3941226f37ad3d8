--------------------------- MODULE MCServerControl ---------------------------
(* Small instances of ServerControl for TLC. *)
EXTENDS ServerControl

CONSTANTS main, second, third

MCOneCaller == {main}
MCCallers == {main, second, third}
=============================================================================

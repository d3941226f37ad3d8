---------------------------- MODULE MCDirective ----------------------------
(* Small instances of Directive for TLC: a result names its directive, so  *)
(* that a wrong answer can be told from the right one.                     *)
EXTENDS Directive

CONSTANTS Start, Create, Stop, c1, c2, c3

MCType == {Start, Create, Stop}
MCCallers == {c1, c2, c3}
MCResult == {<<t, s>> : t \in MCType, s \in {"ok", "failed"}} \union {SUCCESS}
MCAnswers(t) == {<<t, s>> : s \in {"ok", "failed"}}
=============================================================================

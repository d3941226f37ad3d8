-------------------------- MODULE MCServiceManager --------------------------
(* A small instance of ServiceManager for TLC. *)
EXTENDS ServiceManager, TLC

CONSTANTS t1, t2, host, other, v1, v2, v3

MCThread == {t1, t2}
MCNetNs == {host, other}
MCService == {v1, v2, v3}
MCSymmetry ==
    Permutations(MCThread) \union Permutations(MCService)
=============================================================================

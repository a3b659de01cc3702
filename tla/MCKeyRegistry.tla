--------------------------- MODULE MCKeyRegistry ---------------------------
(* A small instance of KeyRegistry for TLC. *)
EXTENDS KeyRegistry, TLC

CONSTANTS k1, k2, k3, pool, challenge, stranger, t1, t2

MCKeys == {k1, k2, k3}
MCCallers == {pool, challenge, stranger}
MCAccounts == {pool, challenge}
MCTraders == {t1, t2}
=============================================================================

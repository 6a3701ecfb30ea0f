---------------------------- MODULE MCArenaBattle ----------------------------
(* Small instances of ArenaBattle: a socket of a host and one of a player. *)
EXTENDS ArenaBattle, TLC

CONSTANTS h1, p1, hal, pam

MCUserOf == [s \in Sockets |-> IF s = h1 THEN hal ELSE pam]

Symmetry == Permutations(Calls)
=============================================================================

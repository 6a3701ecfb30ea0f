----------------------------- MODULE MCExercises -----------------------------
(***************************************************************************)
(* An instance of Exercises for TLC.  The memory games have nothing to do  *)
(* with the rest: a behaviour is followed while it concerns one of them,   *)
(* and until something is raced for, after which nothing is promised of it.*)
(***************************************************************************)
EXTENDS Exercises, TLC

CONSTANTS d1, d2, l1, l2, a1, u1, u2

OneConcern ==
    /\ raced = {}
    /\ doc[d2].edition = 1       \* one of the documents is updated
    /\ ~((Busy({"play"}) \/ \E u \in Users : best[u].there)
           /\ (Busy(Ops \ {"idle", "play"}) \/ \E d \in Docs : doc[d].state # "new"))

Symmetry == Permutations(Requests) \cup Permutations(Links) \cup Permutations(Results)
=============================================================================

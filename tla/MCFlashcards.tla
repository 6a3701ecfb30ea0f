---------------------------- MODULE MCFlashcards ----------------------------
(***************************************************************************)
(* An instance of Flashcards for TLC.  Progress, the slug and membership   *)
(* hardly depend on each other: a behaviour is followed while it concerns  *)
(* one of them (and at most one review beside the others), and until that  *)
(* is raced for, after which nothing is promised of it.                    *)
(***************************************************************************)
EXTENDS Flashcards, TLC

CONSTANTS u1, u2, u3

Concerns ==
    {t \in {"progress", "slug", "members"} :
        \/ t = "progress" /\ (reviews > 1 \/ (reviews > 0 /\ deck.edition > 1))
        \/ t = "slug" /\ (Busy({"view"}) \/ (slug = NoSlug /\ There))
        \/ t = "members" /\ (folder.state # "new" \/ deck.members # Nobody \/
                             Busy({"joinDeck", "leaveDeck", "createFolder"}))}

OneConcern == raced = {} /\ Cardinality(Concerns) <= 1

Symmetry == Permutations(Requests) \cup Permutations({u2, u3})
=============================================================================

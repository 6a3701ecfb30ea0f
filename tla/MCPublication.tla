---------------------------- MODULE MCPublication ----------------------------
(***************************************************************************)
(* An instance of Publication for TLC.  Likes and views, comments, and     *)
(* edits touch different fields and meet only in the deletion of the       *)
(* publication: a behaviour is followed while it concerns one of the       *)
(* three, and until likes or comments race or every image has become       *)
(* stray, after which nothing is promised of them.                         *)
(***************************************************************************)
EXTENDS Publication, TLC

Concerns ==
    {t \in Topics :
        \/ /\ t = "engagement"
           /\ Busy({"like", "view"}) \/ liked \cup viewed # {} \/ doc.likes # 0 \/ doc.views # 0
        \/ t = "comments" /\ (Busy({"comment", "uncomment"}) \/ \E c \in Comments : row[c].stage # "new")
        \/ t = "images" /\ (Busy({"update"}) \/ held # Images \/ stray # {})}

OneConcern == Cardinality(Concerns) <= 1 /\ raced \subseteq {"images"} /\ stray # Images

Symmetry == Permutations(Requests) \cup Permutations(Comments) \cup Permutations(Images)
=============================================================================

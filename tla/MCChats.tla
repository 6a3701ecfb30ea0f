------------------------------- MODULE MCChats -------------------------------
(***************************************************************************)
(* An instance of Chats for TLC.  Members, messages, keys and calls are    *)
(* fields of their own: a behaviour is followed while it concerns one of   *)
(* them, and until previews or keys race, after which nothing is promised  *)
(* of them.                                                                *)
(***************************************************************************)
EXTENDS Chats, TLC

CONSTANTS u1, u2, u3

MCAdminLists ==
    {<<>>, u2 :> {"add_members"}, u2 :> {"remove_members", "delete_others_messages"},
     u2 :> {"add_admins"}, u2 :> {"add_members"} @@ u3 :> {"remove_members"},
     u3 :> {"add_admins", "remove_members"}}

Concerns ==
    {t \in {"group", "messages", "keys", "call"} :
        \/ t = "group" /\ (Busy({"edit", "join", "leave"}) \/ chat.admins # <<>>)
        \/ t = "messages" /\ (sent > 0 \/ Busy({"send"}))
        \/ t = "keys" /\ (Busy({"register", "disable"}) \/ keys # {})
        \/ t = "call" /\ (Busy({"start", "end"}) \/ caller # Nobody \/ \E a \in Asks : ask[a].status # "new")}

OneConcern ==
    /\ raced = {}
    /\ Concerns \in {{}, {"group"}, {"messages"}, {"keys"}, {"call"}}

Symmetry == Permutations(Requests)
=============================================================================

----------------------------- MODULE MCVideoRoom -----------------------------
(* Small instances of VideoRoom: two sockets of the creator's account and     *)
(* sockets of another account and of a guest.                                 *)
EXTENDS VideoRoom, TLC

CONSTANTS c1, c2, a1, a2, g1, ann, bob, r1, r2

MCUserOf == [s \in Sockets |-> IF s \in {c1, c2} THEN ann
                               ELSE IF s \in {a1, a2} THEN bob ELSE Guest]

\* r1 is also the name of a chat call that ann started with bob.
MCCallMembers == [r \in RoomIds |-> IF r = r1 THEN {ann, bob} ELSE {}]
MCCallCreator == [r \in RoomIds |-> ann]

Symmetry ==
    Permutations(Sockets \cap {c1, c2}) \cup Permutations(Sockets \cap {a1, a2})
    \cup Permutations(Objs) \cup Permutations(Calls)

\* An object nothing refers to is garbage: what it last held changes nothing.
NoGarbage ==
    <<conn, rooms, [o \in Objs |-> IF Live(o) THEN room[o] ELSE NoRoom], chan, call>>
=============================================================================

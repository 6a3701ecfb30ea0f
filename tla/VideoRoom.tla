------------------------------ MODULE VideoRoom ------------------------------
(***************************************************************************)
(* The meeting rooms of the /video gateway (video/video.gateway.ts): the   *)
(* in-memory map `rooms`, the RoomInfo objects it names, and the handlers  *)
(* that create, join, knock at, approve, leave, kick from and clean up a   *)
(* room.  Node runs one handler at a time, up to its next `await`; a       *)
(* handler that awaits keeps the RoomInfo OBJECT it looked up, not its     *)
(* name, and goes on with it however the map has changed meanwhile.  So    *)
(* rooms maps a name to an object, room maps an object to its contents,    *)
(* and call[c] is a handler suspended at an await.                         *)
(***************************************************************************)
EXTENDS Naturals, FiniteSets

CONSTANTS
    Sockets,      \* socket ids; one is never used again after it disconnects
    Users,        \* account ids (the token's `sub`)
    Guest,        \* the user of a socket that connected without an account
    UserOf,       \* the user behind each socket, fixed by handleConnection
    RoomIds,      \* the room names clients use
    Objs,         \* RoomInfo objects alive at the same time (a bound)
    Calls,        \* handlers suspended at the same time (a bound)
    Limits,       \* participant limits of the tiers, APP_LIMITS.meetParticipants
    ChatLimit,    \* participantLimit of a rehydrated chat call (2 in the code)
    CallMembers,  \* the chat members of each room name that a chat call uses
    CallCreator,  \* the videoCallCreatorId of that chat
    NoSock, NoObj, NoRoom, Idle

ASSUME ConstantsAssumption ==
    /\ Guest \notin Users
    /\ UserOf \in [Sockets -> Users \cup {Guest}]
    /\ Limits \subseteq Nat \ {0}
    /\ ChatLimit \in Nat \ {0}
    /\ CallMembers \in [RoomIds -> SUBSET Users]
    /\ CallCreator \in [RoomIds -> Users]
    /\ NoSock \notin Sockets /\ NoObj \notin Objs
    /\ IsFiniteSet(Sockets)

VARIABLES
    conn,         \* "up" or "down"; a socket yet to connect is one that is
                  \* up and has sent nothing, since handleConnection only
                  \* looks up its user
    rooms,        \* the map from room names to RoomInfo objects
    room,         \* the contents of each object
    chan,         \* the socket.io channel of each room name
    call          \* the suspended handlers

vars == <<conn, rooms, room, chan, call>>

RoomInfo ==
    [id : RoomIds, creatorUser : Users, creatorSock : Sockets \cup {NoSock},
     private : BOOLEAN, limit : Limits \cup {ChatLimit},
     peers : SUBSET Sockets,      \* keys of `peers` and of `peerUsers`
     knock : SUBSET Sockets,      \* the sockets held by knockQueue's entries
     timers : SUBSET Sockets,     \* running 7 s grace timers
     ctimers : SUBSET Sockets,    \* running 14 s `creator:` timers
     bound : BOOLEAN]             \* lessonBinding has been resolved

ASSUME NoRoomAssumption == NoRoom \notin RoomInfo

\* What a suspended handler waits for: getPremiumStatus ("premium"), the chat
\* lookup ("rehydrate"), or resolveLessonBinding before it goes on with its
\* room object ("created", "reclaim", "join").
CallInfo ==
    [op : {"premium", "rehydrate", "created", "reclaim", "join"},
     sock : Sockets, id : RoomIds, obj : Objs \cup {NoObj},
     private : BOOLEAN, busy : BOOLEAN]

TypeOK ==
    /\ conn \in [Sockets -> {"up", "down"}]
    /\ rooms \in [RoomIds -> Objs \cup {NoObj}]
    /\ room \in [Objs -> RoomInfo \cup {NoRoom}]
    /\ chan \in [RoomIds -> SUBSET Sockets]
    /\ call \in [Calls -> CallInfo \cup {Idle}]

-----------------------------------------------------------------------------
Init ==
    /\ conn = [s \in Sockets |-> "up"]
    /\ rooms = [r \in RoomIds |-> NoObj]
    /\ room = [o \in Objs |-> NoRoom]
    /\ chan = [r \in RoomIds |-> {}]
    /\ call = [c \in Calls |-> Idle]

IsUser(s) == UserOf[s] # Guest

\* Something still refers to the object: the map, a suspended handler or a
\* timer's closure.  Any other object is garbage and may be allocated again.
Live(o) ==
    \/ \E r \in RoomIds : rooms[r] = o
    \/ \E c \in Calls : call[c] # Idle /\ call[c].obj = o
    \/ room[o] # NoRoom /\ room[o].timers \cup room[o].ctimers # {}

Suspend(c, op, s, r, o, private, busy) ==
    call' = [call EXCEPT ![c] = [op |-> op, sock |-> s, id |-> r, obj |-> o,
                                 private |-> private, busy |-> busy]]

Finish(c) == call' = [call EXCEPT ![c] = Idle]

(* A definition whose name ends in _Bug is the definition of that name with a   *)
(* plausible mistake seeded in it; the checks confirm that a property notices.  *)

SamePeerKey_Bug(s, t) == s = t                       \* keyed by socket only

\* knockQueue is keyed by the user, or by the socket of a guest: sockets with
\* the same key share one entry.
SamePeerKey(s, t) == s = t \/ (IsUser(s) /\ UserOf[s] = UserOf[t])

\* peerUsers' other sockets of the same user; replaceExistingPeerSocket takes
\* the first one, and does nothing for a guest.
OtherSeats(R, s) == {t \in R.peers : t # s /\ IsUser(s) /\ UserOf[t] = UserOf[s]}
FirstOther(R, s) == IF OtherSeats(R, s) = {} THEN {NoSock} ELSE OtherSeats(R, s)

ReplaceSeat_TakesControl_Bug(R, old, s) ==
    IF old = NoSock THEN R
    ELSE [R EXCEPT !.peers = @ \ {old}, !.timers = @ \ {old}, !.creatorSock = s]
ReplaceSeat_KeepsTimer_Bug(R, old, s) ==
    IF old = NoSock THEN R
    ELSE [R EXCEPT !.peers = @ \ {old}, !.creatorSock = IF @ = old THEN s ELSE @]

ReplaceSeat(R, old, s) ==
    IF old = NoSock THEN R
    ELSE [R EXCEPT !.peers = @ \ {old}, !.timers = @ \ {old},
                   !.creatorSock = IF @ = old THEN s ELSE @]

\* admitPeer, with the clearDisconnectTimer it calls.
Admit(R, ss) == [R EXCEPT !.peers = @ \cup ss, !.timers = @ \ ss]

RemovePeer_Bug(R, s) ==                              \* the creator's seat stays
    [R EXCEPT !.peers = IF R.creatorSock = s THEN @ ELSE @ \ {s}, !.timers = @ \ {s},
              !.creatorSock = IF @ = s THEN NoSock ELSE @]

RemovePeer(R, s) ==
    [R EXCEPT !.peers = @ \ {s}, !.timers = @ \ {s},
              !.creatorSock = IF @ = s THEN NoSock ELSE @]

DropIfEmpty_Bug(R, r) ==                             \* private rooms are kept
    IF R.peers = {} /\ ~R.private THEN [rooms EXCEPT ![r] = NoObj] ELSE rooms

\* removePeerFromRoom's last step: the map forgets the NAME, whichever object
\* it stands for by now.
DropIfEmpty(R, r) == IF R.peers = {} THEN [rooms EXCEPT ![r] = NoObj] ELSE rooms

Full_Bug(R) == Cardinality(R.peers) > R.limit        \* off by one
Full(R) == Cardinality(R.peers) >= R.limit

LeaveChan_Bug(ch, r, s) == ch                        \* no socket.leave
\* A socket the server no longer knows is not made to leave (getSocketById).
LeaveChan(ch, r, s) ==
    IF s # NoSock /\ conn[s] = "up" THEN [ch EXCEPT ![r] = @ \ {s}] ELSE ch
JoinChan(ch, r, ss) == [ch EXCEPT ![r] = @ \cup ss]

\* The socket holding control of the room a client names.
Controls(s, r) ==
    conn[s] = "up" /\ rooms[r] # NoObj /\ room[rooms[r]].creatorSock = s

-----------------------------------------------------------------------------
(* Connections *)

\* What handleDisconnect does to one registered room: arm the grace timer of a
\* seated socket, drop its knock and, if it controls the room, arm the
\* `creator:` timer; the other knocks go only when the creator itself knocks.
Departed(R, s) ==
    [R EXCEPT !.timers = IF s \in R.peers THEN @ \cup {s} ELSE @,
              !.knock = IF s \in @ /\ R.creatorSock = s THEN {} ELSE @ \ {s},
              !.ctimers = IF R.creatorSock = s THEN @ \cup {s} ELSE @]

Disconnect(s) ==
    /\ conn[s] = "up"
    /\ conn' = [conn EXCEPT ![s] = "down"]
    /\ room' = [o \in Objs |-> IF \E r \in RoomIds : rooms[r] = o
                               THEN Departed(room[o], s) ELSE room[o]]
    /\ chan' = [r \in RoomIds |-> chan[r] \ {s}]
    /\ UNCHANGED <<rooms, call>>

\* A grace timer fires: its socket is still seated in the object the closure
\* kept, so it is removed, and an empty room's name is forgotten.
GraceExpire(o, s) ==
    /\ room[o] # NoRoom /\ s \in room[o].timers
    /\ IF s \in room[o].peers
       THEN /\ room' = [room EXCEPT ![o] = RemovePeer(@, s)]
            /\ rooms' = DropIfEmpty(room'[o], room[o].id)
       ELSE /\ room' = [room EXCEPT ![o].timers = @ \ {s}]
            /\ UNCHANGED rooms
    /\ UNCHANGED <<conn, chan, call>>

\* The `creator:` timer, twice as long: the socket's grace timer has gone.
CreatorExpire(o, s) ==
    /\ room[o] # NoRoom /\ s \in room[o].ctimers /\ s \notin room[o].timers
    /\ room' = [room EXCEPT ![o].ctimers = @ \ {s}]
    /\ rooms' = IF room[o].creatorSock = s /\ room[o].peers = {}
                THEN [rooms EXCEPT ![room[o].id] = NoObj] ELSE rooms
    /\ UNCHANGED <<conn, chan, call>>

-----------------------------------------------------------------------------
(* create-room *)

\* The creator names a room that exists: it takes control and its user's old
\* seat is given up before the handler awaits the lesson binding.
ReclaimRoom(s, r) ==
    /\ conn[s] = "up" /\ IsUser(s) /\ rooms[r] # NoObj
    /\ LET o == rooms[r]
           R == [room[o] EXCEPT !.creatorSock = s]
       IN  /\ R.creatorUser = UserOf[s]
           /\ \E old \in FirstOther(R, s) :
                IF R.bound
                THEN /\ room' = [room EXCEPT ![o] = Admit(ReplaceSeat(R, old, s), {s})]
                     /\ chan' = JoinChan(LeaveChan(chan, r, old), r, {s})
                     /\ UNCHANGED call
                ELSE \E c \in Calls :
                     /\ call[c] = Idle
                     /\ Suspend(c, "reclaim", s, r, o, FALSE, FALSE)
                     /\ room' = [room EXCEPT ![o] = ReplaceSeat(R, old, s)]
                     /\ chan' = LeaveChan(chan, r, old)
    /\ UNCHANGED <<conn, rooms>>

\* The room does not exist: activeRoomsCount is taken now, and used after
\* getPremiumStatus has answered.
CreateStart(s, r, private, c) ==
    /\ conn[s] = "up" /\ IsUser(s) /\ rooms[r] = NoObj /\ call[c] = Idle
    /\ Suspend(c, "premium", s, r, NoObj, private,
               \E q \in RoomIds : /\ rooms[q] # NoObj
                                  /\ room[rooms[q]].creatorUser = UserOf[s])
    /\ UNCHANGED <<conn, rooms, room, chan>>


NewRoom(s, r, private, limit) ==
    [id |-> r, creatorUser |-> UserOf[s], creatorSock |-> s, private |-> private,
     limit |-> limit, peers |-> {s}, knock |-> {}, timers |-> {}, ctimers |-> {},
     bound |-> FALSE]

CreateFinish(c, o, limit) ==
    /\ call[c] # Idle /\ call[c].op = "premium" /\ ~call[c].busy
    /\ ~Live(o)
    /\ LET s == call[c].sock
           r == call[c].id
       IN  /\ room' = [room EXCEPT ![o] = NewRoom(s, r, call[c].private, limit)]
           /\ rooms' = [rooms EXCEPT ![r] = o]
           /\ chan' = JoinChan(chan, r, {s})
           /\ Suspend(c, "created", s, r, o, FALSE, FALSE)
    /\ UNCHANGED conn

\* A room was already counted for this user, or getPremiumStatus threw.
CreateRefused(c) ==
    /\ call[c] # Idle /\ call[c].op = "premium"
    /\ Finish(c)
    /\ UNCHANGED <<conn, rooms, room, chan>>

CreatedBinding(c) ==
    /\ call[c] # Idle /\ call[c].op = "created"
    /\ room' = [room EXCEPT ![call[c].obj].bound = TRUE]
    /\ Finish(c)
    /\ UNCHANGED <<conn, rooms, chan>>

ReclaimFinish(c) ==
    /\ call[c] # Idle /\ call[c].op = "reclaim"
    /\ LET s == call[c].sock
       IN  /\ room' = [room EXCEPT ![call[c].obj] = Admit([@ EXCEPT !.bound = TRUE], {s})]
           /\ chan' = JoinChan(chan, call[c].id, {s})
    /\ Finish(c)
    /\ UNCHANGED <<conn, rooms>>

-----------------------------------------------------------------------------
(* join-room *)

\* The rest of handleJoinRoom once the lesson binding is known: the user's old
\* seat goes first, then the capacity is checked, then the door.
JoinBody(o, s, r) ==
    LET R == [room[o] EXCEPT !.bound = TRUE] IN
    IF s \in R.peers
    THEN /\ room' = [room EXCEPT ![o] = R]
         /\ UNCHANGED chan
    ELSE \E old \in FirstOther(R, s) :
         LET Q == ReplaceSeat(R, old, s) IN
         CASE Full(Q) ->
                /\ room' = [room EXCEPT ![o] = Q]
                /\ chan' = LeaveChan(chan, r, old)
           [] ~Full(Q) /\ Q.private ->
                /\ room' = [room EXCEPT ![o] =
                     [Q EXCEPT !.knock = {k \in @ : ~SamePeerKey(s, k)} \cup {s}]]
                /\ chan' = LeaveChan(chan, r, old)
           [] ~Full(Q) /\ ~Q.private ->
                /\ room' = [room EXCEPT ![o] = Admit(Q, {s})]
                /\ chan' = JoinChan(LeaveChan(chan, r, old), r, {s})

JoinRoom(s, r) ==
    /\ conn[s] = "up" /\ rooms[r] # NoObj
    /\ IF room[rooms[r]].bound
       THEN JoinBody(rooms[r], s, r) /\ UNCHANGED call
       ELSE \E c \in Calls : /\ call[c] = Idle
                             /\ Suspend(c, "join", s, r, rooms[r], FALSE, FALSE)
                             /\ UNCHANGED <<room, chan>>
    /\ UNCHANGED <<conn, rooms>>

JoinFinish(c) ==
    /\ call[c] # Idle /\ call[c].op = "join"
    /\ JoinBody(call[c].obj, call[c].sock, call[c].id)
    /\ Finish(c)
    /\ UNCHANGED <<conn, rooms>>

\* No such room in memory: look for a chat call of that name.
JoinMissing(s, r, c) ==
    /\ conn[s] = "up" /\ rooms[r] = NoObj /\ IsUser(s) /\ call[c] = Idle
    /\ Suspend(c, "rehydrate", s, r, NoObj, FALSE, FALSE)
    /\ UNCHANGED <<conn, rooms, room, chan>>

ChatRoom(r) ==
    [id |-> r, creatorUser |-> CallCreator[r], creatorSock |-> NoSock,
     private |-> TRUE, limit |-> ChatLimit, peers |-> {}, knock |-> {},
     timers |-> {}, ctimers |-> {}, bound |-> FALSE]

\* The chat is found: its room is put in the map, over whatever is there now,
\* and the join goes on to await the lesson binding.
Rehydrate(c, o) ==
    /\ call[c] # Idle /\ call[c].op = "rehydrate"
    /\ UserOf[call[c].sock] \in CallMembers[call[c].id]
    /\ ~Live(o)
    /\ room' = [room EXCEPT ![o] = ChatRoom(call[c].id)]
    /\ rooms' = [rooms EXCEPT ![call[c].id] = o]
    /\ Suspend(c, "join", call[c].sock, call[c].id, o, FALSE, FALSE)
    /\ UNCHANGED <<conn, chan>>

RehydrateMissing(c) ==
    /\ call[c] # Idle /\ call[c].op = "rehydrate"
    /\ Finish(c)
    /\ UNCHANGED <<conn, rooms, room, chan>>

-----------------------------------------------------------------------------
(* The creator's controls, and leaving *)

ApproveKnock_Bug(s, r, k) ==                         \* no look at the queue
    /\ Controls(s, r) /\ ~Full(room[rooms[r]])
    /\ room' = [room EXCEPT ![rooms[r]] = Admit([@ EXCEPT !.knock = @ \ {k}], {k})]
    /\ chan' = JoinChan(chan, r, {k})
    /\ UNCHANGED <<conn, rooms, call>>

ApproveKnock(s, r, k) ==
    /\ Controls(s, r)
    /\ LET R == room[rooms[r]]
           Q == [R EXCEPT !.knock = @ \ {k}]
       IN  /\ k \in R.knock
           /\ room' = [room EXCEPT ![rooms[r]] = IF Full(R) THEN Q ELSE Admit(Q, {k})]
           /\ chan' = IF Full(R) THEN chan ELSE JoinChan(chan, r, {k})
    /\ UNCHANGED <<conn, rooms, call>>

RejectKnock(s, r, k) ==
    /\ Controls(s, r) /\ k \in room[rooms[r]].knock
    /\ room' = [room EXCEPT ![rooms[r]].knock = @ \ {k}]
    /\ UNCHANGED <<conn, rooms, chan, call>>

\* Which knockers set-room-privacy lets in: in the queue's order, here any
\* order, until the room is full; the rest are rejected.
Admitted(R) ==
    IF Full(R) THEN {{}}
    ELSE {A \in SUBSET R.knock :
            \/ Cardinality(R.peers \cup A) = R.limit
            \/ A = R.knock /\ Cardinality(R.peers \cup A) < R.limit}

SetRoomPrivacy_Bug(s, r, private) ==                 \* the queue is not served
    /\ Controls(s, r)
    /\ room' = [room EXCEPT ![rooms[r]].private = private]
    /\ UNCHANGED <<conn, rooms, chan, call>>

SetRoomPrivacy(s, r, private) ==
    /\ Controls(s, r)
    /\ LET R == [room[rooms[r]] EXCEPT !.private = private] IN
       IF private
       THEN room' = [room EXCEPT ![rooms[r]] = R] /\ UNCHANGED chan
       ELSE \E A \in Admitted(R) :
            /\ room' = [room EXCEPT ![rooms[r]] = Admit([R EXCEPT !.knock = {}], A)]
            /\ chan' = JoinChan(chan, r, A)
    /\ UNCHANGED <<conn, rooms, call>>

\* leave-room withdraws a knock only under the socket's own id, a guest's key.
LeaveRoom(s, r) ==
    /\ conn[s] = "up" /\ rooms[r] # NoObj
    /\ LET o == rooms[r]
           R == room[o]
           Q == IF IsUser(s) THEN R ELSE [R EXCEPT !.knock = @ \ {s}]
       IN  \/ /\ s \in R.peers
              /\ room' = [room EXCEPT ![o] = RemovePeer(Q, s)]
              /\ rooms' = DropIfEmpty(room'[o], r)
           \/ /\ s \notin R.peers /\ s \in R.knock /\ ~IsUser(s)
              /\ room' = [room EXCEPT ![o] = Q]
              /\ UNCHANGED rooms
    /\ chan' = [chan EXCEPT ![r] = @ \ {s}]
    /\ UNCHANGED <<conn, call>>

KickPeer(s, r, p) ==
    /\ Controls(s, r) /\ p \in room[rooms[r]].peers
    /\ room' = [room EXCEPT ![rooms[r]] = RemovePeer(@, p)]
    /\ rooms' = DropIfEmpty(room'[rooms[r]], r)
    /\ chan' = LeaveChan(chan, r, p)
    /\ UNCHANGED <<conn, call>>

-----------------------------------------------------------------------------
Request ==
    \/ \E s \in Sockets : Disconnect(s)
    \/ \E s \in Sockets, r \in RoomIds :
         ReclaimRoom(s, r) \/ JoinRoom(s, r) \/ LeaveRoom(s, r)
    \/ \E s \in Sockets, r \in RoomIds, c \in Calls :
         \/ JoinMissing(s, r, c)
         \/ \E private \in BOOLEAN : CreateStart(s, r, private, c)
    \/ \E s, k \in Sockets, r \in RoomIds :
         ApproveKnock(s, r, k) \/ RejectKnock(s, r, k) \/ KickPeer(s, r, k)
    \/ \E s \in Sockets, r \in RoomIds, private \in BOOLEAN : SetRoomPrivacy(s, r, private)

Resume(c) ==
    \/ \E o \in Objs, limit \in Limits : CreateFinish(c, o, limit)
    \/ CreateRefused(c) \/ CreatedBinding(c) \/ ReclaimFinish(c)
    \/ \E o \in Objs : Rehydrate(c, o)
    \/ RehydrateMissing(c) \/ JoinFinish(c)

Timer == \E o \in Objs, s \in Sockets : GraceExpire(o, s) \/ CreatorExpire(o, s)

Next == Request \/ (\E c \in Calls : Resume(c)) \/ Timer

Spec == Init /\ [][Next]_vars

\* The event loop runs every armed timer and every settled promise.
Fairness ==
    /\ \A c \in Calls : WF_vars(Resume(c))
    /\ \A o \in Objs, s \in Sockets :
         WF_vars(GraceExpire(o, s)) /\ WF_vars(CreatorExpire(o, s))

FairSpec == Spec /\ Fairness
-----------------------------------------------------------------------------
(* Properties *)

Objects == {o \in Objs : room[o] # NoRoom}

\* Control of a room - approving, kicking, opening the door - is only ever held
\* by a socket of the account that created it, through every reclaim, rejoin
\* and socket replacement that moves creatorSocketId.
OnlyCreatorControls ==
    \A o \in Objects :
        room[o].creatorSock # NoSock => UserOf[room[o].creatorSock] = room[o].creatorUser

\* One account, other than the creator's, never holds two seats of a room, and
\* never a seat and a place in the knock queue: replaceExistingPeerSocket
\* removes only the first other socket it finds, which is enough only if there
\* is never a second one.
OneSeatPerUser ==
    \A o \in Objects : \A s, t \in room[o].peers \cup room[o].knock :
        /\ IsUser(s) /\ UserOf[s] = UserOf[t]
        /\ UserOf[s] # room[o].creatorUser
        => s = t

\* Nobody is left knocking at an open room: opening the door serves the whole
\* queue, and no handler adds to the queue of an open room.
OpenDoorHasNoQueue ==
    \A o \in Objects : ~room[o].private => room[o].knock = {}

\* A running grace timer always stands for a seat whose socket has gone: a
\* timer can never remove someone who is connected.
TimersOnlyForGone ==
    \A o \in Objects : \A s \in room[o].timers : s \in room[o].peers /\ conn[s] = "down"

\* Someone who is not the creator gets a seat of a private room only from the
\* knock queue, also when the step that seats them is the one that opens it.
NoUninvitedGuest ==
    [][\A o \in Objects : room'[o] # NoRoom =>
         \A s \in room'[o].peers \ room[o].peers :
            \/ s \in room[o].knock
            \/ ~room[o].private
            \/ UserOf[s] = room'[o].creatorUser]_vars

\* Letting someone in never fills a room beyond its limit, whichever of join,
\* approve and the privacy change does it and whatever seat it gives up on the
\* way; only the creator's own sockets may (create-room seats them unchecked).
AdmittedWithinLimit ==
    [][\A o \in Objects :
         (\E s \in room'[o].peers \ room[o].peers : UserOf[s] # room'[o].creatorUser)
         => Cardinality(room'[o].peers) <= room'[o].limit]_vars

\* A connected socket that loses its seat of a registered room - it left, was
\* kicked, or a newer socket of its user took the seat - stops hearing the room
\* in the same step.
DepartedStopHearing ==
    [][\A r \in RoomIds : rooms[r] # NoObj =>
         \A s \in room[rooms[r]].peers :
            /\ conn'[s] = "up"
            /\ s \notin room'[rooms[r]].peers
            => s \notin chan'[r]]_vars

\* The seat of a socket that went away with no handler of its own under way is
\* vacated within the grace period, whatever the others do.
SeatVacated ==
    \A o \in Objs, s \in Sockets :
        (/\ room[o] # NoRoom /\ s \in room[o].timers
         /\ \A c \in Calls : call[c] = Idle \/ call[c].sock # s)
        ~> (room[o] = NoRoom \/ s \notin room[o].peers)

\* A meeting that everyone has left this way is forgotten: its name is free, and
\* it no longer counts against its creator's one active meeting.
RoomForgotten ==
    \A r \in RoomIds, o \in Objs :
        (/\ rooms[r] = o /\ room[o].peers # {} /\ room[o].peers \subseteq room[o].timers
         /\ \A s \in Sockets : conn[s] = "down"
         /\ \A c \in Calls : call[c] = Idle)
        ~> (rooms[r] # o)

=============================================================================

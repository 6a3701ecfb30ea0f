--------------------------- MODULE VideoRoom_proofs ---------------------------
(***************************************************************************)
(* Safety of VideoRoom for every set of sockets, users, rooms, objects and *)
(* suspended handlers.  RoomSafe says what every RoomInfo object satisfies *)
(* by itself; Linked says what the map and the suspended handlers may      *)
(* still refer to.  The operators that change a room preserve RoomSafe, so *)
(* each action is a matter of which operators it applies to which object.  *)
(***************************************************************************)
EXTENDS VideoRoom, FiniteSetTheorems, TLAPS

ControlSafe(R) == R.creatorSock # NoSock => UserOf[R.creatorSock] = R.creatorUser

SeatSafe(R) ==
    \A s, t \in R.peers \cup R.knock :
        IsUser(s) /\ UserOf[s] = UserOf[t] /\ UserOf[s] # R.creatorUser => s = t

DoorSafe(R) == ~R.private => R.knock = {}

TimerSafe(R) == \A s \in R.timers : s \in R.peers /\ conn[s] = "down"

RoomSafe(R) ==
    /\ R \in RoomInfo
    /\ ControlSafe(R) /\ SeatSafe(R) /\ DoorSafe(R) /\ TimerSafe(R)

\* The map and the suspended handlers refer to allocated objects; a suspended
\* reclaim belongs to the account that created its room.
Linked ==
    /\ \A r \in RoomIds : rooms[r] # NoObj => room[rooms[r]] # NoRoom
    /\ \A c \in Calls : call[c] # Idle =>
         /\ call[c].op \in {"premium", "rehydrate"} => IsUser(call[c].sock)
         /\ call[c].op \in {"created", "reclaim", "join"} =>
              call[c].obj \in Objs /\ room[call[c].obj] # NoRoom
         /\ call[c].op = "reclaim" =>
              UserOf[call[c].sock] = room[call[c].obj].creatorUser

IInv == TypeOK /\ Linked /\ \A o \in Objects : RoomSafe(room[o])

-----------------------------------------------------------------------------
(* What the operators preserve *)

LEMMA ReplaceSeatSafe ==
    ASSUME NEW R, RoomSafe(R), NEW s \in Sockets, NEW old \in FirstOther(R, s)
    PROVE  /\ RoomSafe(ReplaceSeat(R, old, s))
           /\ ReplaceSeat(R, old, s).creatorUser = R.creatorUser
           /\ ReplaceSeat(R, old, s).private = R.private
           /\ ReplaceSeat(R, old, s).knock = R.knock
           /\ ReplaceSeat(R, old, s).peers = R.peers \ {old}
<1> DEFINE Q == ReplaceSeat(R, old, s)
<1>1. CASE OtherSeats(R, s) = {}
  <2>1. old = NoSock
    BY <1>1 DEF FirstOther
  <2>2. R.peers \ {old} = R.peers
    BY <2>1, ConstantsAssumption DEF RoomSafe, RoomInfo
  <2> QED BY <2>1, <2>2 DEF ReplaceSeat
<1>2. CASE OtherSeats(R, s) # {}
  <2>1. old \in R.peers /\ old \in Sockets /\ old # NoSock /\ UserOf[old] = UserOf[s]
    BY <1>2, ConstantsAssumption DEF FirstOther, OtherSeats, RoomSafe, RoomInfo
  <2>2. Q = [R EXCEPT !.peers = @ \ {old}, !.timers = @ \ {old},
                      !.creatorSock = IF @ = old THEN s ELSE @]
    BY <2>1 DEF ReplaceSeat
  <2>3. Q \in RoomInfo
    BY <2>2 DEF RoomSafe, RoomInfo
  <2>4. /\ Q.creatorUser = R.creatorUser /\ Q.private = R.private /\ Q.knock = R.knock
        /\ Q.peers = R.peers \ {old} /\ Q.timers = R.timers \ {old}
        /\ Q.creatorSock = IF R.creatorSock = old THEN s ELSE R.creatorSock
    BY <2>2 DEF RoomSafe, RoomInfo
  <2>5. ControlSafe(Q)
    BY <2>1, <2>4 DEF RoomSafe, ControlSafe
  <2>6. SeatSafe(Q) /\ DoorSafe(Q) /\ TimerSafe(Q)
    BY <2>4 DEF RoomSafe, SeatSafe, DoorSafe, TimerSafe
  <2> QED BY <2>3, <2>4, <2>5, <2>6 DEF RoomSafe
<1> QED BY <1>1, <1>2

\* After it, a user other than the creator has no seat but s's own.
LEMMA ReplaceSeatLeavesNone ==
    ASSUME NEW R, RoomSafe(R), NEW s \in Sockets, s \notin R.peers,
           NEW old \in FirstOther(R, s), NEW t \in R.peers \ {old},
           IsUser(s), UserOf[s] # R.creatorUser
    PROVE  UserOf[t] # UserOf[s]
<1> SUFFICES ASSUME UserOf[t] = UserOf[s] PROVE FALSE
  OBVIOUS
<1>1. t \in OtherSeats(R, s)
  BY DEF OtherSeats
<1>2. old \in R.peers /\ UserOf[old] = UserOf[s]
  BY <1>1 DEF FirstOther, OtherSeats
<1>3. t = old
  BY <1>1, <1>2 DEF RoomSafe, SeatSafe, IsUser
<1> QED BY <1>3

LEMMA AdmitSafe ==
    ASSUME NEW R, RoomSafe(R), NEW A \in SUBSET Sockets,
           \A s \in A, t \in A \cup R.peers \cup R.knock :
              IsUser(s) /\ UserOf[s] = UserOf[t] /\ UserOf[s] # R.creatorUser => s = t
    PROVE  /\ RoomSafe(Admit(R, A))
           /\ Admit(R, A).creatorUser = R.creatorUser
<1> DEFINE Q == Admit(R, A)
<1>1. Q \in RoomInfo
  BY DEF Admit, RoomSafe, RoomInfo
<1>2. /\ Q.creatorUser = R.creatorUser /\ Q.private = R.private /\ Q.knock = R.knock
      /\ Q.peers = R.peers \cup A /\ Q.timers = R.timers \ A
      /\ Q.creatorSock = R.creatorSock
  BY DEF Admit, RoomSafe, RoomInfo
<1>3. ControlSafe(Q) /\ DoorSafe(Q) /\ TimerSafe(Q)
  BY <1>2 DEF RoomSafe, ControlSafe, DoorSafe, TimerSafe
<1>4. SeatSafe(Q)
  <2> SUFFICES ASSUME NEW s \in Q.peers \cup Q.knock, NEW t \in Q.peers \cup Q.knock,
                      IsUser(s), UserOf[s] = UserOf[t], UserOf[s] # Q.creatorUser
               PROVE  s = t
    BY DEF SeatSafe
  <2>1. CASE s \in A
    BY <2>1, <1>2
  <2>2. CASE t \in A
    BY <2>2, <1>2 DEF IsUser
  <2>3. CASE s \notin A /\ t \notin A
    BY <2>3, <1>2 DEF RoomSafe, SeatSafe
  <2> QED BY <2>1, <2>2, <2>3
<1> QED BY <1>1, <1>2, <1>3, <1>4 DEF RoomSafe

LEMMA RemovePeerSafe ==
    ASSUME NEW R, RoomSafe(R), NEW s \in Sockets
    PROVE  /\ RoomSafe(RemovePeer(R, s))
           /\ RemovePeer(R, s).creatorUser = R.creatorUser
<1> DEFINE Q == RemovePeer(R, s)
<1>1. Q \in RoomInfo
  BY DEF RemovePeer, RoomSafe, RoomInfo
<1>2. /\ Q.creatorUser = R.creatorUser /\ Q.private = R.private /\ Q.knock = R.knock
      /\ Q.peers = R.peers \ {s} /\ Q.timers = R.timers \ {s}
      /\ Q.creatorSock = IF R.creatorSock = s THEN NoSock ELSE R.creatorSock
  BY DEF RemovePeer, RoomSafe, RoomInfo
<1> QED BY <1>1, <1>2 DEF RoomSafe, ControlSafe, SeatSafe, DoorSafe, TimerSafe

\* The same seats, timers and control, and no knocker that was not there.
LEMMA NarrowSafe ==
    ASSUME NEW R, RoomSafe(R), NEW Q \in RoomInfo,
           Q.creatorUser = R.creatorUser, Q.creatorSock = R.creatorSock,
           Q.private = R.private, Q.peers = R.peers, Q.timers = R.timers,
           Q.knock \subseteq R.knock
    PROVE  RoomSafe(Q)
BY DEF RoomSafe, ControlSafe, SeatSafe, DoorSafe, TimerSafe

\* create-room's first assignment: the creator's own socket takes control.
LEMMA TakeControlSafe ==
    ASSUME NEW R, RoomSafe(R), NEW s \in Sockets, UserOf[s] = R.creatorUser,
           NEW Q, Q = [R EXCEPT !.creatorSock = s]
    PROVE  /\ RoomSafe(Q)
           /\ Q.creatorUser = R.creatorUser /\ Q.peers = R.peers /\ Q.knock = R.knock
<1>1. Q \in RoomInfo
  BY DEF RoomSafe, RoomInfo
<1>2. /\ Q.creatorUser = R.creatorUser /\ Q.private = R.private /\ Q.knock = R.knock
      /\ Q.peers = R.peers /\ Q.timers = R.timers /\ Q.creatorSock = s
  BY DEF RoomSafe, RoomInfo
<1> QED BY <1>1, <1>2 DEF RoomSafe, ControlSafe, SeatSafe, DoorSafe, TimerSafe

\* set-room-privacy, with the queue emptied when the door opens.
LEMMA PrivacySafe ==
    ASSUME NEW R, RoomSafe(R), NEW Q \in RoomInfo,
           Q.creatorUser = R.creatorUser, Q.creatorSock = R.creatorSock,
           Q.peers = R.peers, Q.timers = R.timers,
           Q.knock \subseteq R.knock, Q.private \/ Q.knock = {}
    PROVE  RoomSafe(Q)
BY DEF RoomSafe, ControlSafe, SeatSafe, DoorSafe, TimerSafe

\* A knock at a private room by a user without a seat.
LEMMA KnockSafe ==
    ASSUME NEW R, RoomSafe(R), R.private, NEW s \in Sockets,
           \A t \in R.peers : IsUser(s) /\ UserOf[s] # R.creatorUser => UserOf[t] # UserOf[s],
           NEW Q, Q = [R EXCEPT !.knock = {k \in @ : ~SamePeerKey(s, k)} \cup {s}]
    PROVE  RoomSafe(Q) /\ Q.creatorUser = R.creatorUser
<1>1. Q \in RoomInfo
  BY DEF RoomSafe, RoomInfo
<1>2. /\ Q.creatorUser = R.creatorUser /\ Q.private = R.private
      /\ Q.knock = {k \in R.knock : ~SamePeerKey(s, k)} \cup {s}
      /\ Q.peers = R.peers /\ Q.timers = R.timers /\ Q.creatorSock = R.creatorSock
  BY DEF RoomSafe, RoomInfo
<1>3. SeatSafe(Q)
  BY <1>2 DEF RoomSafe, SeatSafe, SamePeerKey, IsUser
<1> QED BY <1>1, <1>2, <1>3 DEF RoomSafe, ControlSafe, DoorSafe, TimerSafe

-----------------------------------------------------------------------------
(* One object changes *)

LEMMA UpdateOne ==
    ASSUME IInv, NEW o \in Objs, NEW X, RoomSafe(X), room' = [room EXCEPT ![o] = X],
           UNCHANGED conn
    PROVE  /\ room' \in [Objs -> RoomInfo \cup {NoRoom}]
           /\ room'[o] = X /\ X # NoRoom
           /\ \A p \in Objs : p # o => room'[p] = room[p]
           /\ (\A p \in Objects : RoomSafe(room[p]))'
<1>1. room' \in [Objs -> RoomInfo \cup {NoRoom}]
  BY DEF IInv, TypeOK, RoomSafe
<1>2. room'[o] = X /\ X # NoRoom /\ \A p \in Objs : p # o => room'[p] = room[p]
  BY NoRoomAssumption DEF IInv, TypeOK, RoomSafe
<1>3. ASSUME NEW p \in Objs, room'[p] # NoRoom PROVE RoomSafe(room[p])'
  <2>1. RoomSafe(room'[p])
    BY <1>2, <1>3 DEF IInv, Objects
  <2> QED BY <2>1 DEF RoomSafe, RoomInfo, ControlSafe, SeatSafe, DoorSafe, TimerSafe
<1> QED BY <1>1, <1>2, <1>3 DEF Objects

\* A step that changes one allocated object, keeps its creator, adds no name to
\* the map and suspends no handler preserves the invariant.
LEMMA UpdateKeeps ==
    ASSUME IInv, NEW o \in Objs, room[o] # NoRoom, NEW X, RoomSafe(X),
           X.creatorUser = room[o].creatorUser,
           room' = [room EXCEPT ![o] = X], UNCHANGED conn,
           rooms' \in [RoomIds -> Objs \cup {NoObj}],
           \A r \in RoomIds : rooms'[r] \in {rooms[r], NoObj},
           chan' \in [RoomIds -> SUBSET Sockets],
           call' \in [Calls -> CallInfo \cup {Idle}],
           \A c \in Calls : call'[c] \in {call[c], Idle}
    PROVE  IInv'
<1>1. /\ room' \in [Objs -> RoomInfo \cup {NoRoom}]
      /\ (\A p \in Objects : RoomSafe(room[p]))'
      /\ \A p \in Objs : room[p] # NoRoom =>
           room'[p] # NoRoom /\ room'[p].creatorUser = room[p].creatorUser
  BY UpdateOne
<1>2. TypeOK'
  BY <1>1 DEF IInv, TypeOK
<1>3. Linked'
  <2>1. ASSUME NEW r \in RoomIds, rooms'[r] # NoObj PROVE room'[rooms'[r]] # NoRoom
    BY <2>1, <1>1, ConstantsAssumption DEF IInv, TypeOK, Linked
  <2>2. ASSUME NEW c \in Calls, call'[c] # Idle
        PROVE  /\ call'[c] = call[c]
               /\ call[c].op \in {"created", "reclaim", "join"} =>
                    call[c].obj \in Objs /\ room'[call[c].obj] # NoRoom
               /\ call[c].op = "reclaim" =>
                    UserOf[call[c].sock] = room'[call[c].obj].creatorUser
    BY <2>2, <1>1 DEF IInv, Linked
  <2> QED BY <2>1, <2>2 DEF IInv, Linked, IsUser
<1> QED BY <1>1, <1>2, <1>3 DEF IInv

\* The same for a step that also suspends handler c with its object o.
LEMMA UpdateSuspends ==
    ASSUME IInv, NEW o \in Objs, room[o] # NoRoom, NEW X, RoomSafe(X),
           X.creatorUser = room[o].creatorUser,
           room' = [room EXCEPT ![o] = X], UNCHANGED <<conn, rooms>>,
           chan' \in [RoomIds -> SUBSET Sockets],
           NEW c \in Calls, NEW s \in Sockets, NEW r \in RoomIds, NEW op \in {"reclaim", "join"},
           op = "reclaim" => UserOf[s] = X.creatorUser,
           Suspend(c, op, s, r, o, FALSE, FALSE)
    PROVE  IInv'
<1>1. /\ room' \in [Objs -> RoomInfo \cup {NoRoom}]
      /\ (\A p \in Objects : RoomSafe(room[p]))'
      /\ room'[o].creatorUser = X.creatorUser
      /\ \A p \in Objs : room[p] # NoRoom =>
           room'[p] # NoRoom /\ room'[p].creatorUser = room[p].creatorUser
  BY UpdateOne
<1>2. /\ call' \in [Calls -> CallInfo \cup {Idle}]
      /\ call'[c].op = op /\ call'[c].obj = o /\ call'[c].sock = s
      /\ \A d \in Calls : d # c => call'[d] = call[d]
  BY DEF Suspend, IInv, TypeOK, CallInfo
<1>3. TypeOK'
  BY <1>1, <1>2 DEF IInv, TypeOK
<1>4. Linked'
  <2>1. ASSUME NEW q \in RoomIds, rooms'[q] # NoObj PROVE room'[rooms'[q]] # NoRoom
    BY <2>1, <1>1, ConstantsAssumption DEF IInv, TypeOK, Linked
  <2>2. ASSUME NEW d \in Calls, call'[d] # Idle
        PROVE  /\ call'[d].op \in {"premium", "rehydrate"} => IsUser(call'[d].sock)
               /\ call'[d].op \in {"created", "reclaim", "join"} =>
                    call'[d].obj \in Objs /\ room'[call'[d].obj] # NoRoom
               /\ call'[d].op = "reclaim" =>
                    UserOf[call'[d].sock] = room'[call'[d].obj].creatorUser
    <3>1. CASE d = c
      BY <3>1, <1>1, <1>2
    <3>2. CASE d # c
      BY <3>2, <2>2, <1>1, <1>2 DEF IInv, Linked
    <3> QED BY <3>1, <3>2
  <2> QED BY <2>1, <2>2 DEF Linked, IsUser
<1> QED BY <1>1, <1>3, <1>4 DEF IInv

LEMMA ChanType ==
    ASSUME TypeOK, NEW r \in RoomIds, NEW old, NEW A \in SUBSET Sockets
    PROVE  /\ LeaveChan(chan, r, old) \in [RoomIds -> SUBSET Sockets]
           /\ JoinChan(chan, r, A) \in [RoomIds -> SUBSET Sockets]
           /\ JoinChan(LeaveChan(chan, r, old), r, A) \in [RoomIds -> SUBSET Sockets]
BY DEF TypeOK, LeaveChan, JoinChan

\* What the body of join-room leaves in the room it joins.
LEMMA JoinBodySafe ==
    ASSUME IInv, NEW o \in Objs, room[o] # NoRoom, NEW s \in Sockets,
           NEW r \in RoomIds, JoinBody(o, s, r)
    PROVE  /\ \E X : /\ RoomSafe(X) /\ X.creatorUser = room[o].creatorUser
                     /\ room' = [room EXCEPT ![o] = X]
           /\ chan' \in [RoomIds -> SUBSET Sockets]
<1> DEFINE R == [room[o] EXCEPT !.bound = TRUE]
<1>0. RoomSafe(room[o])
  BY DEF IInv, Objects
<1>1. RoomSafe(R) /\ R.creatorUser = room[o].creatorUser
  <2>1. /\ R \in RoomInfo /\ R.creatorUser = room[o].creatorUser
        /\ R.creatorSock = room[o].creatorSock /\ R.private = room[o].private
        /\ R.peers = room[o].peers /\ R.timers = room[o].timers
        /\ R.knock \subseteq room[o].knock
    BY <1>0 DEF RoomSafe, RoomInfo
  <2> HIDE DEF R
  <2> QED BY <1>0, <2>1, NarrowSafe
<1>2. CASE s \in R.peers
  <2>1. room' = [room EXCEPT ![o] = R] /\ chan' = chan
    BY <1>2 DEF JoinBody
  <2> HIDE DEF R
  <2> QED BY <2>1, <1>1 DEF IInv, TypeOK
<1>3. CASE s \notin R.peers
  <2>1. PICK old \in FirstOther(R, s) :
          LET Q == ReplaceSeat(R, old, s) IN
          CASE Full(Q) ->
                 /\ room' = [room EXCEPT ![o] = Q]
                 /\ chan' = LeaveChan(chan, r, old)
            [] ~Full(Q) /\ Q.private ->
                 /\ room' = [room EXCEPT ![o] =
                      [Q EXCEPT !.knock = {k \in @ : ~SamePeerKey(s, k)} \cup {s}]]
                 /\ chan' = LeaveChan(chan, r, old)
            [] ~Full(Q) /\ ~Q.private ->
                 /\ room' = [room EXCEPT ![o] = Admit(Q, {s})]
                 /\ chan' = JoinChan(LeaveChan(chan, r, old), r, {s})
    BY <1>3 DEF JoinBody
  <2> HIDE DEF R
  <2> DEFINE Q == ReplaceSeat(R, old, s)
  <2>2. /\ RoomSafe(Q) /\ Q.creatorUser = R.creatorUser /\ Q.private = R.private
        /\ Q.knock = R.knock /\ Q.peers = R.peers \ {old}
    BY <1>1, ReplaceSeatSafe
  <2>3. ASSUME NEW t \in Q.peers, IsUser(s), UserOf[s] # Q.creatorUser
        PROVE  UserOf[t] # UserOf[s]
    BY <2>2, <2>3, <1>1, <1>3, ReplaceSeatLeavesNone
  <2> HIDE DEF Q
  <2>4. \/ /\ room' = [room EXCEPT ![o] = Q]
           /\ chan' = LeaveChan(chan, r, old)
        \/ /\ Q.private
           /\ room' = [room EXCEPT ![o] =
                [Q EXCEPT !.knock = {k \in @ : ~SamePeerKey(s, k)} \cup {s}]]
           /\ chan' = LeaveChan(chan, r, old)
        \/ /\ ~Q.private
           /\ room' = [room EXCEPT ![o] = Admit(Q, {s})]
           /\ chan' = JoinChan(LeaveChan(chan, r, old), r, {s})
    BY <2>1, Zenon DEF Q
  <2>5. chan' \in [RoomIds -> SUBSET Sockets]
    BY <2>4, ChanType, {s} \in SUBSET Sockets DEF IInv
  <2>6. CASE room' = [room EXCEPT ![o] = Q]
    BY <2>2, <2>5, <2>6, <1>1
  <2>7. CASE Q.private /\ room' = [room EXCEPT ![o] =
                [Q EXCEPT !.knock = {k \in @ : ~SamePeerKey(s, k)} \cup {s}]]
    <3> DEFINE X == [Q EXCEPT !.knock = {k \in @ : ~SamePeerKey(s, k)} \cup {s}]
    <3>1. room' = [room EXCEPT ![o] = X]
      BY <2>7
    <3>2. X = [Q EXCEPT !.knock = {k \in @ : ~SamePeerKey(s, k)} \cup {s}]
      OBVIOUS
    <3> HIDE DEF X
    <3>3. RoomSafe(X) /\ X.creatorUser = Q.creatorUser
      BY <2>2, <2>3, <2>7, <3>2, KnockSafe
    <3> QED BY <3>1, <3>3, <2>2, <2>5, <1>1
  <2>8. CASE ~Q.private /\ room' = [room EXCEPT ![o] = Admit(Q, {s})]
    <3>1. Q.knock = {}
      BY <2>2, <2>8 DEF RoomSafe, DoorSafe
    <3>2. \A u \in {s}, t \in {s} \cup Q.peers \cup Q.knock :
             IsUser(u) /\ UserOf[u] = UserOf[t] /\ UserOf[u] # Q.creatorUser => u = t
      BY <2>3, <3>1
    <3>3. RoomSafe(Admit(Q, {s})) /\ Admit(Q, {s}).creatorUser = Q.creatorUser
      BY <2>2, <3>2, AdmitSafe, {s} \in SUBSET Sockets
    <3> QED BY <2>8, <3>3, <2>2, <2>5, <1>1
  <2> QED BY <2>4, <2>6, <2>7, <2>8
<1> QED BY <1>2, <1>3

-----------------------------------------------------------------------------
(* Every action preserves the invariant *)

LEMMA InitSafe == Init => IInv
<1> SUFFICES ASSUME Init PROVE IInv
  OBVIOUS
<1> QED BY DEF Init, IInv, TypeOK, Linked, Objects

LEMMA DisconnectSafe ==
    ASSUME IInv, NEW s \in Sockets, Disconnect(s)
    PROVE  IInv'
<1>1. ASSUME NEW o \in Objs, room[o] # NoRoom
      PROVE  /\ room'[o] \in RoomInfo /\ room'[o] # NoRoom
             /\ room'[o].creatorUser = room[o].creatorUser
             /\ RoomSafe(room[o])'
  <2> DEFINE R == room[o]
             Q == Departed(R, s)
  <2>0. RoomSafe(R)
    BY <1>1 DEF IInv, Objects
  <2>1. conn' = [conn EXCEPT ![s] = "down"]
    BY DEF Disconnect
  <2>2. CASE room'[o] = R
    <3>1. TimerSafe(R)'
      BY <2>0, <2>1, <2>2 DEF RoomSafe, TimerSafe, RoomInfo, IInv, TypeOK
    <3> QED BY <2>0, <2>2, <3>1, <1>1
          DEF RoomSafe, ControlSafe, SeatSafe, DoorSafe, RoomInfo, IsUser, TimerSafe
  <2>3. CASE room'[o] = Q
    <3>1. Q \in RoomInfo
      BY <2>0 DEF Departed, RoomSafe, RoomInfo
    <3>2. /\ Q.creatorUser = R.creatorUser /\ Q.private = R.private
          /\ Q.knock \subseteq R.knock /\ Q.peers = R.peers
          /\ Q.timers = IF s \in R.peers THEN R.timers \cup {s} ELSE R.timers
          /\ Q.creatorSock = R.creatorSock
      BY <2>0 DEF Departed, RoomSafe, RoomInfo
    <3>3. ControlSafe(Q) /\ SeatSafe(Q) /\ DoorSafe(Q)
      BY <2>0, <3>2 DEF RoomSafe, ControlSafe, SeatSafe, DoorSafe
    <3>4. \A t \in Q.timers : t \in Q.peers /\ conn'[t] = "down"
      BY <2>0, <2>1, <3>2 DEF RoomSafe, TimerSafe, IInv, TypeOK, RoomInfo
    <3>5. RoomSafe(room[o])'
      BY <2>3, <3>1, <3>3, <3>4
         DEF RoomSafe, ControlSafe, SeatSafe, DoorSafe, TimerSafe, IsUser, RoomInfo
    <3> QED BY <2>3, <3>1, <3>2, <3>5, NoRoomAssumption
  <2>4. room'[o] = R \/ room'[o] = Q
    BY DEF Disconnect
  <2> QED BY <2>2, <2>3, <2>4
<1>2. ASSUME NEW o \in Objs, room[o] = NoRoom
      PROVE  room'[o] = NoRoom
  BY <1>2, ConstantsAssumption DEF Disconnect, IInv, Linked
<1>3. TypeOK'
  <2>1. room' \in [Objs -> RoomInfo \cup {NoRoom}]
    BY <1>1, <1>2 DEF Disconnect
  <2> QED BY <2>1 DEF Disconnect, IInv, TypeOK
<1>4. Linked'
  BY <1>1 DEF Disconnect, IInv, Linked, TypeOK, IsUser
<1>5. (\A o \in Objects : RoomSafe(room[o]))'
  BY <1>1, <1>2 DEF Objects
<1> QED BY <1>3, <1>4, <1>5 DEF IInv

LEMMA ReclaimRoomSafe ==
    ASSUME IInv, NEW s \in Sockets, NEW r \in RoomIds, ReclaimRoom(s, r)
    PROVE  IInv'
<1> DEFINE o == rooms[r]
           R == [room[o] EXCEPT !.creatorSock = s]
<1>1. o \in Objs /\ room[o] # NoRoom /\ RoomSafe(room[o])
  BY DEF ReclaimRoom, IInv, TypeOK, Linked, Objects
<1>2. UserOf[s] = room[o].creatorUser
  BY <1>1 DEF ReclaimRoom, RoomSafe, RoomInfo
<1> HIDE DEF R
<1>3. RoomSafe(R) /\ R.creatorUser = room[o].creatorUser
  BY <1>1, <1>2, TakeControlSafe DEF R
<1>4. PICK old \in FirstOther(R, s) :
        \/ /\ room' = [room EXCEPT ![o] = Admit(ReplaceSeat(R, old, s), {s})]
           /\ chan' = JoinChan(LeaveChan(chan, r, old), r, {s})
           /\ UNCHANGED call
        \/ \E c \in Calls :
             /\ Suspend(c, "reclaim", s, r, o, FALSE, FALSE)
             /\ room' = [room EXCEPT ![o] = ReplaceSeat(R, old, s)]
             /\ chan' = LeaveChan(chan, r, old)
  BY DEF ReclaimRoom, R
<1> DEFINE Q == ReplaceSeat(R, old, s)
<1>5. /\ RoomSafe(Q) /\ Q.creatorUser = R.creatorUser
  BY <1>3, ReplaceSeatSafe
<1> HIDE DEF Q
<1>6. chan' \in [RoomIds -> SUBSET Sockets]
  <2>1. TypeOK /\ {s} \in SUBSET Sockets
    BY DEF IInv
  <2>2. /\ LeaveChan(chan, r, old) \in [RoomIds -> SUBSET Sockets]
        /\ JoinChan(LeaveChan(chan, r, old), r, {s}) \in [RoomIds -> SUBSET Sockets]
    BY <2>1, ChanType
  <2> QED BY <1>4, <2>2
<1>7. UNCHANGED <<conn, rooms>>
  BY DEF ReclaimRoom
<1>8. CASE room' = [room EXCEPT ![o] = Admit(Q, {s})] /\ UNCHANGED call
  <2>1. RoomSafe(Admit(Q, {s})) /\ Admit(Q, {s}).creatorUser = Q.creatorUser
    BY <1>2, <1>3, <1>5, AdmitSafe, {s} \in SUBSET Sockets
  <2> QED BY <2>1, <1>1, <1>3, <1>5, <1>6, <1>7, <1>8, UpdateKeeps DEF IInv, TypeOK
<1>9. ASSUME NEW c \in Calls, Suspend(c, "reclaim", s, r, o, FALSE, FALSE),
             room' = [room EXCEPT ![o] = Q]
      PROVE  IInv'
  BY <1>1, <1>2, <1>3, <1>5, <1>6, <1>7, <1>9, UpdateSuspends
<1> QED BY <1>4, <1>8, <1>9 DEF Q

LEMMA JoinRoomSafe ==
    ASSUME IInv, NEW s \in Sockets, NEW r \in RoomIds, JoinRoom(s, r)
    PROVE  IInv'
<1>1. rooms[r] \in Objs /\ room[rooms[r]] # NoRoom /\ RoomSafe(room[rooms[r]])
  BY DEF JoinRoom, IInv, TypeOK, Linked, Objects
<1>2. UNCHANGED <<conn, rooms>>
  BY DEF JoinRoom
<1>3. CASE JoinBody(rooms[r], s, r) /\ UNCHANGED call
  <2>1. PICK X : /\ RoomSafe(X) /\ X.creatorUser = room[rooms[r]].creatorUser
                 /\ room' = [room EXCEPT ![rooms[r]] = X]
                 /\ chan' \in [RoomIds -> SUBSET Sockets]
    BY <1>1, <1>3, JoinBodySafe
  <2> QED BY <2>1, <1>1, <1>2, <1>3, UpdateKeeps DEF IInv, TypeOK
<1>4. ASSUME NEW c \in Calls, Suspend(c, "join", s, r, rooms[r], FALSE, FALSE),
             UNCHANGED <<room, chan>>
      PROVE  IInv'
  <2>1. room' = [room EXCEPT ![rooms[r]] = room[rooms[r]]]
    BY <1>4 DEF IInv, TypeOK
  <2>2. chan' \in [RoomIds -> SUBSET Sockets]
    BY <1>4 DEF IInv, TypeOK
  <2> QED BY <1>1, <1>2, <1>4, <2>1, <2>2, UpdateSuspends
<1> QED BY <1>3, <1>4 DEF JoinRoom

LEMMA LeaveRoomSafe ==
    ASSUME IInv, NEW s \in Sockets, NEW r \in RoomIds, LeaveRoom(s, r)
    PROVE  IInv'
<1> DEFINE o == rooms[r]
           R == room[o]
           Q == IF IsUser(s) THEN R ELSE [R EXCEPT !.knock = @ \ {s}]
<1>1. o \in Objs /\ R # NoRoom /\ RoomSafe(R)
  BY DEF LeaveRoom, IInv, TypeOK, Linked, Objects
<1>2. RoomSafe(Q) /\ Q.creatorUser = R.creatorUser
  <2>1. CASE IsUser(s)
    BY <2>1, <1>1
  <2>2. CASE ~IsUser(s)
    <3>1. /\ Q \in RoomInfo /\ Q.creatorUser = R.creatorUser
          /\ Q.creatorSock = R.creatorSock /\ Q.private = R.private
          /\ Q.peers = R.peers /\ Q.timers = R.timers /\ Q.knock \subseteq R.knock
      BY <1>1, <2>2 DEF RoomSafe, RoomInfo
    <3> HIDE DEF Q, R
    <3> QED BY <1>1, <3>1, NarrowSafe
  <2> QED BY <2>1, <2>2
<1>3. \/ /\ room' = [room EXCEPT ![o] = RemovePeer(Q, s)]
         /\ rooms' = DropIfEmpty(room'[o], r)
      \/ /\ room' = [room EXCEPT ![o] = Q]
         /\ UNCHANGED rooms
  BY DEF LeaveRoom
<1>4. UNCHANGED <<conn, call>> /\ chan' = [chan EXCEPT ![r] = @ \ {s}]
  BY DEF LeaveRoom
<1>5. chan' \in [RoomIds -> SUBSET Sockets]
  BY <1>4 DEF IInv, TypeOK
<1>6. /\ rooms' \in [RoomIds -> Objs \cup {NoObj}]
      /\ \A q \in RoomIds : rooms'[q] \in {rooms[q], NoObj}
  BY <1>3 DEF DropIfEmpty, IInv, TypeOK
<1> HIDE DEF Q
<1>7. RoomSafe(RemovePeer(Q, s)) /\ RemovePeer(Q, s).creatorUser = R.creatorUser
  BY <1>2, RemovePeerSafe
<1> QED BY <1>1, <1>2, <1>3, <1>4, <1>5, <1>6, <1>7, UpdateKeeps DEF IInv, TypeOK

LEMMA KickPeerSafe ==
    ASSUME IInv, NEW s \in Sockets, NEW r \in RoomIds, NEW p \in Sockets, KickPeer(s, r, p)
    PROVE  IInv'
<1> DEFINE o == rooms[r]
           X == RemovePeer(room[o], p)
<1>1. o \in Objs /\ room[o] # NoRoom /\ RoomSafe(room[o])
  BY DEF KickPeer, Controls, IInv, TypeOK, Linked, Objects
<1>2. RoomSafe(X) /\ X.creatorUser = room[o].creatorUser
  BY <1>1, RemovePeerSafe
<1> HIDE DEF X
<1>3. room' = [room EXCEPT ![o] = X] /\ UNCHANGED <<conn, call>>
  BY DEF KickPeer, X
<1>4. chan' \in [RoomIds -> SUBSET Sockets]
  BY ChanType DEF KickPeer, IInv
<1>5. /\ rooms' \in [RoomIds -> Objs \cup {NoObj}]
      /\ \A q \in RoomIds : rooms'[q] \in {rooms[q], NoObj}
  BY DEF KickPeer, DropIfEmpty, IInv, TypeOK
<1> QED BY <1>1, <1>2, <1>3, <1>4, <1>5, UpdateKeeps DEF IInv, TypeOK

LEMMA ApproveKnockSafe ==
    ASSUME IInv, NEW s \in Sockets, NEW r \in RoomIds, NEW k \in Sockets, ApproveKnock(s, r, k)
    PROVE  IInv'
<1> DEFINE o == rooms[r]
           R == room[o]
           Q == [R EXCEPT !.knock = @ \ {k}]
<1>1. o \in Objs /\ R # NoRoom /\ RoomSafe(R) /\ k \in R.knock
  BY DEF ApproveKnock, Controls, IInv, TypeOK, Linked, Objects
<1>2. /\ Q \in RoomInfo /\ Q.creatorUser = R.creatorUser
      /\ Q.creatorSock = R.creatorSock /\ Q.private = R.private
      /\ Q.peers = R.peers /\ Q.timers = R.timers /\ Q.knock = R.knock \ {k}
  BY <1>1 DEF RoomSafe, RoomInfo
<1>3. /\ room' = [room EXCEPT ![o] = IF Full(R) THEN Q ELSE Admit(Q, {k})]
      /\ chan' = IF Full(R) THEN chan ELSE JoinChan(chan, r, {k})
      /\ UNCHANGED <<conn, rooms, call>>
  BY DEF ApproveKnock
<1> HIDE DEF Q, R, o
<1>4. RoomSafe(Q)
  BY <1>1, <1>2, NarrowSafe
<1>5. \A u \in {k}, t \in {k} \cup Q.peers \cup Q.knock :
         IsUser(u) /\ UserOf[u] = UserOf[t] /\ UserOf[u] # Q.creatorUser => u = t
  BY <1>1, <1>2 DEF RoomSafe, SeatSafe
<1>6. RoomSafe(Admit(Q, {k})) /\ Admit(Q, {k}).creatorUser = Q.creatorUser
  BY <1>4, <1>5, AdmitSafe, {k} \in SUBSET Sockets
<1>7. chan' \in [RoomIds -> SUBSET Sockets]
  BY <1>3, ChanType, {k} \in SUBSET Sockets DEF IInv, TypeOK
<1>8. CASE Full(R)
  <2>1. room' = [room EXCEPT ![o] = Q]
    BY <1>3, <1>8
  <2> QED BY <2>1, <1>1, <1>2, <1>3, <1>4, <1>7, UpdateKeeps DEF IInv, TypeOK, R
<1>9. CASE ~Full(R)
  <2>1. room' = [room EXCEPT ![o] = Admit(Q, {k})]
    BY <1>3, <1>9
  <2> QED BY <2>1, <1>1, <1>2, <1>3, <1>6, <1>7, UpdateKeeps DEF IInv, TypeOK, R
<1> QED BY <1>8, <1>9

LEMMA RejectKnockSafe ==
    ASSUME IInv, NEW s \in Sockets, NEW r \in RoomIds, NEW k \in Sockets, RejectKnock(s, r, k)
    PROVE  IInv'
<1> DEFINE o == rooms[r]
           R == room[o]
           Q == [R EXCEPT !.knock = @ \ {k}]
<1>1. o \in Objs /\ R # NoRoom /\ RoomSafe(R)
  BY DEF RejectKnock, Controls, IInv, TypeOK, Linked, Objects
<1>2. /\ Q \in RoomInfo /\ Q.creatorUser = R.creatorUser
      /\ Q.creatorSock = R.creatorSock /\ Q.private = R.private
      /\ Q.peers = R.peers /\ Q.timers = R.timers /\ Q.knock \subseteq R.knock
  BY <1>1 DEF RoomSafe, RoomInfo
<1>3. room' = [room EXCEPT ![o] = Q] /\ UNCHANGED <<conn, rooms, chan, call>>
  BY DEF RejectKnock
<1> HIDE DEF Q
<1>4. RoomSafe(Q)
  BY <1>1, <1>2, NarrowSafe
<1> QED BY <1>1, <1>2, <1>3, <1>4, UpdateKeeps DEF IInv, TypeOK

LEMMA SetRoomPrivacySafe ==
    ASSUME IInv, NEW s \in Sockets, NEW r \in RoomIds, NEW private \in BOOLEAN,
           SetRoomPrivacy(s, r, private)
    PROVE  IInv'
<1> DEFINE o == rooms[r]
           R == [room[o] EXCEPT !.private = private]
           Q == [R EXCEPT !.knock = {}]
<1>1. o \in Objs /\ room[o] # NoRoom /\ RoomSafe(room[o])
  BY DEF SetRoomPrivacy, Controls, IInv, TypeOK, Linked, Objects
<1>2. UNCHANGED <<conn, rooms, call>>
  BY DEF SetRoomPrivacy
<1>3. CASE private
  <2>1. room' = [room EXCEPT ![o] = R] /\ UNCHANGED chan
    BY <1>3 DEF SetRoomPrivacy
  <2>2. /\ R \in RoomInfo /\ R.creatorUser = room[o].creatorUser
        /\ R.creatorSock = room[o].creatorSock /\ R.peers = room[o].peers
        /\ R.timers = room[o].timers /\ R.knock \subseteq room[o].knock /\ R.private
    BY <1>1, <1>3 DEF RoomSafe, RoomInfo
  <2> HIDE DEF R
  <2>3. RoomSafe(R)
    BY <1>1, <2>2, PrivacySafe
  <2> QED BY <1>1, <1>2, <2>1, <2>2, <2>3, UpdateKeeps DEF IInv, TypeOK
<1>4. CASE ~private
  <2>1. PICK A \in Admitted(R) : /\ room' = [room EXCEPT ![o] = Admit(Q, A)]
                                 /\ chan' = JoinChan(chan, r, A)
    BY <1>4 DEF SetRoomPrivacy
  <2>2. A \subseteq room[o].knock /\ A \in SUBSET Sockets
    BY <1>1 DEF Admitted, RoomSafe, RoomInfo
  <2>3. /\ Q \in RoomInfo /\ Q.creatorUser = room[o].creatorUser
        /\ Q.creatorSock = room[o].creatorSock /\ Q.peers = room[o].peers
        /\ Q.timers = room[o].timers /\ Q.knock = {}
    BY <1>1 DEF RoomSafe, RoomInfo
  <2> HIDE DEF Q
  <2>4. RoomSafe(Q)
    BY <1>1, <2>3, PrivacySafe
  <2>5. \A u \in A, t \in A \cup Q.peers \cup Q.knock :
           IsUser(u) /\ UserOf[u] = UserOf[t] /\ UserOf[u] # Q.creatorUser => u = t
    BY <1>1, <2>2, <2>3 DEF RoomSafe, SeatSafe
  <2>6. RoomSafe(Admit(Q, A)) /\ Admit(Q, A).creatorUser = Q.creatorUser
    BY <2>2, <2>4, <2>5, AdmitSafe
  <2>7. chan' \in [RoomIds -> SUBSET Sockets]
    BY <2>1, <2>2, ChanType DEF IInv
  <2> QED BY <1>1, <1>2, <2>1, <2>3, <2>6, <2>7, UpdateKeeps DEF IInv, TypeOK
<1> QED BY <1>3, <1>4

LEMMA TimerSafeStep ==
    ASSUME IInv, NEW o \in Objs, NEW s \in Sockets, GraceExpire(o, s) \/ CreatorExpire(o, s)
    PROVE  IInv'
<1> DEFINE R == room[o]
<1>1. R # NoRoom /\ RoomSafe(R) /\ R.id \in RoomIds
  BY DEF GraceExpire, CreatorExpire, IInv, Objects, RoomSafe, RoomInfo
<1>2. UNCHANGED <<conn, chan, call>>
  BY DEF GraceExpire, CreatorExpire
<1>3. /\ rooms' \in [RoomIds -> Objs \cup {NoObj}]
      /\ \A q \in RoomIds : rooms'[q] \in {rooms[q], NoObj}
  BY <1>1 DEF GraceExpire, CreatorExpire, DropIfEmpty, IInv, TypeOK
<1>4. CASE GraceExpire(o, s)
  <2>1. room' = [room EXCEPT ![o] = RemovePeer(R, s)]
    BY <1>1, <1>4 DEF GraceExpire, RoomSafe, TimerSafe
  <2>2. RoomSafe(RemovePeer(R, s)) /\ RemovePeer(R, s).creatorUser = R.creatorUser
    BY <1>1, RemovePeerSafe
  <2> QED BY <1>1, <1>2, <1>3, <2>1, <2>2, UpdateKeeps DEF IInv, TypeOK
<1>5. CASE CreatorExpire(o, s)
  <2> DEFINE Q == [R EXCEPT !.ctimers = @ \ {s}]
  <2>1. room' = [room EXCEPT ![o] = Q]
    BY <1>5 DEF CreatorExpire
  <2>2. /\ Q \in RoomInfo /\ Q.creatorUser = R.creatorUser
        /\ Q.creatorSock = R.creatorSock /\ Q.private = R.private
        /\ Q.peers = R.peers /\ Q.timers = R.timers /\ Q.knock \subseteq R.knock
    BY <1>1 DEF RoomSafe, RoomInfo
  <2> HIDE DEF Q
  <2>3. RoomSafe(Q)
    BY <1>1, <2>2, NarrowSafe
  <2> QED BY <1>1, <1>2, <1>3, <2>1, <2>2, <2>3, UpdateKeeps DEF IInv, TypeOK
<1> QED BY <1>4, <1>5

\* A suspended handler that ends, with or without changing its room object.
LEMMA FinishKeeps ==
    ASSUME IInv, NEW c \in Calls, Finish(c)
    PROVE  /\ call' \in [Calls -> CallInfo \cup {Idle}]
           /\ \A d \in Calls : call'[d] \in {call[d], Idle}
BY DEF Finish, IInv, TypeOK

LEMMA RefusedSafe ==
    ASSUME IInv, NEW c \in Calls, Finish(c), UNCHANGED <<conn, rooms, room, chan>>
    PROVE  IInv'
<1>1. TypeOK'
  BY FinishKeeps DEF IInv, TypeOK
<1>2. Linked'
  BY FinishKeeps DEF IInv, Linked, IsUser
<1>3. (\A o \in Objects : RoomSafe(room[o]))'
  BY DEF IInv, Objects, RoomSafe, RoomInfo, ControlSafe, SeatSafe, DoorSafe, TimerSafe, IsUser
<1> QED BY <1>1, <1>2, <1>3 DEF IInv

LEMMA FinishSafe ==
    ASSUME IInv, NEW c \in Calls, CreatedBinding(c) \/ ReclaimFinish(c) \/ JoinFinish(c)
    PROVE  IInv'
<1> DEFINE o == call[c].obj
           s == call[c].sock
           R == room[o]
           Q == [R EXCEPT !.bound = TRUE]
<1>1. /\ o \in Objs /\ R # NoRoom /\ RoomSafe(R)
      /\ s \in Sockets /\ call[c].id \in RoomIds
      /\ UNCHANGED <<conn, rooms>> /\ Finish(c)
  BY DEF CreatedBinding, ReclaimFinish, JoinFinish, IInv, TypeOK, CallInfo, Linked, Objects
<1>2. /\ Q \in RoomInfo /\ Q.creatorUser = R.creatorUser
      /\ Q.creatorSock = R.creatorSock /\ Q.private = R.private
      /\ Q.peers = R.peers /\ Q.timers = R.timers /\ Q.knock \subseteq R.knock
  BY <1>1 DEF RoomSafe, RoomInfo
<1>3. CASE CreatedBinding(c)
  <2>1. room' = [room EXCEPT ![o] = Q] /\ UNCHANGED chan
    BY <1>3 DEF CreatedBinding
  <2> HIDE DEF Q
  <2>2. RoomSafe(Q)
    BY <1>1, <1>2, NarrowSafe
  <2> QED BY <1>1, <1>2, <2>1, <2>2, FinishKeeps, UpdateKeeps DEF IInv, TypeOK
<1>4. CASE ReclaimFinish(c)
  <2>1. /\ room' = [room EXCEPT ![o] = Admit(Q, {s})]
        /\ chan' = JoinChan(chan, call[c].id, {s})
    BY <1>4 DEF ReclaimFinish
  <2>2. UserOf[s] = R.creatorUser
    BY <1>4 DEF ReclaimFinish, IInv, Linked
  <2> HIDE DEF Q
  <2>3. RoomSafe(Q)
    BY <1>1, <1>2, NarrowSafe
  <2>4. RoomSafe(Admit(Q, {s})) /\ Admit(Q, {s}).creatorUser = Q.creatorUser
    BY <1>1, <1>2, <2>2, <2>3, AdmitSafe, {s} \in SUBSET Sockets
  <2>5. chan' \in [RoomIds -> SUBSET Sockets]
    BY <1>1, <2>1, ChanType, {s} \in SUBSET Sockets DEF IInv
  <2> QED BY <1>1, <1>2, <2>1, <2>4, <2>5, FinishKeeps, UpdateKeeps DEF IInv, TypeOK
<1>5. CASE JoinFinish(c)
  <2>1. JoinBody(o, s, call[c].id)
    BY <1>5 DEF JoinFinish
  <2> HIDE DEF o, s
  <2>2. PICK X : /\ RoomSafe(X) /\ X.creatorUser = room[o].creatorUser
                 /\ room' = [room EXCEPT ![o] = X]
                 /\ chan' \in [RoomIds -> SUBSET Sockets]
    BY <1>1, <2>1, JoinBodySafe
  <2> QED BY <1>1, <2>2, FinishKeeps, UpdateKeeps DEF IInv, TypeOK
<1> QED BY <1>1, <1>3, <1>4, <1>5

\* A handler that suspends before it has a room object.
LEMMA StartSafe ==
    ASSUME IInv, NEW c \in Calls, NEW s \in Sockets, NEW r \in RoomIds, NEW private \in BOOLEAN,
           CreateStart(s, r, private, c) \/ JoinMissing(s, r, c)
    PROVE  IInv'
<1>1. /\ call' \in [Calls -> CallInfo \cup {Idle}]
      /\ call'[c].op \in {"premium", "rehydrate"} /\ call'[c].sock = s /\ IsUser(s)
      /\ \A d \in Calls : d # c => call'[d] = call[d]
  <2> DEFINE busy == \E q \in RoomIds : /\ rooms[q] # NoObj
                                        /\ room[rooms[q]].creatorUser = UserOf[s]
  <2>1. busy \in BOOLEAN
    OBVIOUS
  <2>2. CASE CreateStart(s, r, private, c)
    <3>1. Suspend(c, "premium", s, r, NoObj, private, busy) /\ IsUser(s)
      BY <2>2 DEF CreateStart
    <3> HIDE DEF busy
    <3> QED BY <2>1, <3>1 DEF Suspend, IInv, TypeOK, CallInfo
  <2>3. CASE JoinMissing(s, r, c)
    BY <2>3 DEF JoinMissing, Suspend, IInv, TypeOK, CallInfo
  <2> QED BY <2>2, <2>3
<1>2. UNCHANGED <<conn, rooms, room, chan>>
  BY DEF CreateStart, JoinMissing
<1>3. TypeOK'
  BY <1>1, <1>2 DEF IInv, TypeOK
<1>4. Linked'
  BY <1>1, <1>2 DEF IInv, Linked, IsUser
<1>5. (\A o \in Objects : RoomSafe(room[o]))'
  BY <1>2 DEF IInv, Objects, RoomSafe, RoomInfo, ControlSafe, SeatSafe, DoorSafe, TimerSafe, IsUser
<1> QED BY <1>3, <1>4, <1>5 DEF IInv

\* A fresh object is put in the map for handler c, which goes on with it.
LEMMA FreshSafe ==
    ASSUME IInv, NEW c \in Calls, NEW o \in Objs, ~Live(o), NEW r \in RoomIds,
           NEW X, RoomSafe(X), NEW op \in {"created", "join"}, NEW s \in Sockets,
           room' = [room EXCEPT ![o] = X], rooms' = [rooms EXCEPT ![r] = o],
           chan' \in [RoomIds -> SUBSET Sockets],
           Suspend(c, op, s, r, o, FALSE, FALSE), UNCHANGED conn
    PROVE  IInv'
<1>1. /\ room' \in [Objs -> RoomInfo \cup {NoRoom}]
      /\ (\A p \in Objects : RoomSafe(room[p]))'
      /\ room'[o] # NoRoom
      /\ \A p \in Objs : p # o => room'[p] = room[p]
  BY UpdateOne
<1>2. /\ call' \in [Calls -> CallInfo \cup {Idle}]
      /\ call'[c].op = op /\ call'[c].obj = o
      /\ \A d \in Calls : d # c => call'[d] = call[d]
  BY DEF Suspend, IInv, TypeOK, CallInfo
<1>3. TypeOK'
  BY <1>1, <1>2 DEF IInv, TypeOK
<1>4. Linked'
  <2>1. ASSUME NEW q \in RoomIds, rooms'[q] # NoObj PROVE room'[rooms'[q]] # NoRoom
    <3>1. CASE q = r
      BY <3>1, <1>1 DEF IInv, TypeOK
    <3>2. CASE q # r
      BY <3>2, <2>1, <1>1 DEF Live, IInv, TypeOK, Linked
    <3> QED BY <3>1, <3>2
  <2>2. ASSUME NEW d \in Calls, call'[d] # Idle
        PROVE  /\ call'[d].op \in {"premium", "rehydrate"} => IsUser(call'[d].sock)
               /\ call'[d].op \in {"created", "reclaim", "join"} =>
                    call'[d].obj \in Objs /\ room'[call'[d].obj] # NoRoom
               /\ call'[d].op = "reclaim" =>
                    UserOf[call'[d].sock] = room'[call'[d].obj].creatorUser
    <3>1. CASE d = c
      BY <3>1, <1>1, <1>2
    <3>2. CASE d # c
      <4>1. call'[d] = call[d] /\ call[d] # Idle /\ call[d].obj # o
        BY <3>2, <2>2, <1>2 DEF Live
      <4> QED BY <4>1, <1>1 DEF IInv, Linked
    <3> QED BY <3>1, <3>2
  <2> QED BY <2>1, <2>2 DEF Linked, IsUser
<1> QED BY <1>1, <1>3, <1>4 DEF IInv

LEMMA CreateFinishSafe ==
    ASSUME IInv, NEW c \in Calls, NEW o \in Objs, NEW limit \in Limits, CreateFinish(c, o, limit)
    PROVE  IInv'
<1> DEFINE s == call[c].sock
           r == call[c].id
           X == NewRoom(s, r, call[c].private, limit)
<1>1. /\ s \in Sockets /\ r \in RoomIds /\ call[c].private \in BOOLEAN /\ IsUser(s)
  BY DEF CreateFinish, IInv, TypeOK, CallInfo, Linked
<1>2. UserOf[s] \in Users
  BY <1>1, ConstantsAssumption DEF IsUser
<1>3. RoomSafe(X)
  <2>1. X \in RoomInfo
    BY <1>1, <1>2 DEF NewRoom, RoomInfo
  <2> QED BY <2>1 DEF NewRoom, RoomSafe, ControlSafe, SeatSafe, DoorSafe, TimerSafe
<1>4. /\ ~Live(o) /\ room' = [room EXCEPT ![o] = X] /\ rooms' = [rooms EXCEPT ![r] = o]
      /\ chan' = JoinChan(chan, r, {s})
      /\ Suspend(c, "created", s, r, o, FALSE, FALSE) /\ UNCHANGED conn
  BY DEF CreateFinish
<1>5. chan' \in [RoomIds -> SUBSET Sockets]
  BY <1>1, <1>4, ChanType, {s} \in SUBSET Sockets DEF IInv
<1> HIDE DEF X, s, r
<1> QED BY <1>1, <1>3, <1>4, <1>5, FreshSafe

LEMMA RehydrateSafe ==
    ASSUME IInv, NEW c \in Calls, NEW o \in Objs, Rehydrate(c, o)
    PROVE  IInv'
<1> DEFINE s == call[c].sock
           r == call[c].id
           X == ChatRoom(r)
<1>1. s \in Sockets /\ r \in RoomIds
  BY DEF Rehydrate, IInv, TypeOK, CallInfo
<1>2. RoomSafe(X)
  <2>1. X \in RoomInfo
    BY <1>1, ConstantsAssumption DEF ChatRoom, RoomInfo
  <2> QED BY <2>1 DEF ChatRoom, RoomSafe, ControlSafe, SeatSafe, DoorSafe, TimerSafe
<1>3. /\ ~Live(o) /\ room' = [room EXCEPT ![o] = X] /\ rooms' = [rooms EXCEPT ![r] = o]
      /\ Suspend(c, "join", s, r, o, FALSE, FALSE) /\ UNCHANGED <<conn, chan>>
  BY DEF Rehydrate
<1>4. chan' \in [RoomIds -> SUBSET Sockets]
  BY <1>3 DEF IInv, TypeOK
<1> HIDE DEF X, s, r
<1> QED BY <1>1, <1>2, <1>3, <1>4, FreshSafe

LEMMA NextSafe == IInv /\ [Next]_vars => IInv'
<1> SUFFICES ASSUME IInv, [Next]_vars PROVE IInv'
  OBVIOUS
<1>1. CASE Request
  <2>1. ASSUME NEW s \in Sockets, Disconnect(s) PROVE IInv'
    BY <2>1, DisconnectSafe
  <2>2. ASSUME NEW s \in Sockets, NEW r \in RoomIds,
               ReclaimRoom(s, r) \/ JoinRoom(s, r) \/ LeaveRoom(s, r)
        PROVE  IInv'
    BY <2>2, ReclaimRoomSafe, JoinRoomSafe, LeaveRoomSafe
  <2>3. ASSUME NEW s \in Sockets, NEW r \in RoomIds, NEW c \in Calls, NEW private \in BOOLEAN,
               JoinMissing(s, r, c) \/ CreateStart(s, r, private, c)
        PROVE  IInv'
    BY <2>3, StartSafe
  <2>4. ASSUME NEW s \in Sockets, NEW k \in Sockets, NEW r \in RoomIds,
               ApproveKnock(s, r, k) \/ RejectKnock(s, r, k) \/ KickPeer(s, r, k)
        PROVE  IInv'
    BY <2>4, ApproveKnockSafe, RejectKnockSafe, KickPeerSafe
  <2>5. ASSUME NEW s \in Sockets, NEW r \in RoomIds, NEW private \in BOOLEAN,
               SetRoomPrivacy(s, r, private)
        PROVE  IInv'
    BY <2>5, SetRoomPrivacySafe
  <2>6. TRUE \in BOOLEAN
    OBVIOUS
  <2> QED BY <1>1, <2>1, <2>2, <2>3, <2>4, <2>5, <2>6 DEF Request
<1>2. ASSUME NEW c \in Calls, Resume(c) PROVE IInv'
  <2>1. ASSUME NEW o \in Objs, NEW limit \in Limits, CreateFinish(c, o, limit) PROVE IInv'
    BY <2>1, CreateFinishSafe
  <2>2. ASSUME NEW o \in Objs, Rehydrate(c, o) PROVE IInv'
    BY <2>2, RehydrateSafe
  <2>3. CASE CreateRefused(c) \/ RehydrateMissing(c)
    BY <2>3, RefusedSafe DEF CreateRefused, RehydrateMissing
  <2>4. CASE CreatedBinding(c) \/ ReclaimFinish(c) \/ JoinFinish(c)
    BY <2>4, FinishSafe
  <2> QED BY <1>2, <2>1, <2>2, <2>3, <2>4 DEF Resume
<1>3. CASE Timer
  BY <1>3, TimerSafeStep DEF Timer
<1>4. CASE UNCHANGED vars
  <2>1. UNCHANGED <<conn, rooms, room, chan, call>>
    BY <1>4 DEF vars
  <2> QED BY <2>1 DEF IInv, TypeOK, Linked, Objects, RoomSafe, RoomInfo, ControlSafe,
                      SeatSafe, DoorSafe, TimerSafe, IsUser
<1> QED BY <1>1, <1>2, <1>3, <1>4 DEF Next

\* The inductive invariant holds in every reachable state.
THEOREM Invariance == Spec => []IInv
BY InitSafe, NextSafe, PTL DEF Spec

\* The variables keep their types, in every instance of any size.
THEOREM TypeCorrect == Spec => []TypeOK
<1>1. IInv => TypeOK
  BY DEF IInv
<1> QED BY <1>1, Invariance, PTL

\* Control of a room is only ever held by a socket of the account that created
\* it (creatorSocketId and creatorUserId, through every handler and timer).
THEOREM ControlCorrect == Spec => []OnlyCreatorControls
<1>1. IInv => OnlyCreatorControls
  BY DEF IInv, RoomSafe, ControlSafe, OnlyCreatorControls
<1> QED BY <1>1, Invariance, PTL

\* No account other than the creator's ever has two seats of a room, or a seat
\* and a place in its knock queue.
THEOREM SeatsCorrect == Spec => []OneSeatPerUser
<1>1. IInv => OneSeatPerUser
  BY DEF IInv, RoomSafe, SeatSafe, OneSeatPerUser
<1> QED BY <1>1, Invariance, PTL

\* Nobody waits at the door of an open room.
THEOREM DoorCorrect == Spec => []OpenDoorHasNoQueue
<1>1. IInv => OpenDoorHasNoQueue
  BY DEF IInv, RoomSafe, DoorSafe, OpenDoorHasNoQueue
<1> QED BY <1>1, Invariance, PTL

\* A running grace timer stands for a seat whose socket has disconnected.
THEOREM TimersCorrect == Spec => []TimersOnlyForGone
<1>1. IInv => TimersOnlyForGone
  BY DEF IInv, RoomSafe, TimerSafe, TimersOnlyForGone
<1> QED BY <1>1, Invariance, PTL
-----------------------------------------------------------------------------
(* What one step may do to a room: the action properties *)

Holding == {"created", "reclaim", "join"}

\* The map and the suspended handlers go by the object's own id.
Named ==
    /\ \A r \in RoomIds : rooms[r] # NoObj => room[rooms[r]].id = r
    /\ \A c \in Calls : call[c] # Idle /\ call[c].op \in Holding =>
         room[call[c].obj].id = call[c].id

\* Who may have got a seat when object R has become N.
Seats(R, N) ==
    /\ N.id = R.id /\ N.creatorUser = R.creatorUser
    /\ \A s \in N.peers \ R.peers :
         /\ s \in R.knock \/ ~R.private \/ UserOf[s] = R.creatorUser
         /\ UserOf[s] # R.creatorUser => Cardinality(N.peers) <= N.limit

\* The connected sockets that lose their seat in the step no longer hear R.
Silent(R, N) == \A s \in R.peers \ N.peers : conn'[s] = "up" => s \notin chan'[R.id]

\* A step keeps an object, changes it within these bounds, or reuses a dead one.
ObjectStep(o) ==
    \/ room'[o] = room[o]
    \/ room[o] # NoRoom /\ Seats(room[o], room'[o]) /\ Silent(room[o], room'[o])
    \/ ~Live(o) /\ \A s \in room'[o].peers : UserOf[s] = room'[o].creatorUser

NameStep(r) ==
    \/ rooms'[r] \in {rooms[r], NoObj}
    \/ rooms'[r] \in Objs /\ room'[rooms'[r]].id = r

CallStep(c) ==
    \/ call'[c] \in {call[c], Idle}
    \/ call'[c].op \notin Holding
    \/ call'[c].obj \in Objs /\ room'[call'[c].obj].id = call'[c].id

Bounded ==
    /\ \A o \in Objs : ObjectStep(o)
    /\ \A r \in RoomIds : NameStep(r)
    /\ \A c \in Calls : CallStep(c)

LEMMA ReplaceSeatFrame ==
    ASSUME NEW R \in RoomInfo, NEW s \in Sockets, NEW old \in FirstOther(R, s)
    PROVE  /\ ReplaceSeat(R, old, s) \in RoomInfo
           /\ ReplaceSeat(R, old, s).id = R.id
           /\ ReplaceSeat(R, old, s).limit = R.limit
           /\ ReplaceSeat(R, old, s).creatorUser = R.creatorUser
           /\ ReplaceSeat(R, old, s).private = R.private
           /\ ReplaceSeat(R, old, s).knock = R.knock
           /\ ReplaceSeat(R, old, s).peers = R.peers \ {old}
           /\ old = NoSock \/ (old \in Sockets /\ old # NoSock /\ old # s)
<1>1. CASE OtherSeats(R, s) = {}
  <2>1. old = NoSock
    BY <1>1 DEF FirstOther
  <2>2. R.peers \ {old} = R.peers
    BY <2>1, ConstantsAssumption DEF RoomInfo
  <2> QED BY <2>1, <2>2 DEF ReplaceSeat
<1>2. CASE OtherSeats(R, s) # {}
  <2>1. old \in R.peers /\ old \in Sockets /\ old # NoSock /\ old # s
    BY <1>2, ConstantsAssumption DEF FirstOther, OtherSeats, RoomInfo
  <2>2. ReplaceSeat(R, old, s) =
          [R EXCEPT !.peers = @ \ {old}, !.timers = @ \ {old},
                    !.creatorSock = IF @ = old THEN s ELSE @]
    BY <2>1 DEF ReplaceSeat
  <2> QED BY <2>1, <2>2 DEF RoomInfo
<1> QED BY <1>1, <1>2

LEMMA AdmitFrame ==
    ASSUME NEW R \in RoomInfo, NEW A \in SUBSET Sockets
    PROVE  /\ Admit(R, A) \in RoomInfo
           /\ Admit(R, A).id = R.id /\ Admit(R, A).limit = R.limit
           /\ Admit(R, A).creatorUser = R.creatorUser
           /\ Admit(R, A).peers = R.peers \cup A
BY DEF Admit, RoomInfo

LEMMA RemovePeerFrame ==
    ASSUME NEW R \in RoomInfo, NEW s \in Sockets
    PROVE  /\ RemovePeer(R, s) \in RoomInfo
           /\ RemovePeer(R, s).id = R.id
           /\ RemovePeer(R, s).creatorUser = R.creatorUser
           /\ RemovePeer(R, s).peers = R.peers \ {s}
BY DEF RemovePeer, RoomInfo

LEMMA DropIfEmptyFrame ==
    ASSUME NEW R, NEW r \in RoomIds, TypeOK, NEW q \in RoomIds
    PROVE  DropIfEmpty(R, r)[q] \in {rooms[q], NoObj}
BY DEF TypeOK, DropIfEmpty

\* A socket that is made to leave the channel has left it, whoever else joins.
LEMMA LeaveChanSilences ==
    ASSUME TypeOK, NEW r \in RoomIds, NEW old \in Sockets, conn[old] = "up", old # NoSock,
           NEW A \in SUBSET Sockets, old \notin A
    PROVE  /\ old \notin LeaveChan(chan, r, old)[r]
           /\ old \notin JoinChan(LeaveChan(chan, r, old), r, A)[r]
BY DEF TypeOK, LeaveChan, JoinChan

LEMMA Finite == \A R \in RoomInfo :
    IsFiniteSet(R.peers) /\ Cardinality(R.peers) \in Nat /\ R.limit \in Nat
BY ConstantsAssumption, FS_Subset, FS_CardinalityType DEF RoomInfo

\* One allocated object changes, and at most one handler ends.
LEMMA OneMoves ==
    ASSUME IInv, NEW o \in Objs, room[o] # NoRoom, NEW X,
           room' = [room EXCEPT ![o] = X], Seats(room[o], X), Silent(room[o], X),
           \A r \in RoomIds : NameStep(r), \A c \in Calls : CallStep(c)
    PROVE  Bounded
<1>1. ASSUME NEW p \in Objs PROVE ObjectStep(p)
  <2>1. CASE p = o
    <3>1. room'[p] = X
      BY <2>1 DEF IInv, TypeOK
    <3> QED BY <2>1, <3>1 DEF ObjectStep
  <2>2. CASE p # o
    BY <2>2 DEF ObjectStep, IInv, TypeOK
  <2> QED BY <2>1, <2>2
<1> QED BY <1>1 DEF Bounded


LEMMA JoinBodyMoves ==
    ASSUME IInv, NEW o \in Objs, room[o] # NoRoom, NEW s \in Sockets,
           NEW r \in RoomIds, room[o].id = r, JoinBody(o, s, r),
           UNCHANGED conn
    PROVE  \E X : /\ room' = [room EXCEPT ![o] = X]
                  /\ Seats(room[o], X) /\ Silent(room[o], X)
<1> DEFINE R == [room[o] EXCEPT !.bound = TRUE]
<1>0. room[o] \in RoomInfo
  BY DEF IInv, TypeOK
<1>1. /\ R \in RoomInfo /\ R.id = r /\ R.creatorUser = room[o].creatorUser
      /\ R.private = room[o].private /\ R.peers = room[o].peers
      /\ R.knock = room[o].knock /\ R.limit = room[o].limit
  BY <1>0 DEF RoomInfo
<1>2. CASE s \in R.peers
  <2>1. room' = [room EXCEPT ![o] = R]
    BY <1>2 DEF JoinBody
  <2> HIDE DEF R
  <2>2. Seats(room[o], R) /\ Silent(room[o], R)
    BY <1>1 DEF Seats, Silent
  <2> QED BY <2>1, <2>2
<1>3. CASE s \notin R.peers
  <2>1. PICK old \in FirstOther(R, s) :
          LET Q == ReplaceSeat(R, old, s) IN
          CASE Full(Q) ->
                 /\ room' = [room EXCEPT ![o] = Q]
                 /\ chan' = LeaveChan(chan, r, old)
            [] ~Full(Q) /\ Q.private ->
                 /\ room' = [room EXCEPT ![o] =
                      [Q EXCEPT !.knock = {k \in @ : ~SamePeerKey(s, k)} \cup {s}]]
                 /\ chan' = LeaveChan(chan, r, old)
            [] ~Full(Q) /\ ~Q.private ->
                 /\ room' = [room EXCEPT ![o] = Admit(Q, {s})]
                 /\ chan' = JoinChan(LeaveChan(chan, r, old), r, {s})
    BY <1>3 DEF JoinBody
  <2> HIDE DEF R
  <2> DEFINE Q == ReplaceSeat(R, old, s)
             K == [Q EXCEPT !.knock = {k \in @ : ~SamePeerKey(s, k)} \cup {s}]
  <2>2. /\ Q \in RoomInfo /\ Q.id = r /\ Q.creatorUser = R.creatorUser
        /\ Q.private = R.private /\ Q.peers = R.peers \ {old}
        /\ old = NoSock \/ (old \in Sockets /\ old # NoSock /\ old # s)
    BY <1>1, ReplaceSeatFrame
  <2> HIDE DEF Q
  <2>3. \/ room' = [room EXCEPT ![o] = Q] /\ chan' = LeaveChan(chan, r, old)
        \/ room' = [room EXCEPT ![o] = K] /\ chan' = LeaveChan(chan, r, old)
        \/ /\ ~Q.private /\ ~Full(Q)
           /\ room' = [room EXCEPT ![o] = Admit(Q, {s})]
           /\ chan' = JoinChan(LeaveChan(chan, r, old), r, {s})
    BY <2>1, Zenon DEF Q
  <2>4. K.id = Q.id /\ K.creatorUser = Q.creatorUser /\ K.peers = Q.peers
    BY <2>2 DEF RoomInfo
  <2> HIDE DEF K
  <2>5. ASSUME NEW X, X.id = r, X.creatorUser = R.creatorUser, X.peers = Q.peers,
               chan' = LeaveChan(chan, r, old)
        PROVE  Seats(room[o], X) /\ Silent(room[o], X)
    <3>1. Seats(room[o], X)
      BY <1>1, <2>2, <2>5 DEF Seats
    <3>2. ASSUME NEW t \in room[o].peers \ X.peers, conn'[t] = "up"
          PROVE  t \notin chan'[room[o].id]
      <4>1. t = old /\ old \in Sockets /\ old # NoSock
        BY <1>0, <1>1, <2>2, <2>5, <3>2, ConstantsAssumption DEF RoomInfo
      <4>2. conn[old] = "up"
        BY <3>2, <4>1
      <4>3. old \notin LeaveChan(chan, r, old)[r]
        BY <4>1, <4>2, LeaveChanSilences, {} \in SUBSET Sockets, old \notin {} DEF IInv
      <4> QED BY <2>5, <4>1, <4>3
    <3> QED BY <3>1, <3>2 DEF Silent
  <2>6. CASE /\ ~Q.private /\ ~Full(Q)
             /\ room' = [room EXCEPT ![o] = Admit(Q, {s})]
             /\ chan' = JoinChan(LeaveChan(chan, r, old), r, {s})
    <3> DEFINE X == Admit(Q, {s})
    <3>1. /\ X \in RoomInfo /\ X.id = r /\ X.creatorUser = Q.creatorUser
          /\ X.peers = Q.peers \cup {s} /\ X.limit = Q.limit
      BY <2>2, AdmitFrame, {s} \in SUBSET Sockets
    <3> HIDE DEF X
    <3>2. Cardinality(X.peers) <= X.limit
      <4>1. IsFiniteSet(Q.peers) /\ Cardinality(Q.peers) \in Nat /\ Q.limit \in Nat
        BY <2>2, Finite
      <4>2. Cardinality(Q.peers) < Q.limit
        BY <2>6, <4>1 DEF Full
      <4>3. Cardinality(Q.peers \cup {s}) = IF s \in Q.peers THEN Cardinality(Q.peers)
                                           ELSE Cardinality(Q.peers) + 1
        BY <4>1, FS_AddElement, Zenon
      <4> QED BY <3>1, <4>1, <4>2, <4>3
    <3>3. Seats(room[o], X)
      BY <1>1, <2>2, <2>6, <3>1, <3>2 DEF Seats
    <3>4. ASSUME NEW t \in room[o].peers \ X.peers, conn'[t] = "up"
          PROVE  t \notin chan'[room[o].id]
      <4>1. t = old /\ old \in Sockets /\ old # NoSock /\ old \notin {s}
        BY <1>0, <1>1, <2>2, <3>1, <3>4, ConstantsAssumption DEF RoomInfo
      <4>2. conn[old] = "up"
        BY <3>4, <4>1
      <4>3. old \notin JoinChan(LeaveChan(chan, r, old), r, {s})[r]
        BY <4>1, <4>2, LeaveChanSilences, {s} \in SUBSET Sockets DEF IInv
      <4> QED BY <2>6, <4>1, <4>3
    <3>5. Silent(room[o], X)
      BY <3>4 DEF Silent
    <3> QED BY <2>6, <3>3, <3>5 DEF X
  <2>7. CASE chan' = LeaveChan(chan, r, old) /\ room' = [room EXCEPT ![o] = Q]
    BY <2>2, <2>5, <2>7
  <2>8. CASE chan' = LeaveChan(chan, r, old) /\ room' = [room EXCEPT ![o] = K]
    BY <2>2, <2>4, <2>5, <2>8
  <2> QED BY <2>3, <2>6, <2>7, <2>8
<1> QED BY <1>2, <1>3

LEMMA DisconnectMoves ==
    ASSUME IInv, Named, NEW s \in Sockets, Disconnect(s)
    PROVE  Bounded
<1>1. ASSUME NEW o \in Objs PROVE ObjectStep(o)
  <2>1. CASE room'[o] = room[o]
    BY <2>1 DEF ObjectStep
  <2>2. CASE room'[o] # room[o]
    <3>1. room[o] \in RoomInfo /\ room'[o] = Departed(room[o], s)
      BY <2>2, ConstantsAssumption DEF Disconnect, IInv, TypeOK, Linked
    <3>2. /\ room'[o].id = room[o].id /\ room'[o].creatorUser = room[o].creatorUser
          /\ room'[o].peers = room[o].peers
      BY <3>1 DEF Departed, RoomInfo
    <3> QED BY <3>1, <3>2, NoRoomAssumption DEF ObjectStep, Seats, Silent
  <2> QED BY <2>1, <2>2
<1> QED BY <1>1 DEF Bounded, Disconnect, NameStep, CallStep

LEMMA ReclaimRoomMoves ==
    ASSUME IInv, Named, NEW s \in Sockets, NEW r \in RoomIds, ReclaimRoom(s, r)
    PROVE  Bounded
<1> DEFINE o == rooms[r]
           R == [room[o] EXCEPT !.creatorSock = s]
<1>1. o \in Objs /\ room[o] # NoRoom /\ room[o] \in RoomInfo /\ room[o].id = r
  BY DEF ReclaimRoom, IInv, TypeOK, Linked, Named
<1>2. /\ R \in RoomInfo /\ R.id = r /\ R.creatorUser = room[o].creatorUser
      /\ R.peers = room[o].peers
  BY <1>1 DEF RoomInfo
<1>3. UserOf[s] = room[o].creatorUser /\ UNCHANGED <<conn, rooms>>
  BY <1>1 DEF ReclaimRoom, RoomInfo
<1> HIDE DEF R
<1>4. PICK old \in FirstOther(R, s) :
        \/ /\ room' = [room EXCEPT ![o] = Admit(ReplaceSeat(R, old, s), {s})]
           /\ chan' = JoinChan(LeaveChan(chan, r, old), r, {s})
           /\ UNCHANGED call
        \/ /\ room' = [room EXCEPT ![o] = ReplaceSeat(R, old, s)]
           /\ chan' = LeaveChan(chan, r, old)
           /\ \E c \in Calls : Suspend(c, "reclaim", s, r, o, FALSE, FALSE)
  BY DEF ReclaimRoom, R
<1> DEFINE Q == ReplaceSeat(R, old, s)
<1>5. /\ Q \in RoomInfo /\ Q.id = r /\ Q.creatorUser = room[o].creatorUser
      /\ Q.peers = room[o].peers \ {old}
      /\ old = NoSock \/ (old \in Sockets /\ old # NoSock /\ old # s)
  BY <1>2, ReplaceSeatFrame
<1> HIDE DEF Q
<1>6. ASSUME NEW X, X.id = r, X.creatorUser = room[o].creatorUser,
             \/ X.peers = Q.peers /\ chan' = LeaveChan(chan, r, old)
             \/ /\ X.peers = Q.peers \cup {s}
                /\ chan' = JoinChan(LeaveChan(chan, r, old), r, {s})
      PROVE  Seats(room[o], X) /\ Silent(room[o], X)
  <2>1. Seats(room[o], X)
    BY <1>1, <1>3, <1>5, <1>6 DEF Seats
  <2>2. ASSUME NEW t \in room[o].peers \ X.peers, conn'[t] = "up"
        PROVE  t \notin chan'[room[o].id]
    <3>1. t = old /\ old \in Sockets /\ old # NoSock /\ old \notin {s}
      BY <1>1, <1>5, <1>6, <2>2, ConstantsAssumption DEF RoomInfo
    <3>2. conn[old] = "up"
      BY <1>3, <2>2, <3>1
    <3>3. /\ old \notin LeaveChan(chan, r, old)[r]
          /\ old \notin JoinChan(LeaveChan(chan, r, old), r, {s})[r]
      BY <3>1, <3>2, LeaveChanSilences, {s} \in SUBSET Sockets DEF IInv
    <3> QED BY <1>1, <1>6, <3>1, <3>3
  <2> QED BY <2>1, <2>2 DEF Silent
<1>7. \A q \in RoomIds : NameStep(q)
  BY <1>3 DEF NameStep
<1>8. CASE /\ room' = [room EXCEPT ![o] = Admit(Q, {s})]
           /\ chan' = JoinChan(LeaveChan(chan, r, old), r, {s}) /\ UNCHANGED call
  <2>1. /\ Admit(Q, {s}).id = r /\ Admit(Q, {s}).creatorUser = Q.creatorUser
        /\ Admit(Q, {s}).peers = Q.peers \cup {s}
    BY <1>5, AdmitFrame, {s} \in SUBSET Sockets
  <2>2. \A c \in Calls : CallStep(c)
    BY <1>8 DEF CallStep
  <2>3. Seats(room[o], Admit(Q, {s})) /\ Silent(room[o], Admit(Q, {s}))
    BY <1>5, <1>6, <1>8, <2>1
  <2> QED BY <1>1, <1>7, <1>8, <2>2, <2>3, OneMoves
<1>9. ASSUME NEW c \in Calls, Suspend(c, "reclaim", s, r, o, FALSE, FALSE),
             room' = [room EXCEPT ![o] = Q], chan' = LeaveChan(chan, r, old)
      PROVE  Bounded
  <2>1. room'[o] = Q
    BY <1>1, <1>9 DEF IInv, TypeOK
  <2>2. \A d \in Calls : CallStep(d)
    <3>1. call'[c].obj = o /\ call'[c].id = r /\ \A d \in Calls : d # c => call'[d] = call[d]
      BY <1>9 DEF Suspend, IInv, TypeOK
    <3> QED BY <1>1, <1>5, <2>1, <3>1 DEF CallStep
  <2>3. Seats(room[o], Q) /\ Silent(room[o], Q)
    BY <1>5, <1>6, <1>9
  <2> QED BY <1>1, <1>7, <1>9, <2>2, <2>3, OneMoves
<1> QED BY <1>4, <1>8, <1>9 DEF Q


LEMMA JoinRoomMoves ==
    ASSUME IInv, Named, NEW s \in Sockets, NEW r \in RoomIds, JoinRoom(s, r)
    PROVE  Bounded
<1> DEFINE o == rooms[r]
<1>1. o \in Objs /\ room[o] # NoRoom /\ room[o].id = r /\ UNCHANGED <<conn, rooms>>
  BY DEF JoinRoom, IInv, TypeOK, Linked, Named
<1>2. \A q \in RoomIds : NameStep(q)
  BY <1>1 DEF NameStep
<1> HIDE DEF o
<1>3. CASE JoinBody(o, s, r) /\ UNCHANGED call
  <2>1. PICK X : /\ room' = [room EXCEPT ![o] = X]
                 /\ Seats(room[o], X) /\ Silent(room[o], X)
    BY <1>1, <1>3, JoinBodyMoves
  <2>2. \A c \in Calls : CallStep(c)
    BY <1>3 DEF CallStep
  <2> QED BY <1>1, <1>2, <2>1, <2>2, OneMoves
<1>4. ASSUME NEW c \in Calls, Suspend(c, "join", s, r, o, FALSE, FALSE),
             UNCHANGED <<room, chan>>
      PROVE  Bounded
  <2>1. call'[c].obj = o /\ call'[c].id = r /\ \A d \in Calls : d # c => call'[d] = call[d]
    BY <1>4 DEF Suspend, IInv, TypeOK
  <2>2. \A d \in Calls : CallStep(d)
    BY <1>1, <1>4, <2>1 DEF CallStep
  <2> QED BY <1>2, <1>4, <2>2 DEF Bounded, ObjectStep
<1> QED BY <1>3, <1>4 DEF JoinRoom, o

\* A seat is given up, and its socket, if it is still there, leaves the channel.
LEMMA RemovalMoves ==
    ASSUME IInv, NEW o \in Objs, NEW R \in RoomInfo, NEW s \in Sockets,
           room[o] # NoRoom, R.id = room[o].id, R.creatorUser = room[o].creatorUser,
           R.peers = room[o].peers, room' = [room EXCEPT ![o] = RemovePeer(R, s)],
           conn'[s] = "up" => s \notin chan'[room[o].id],
           \A q \in RoomIds : NameStep(q), UNCHANGED call
    PROVE  Bounded
<1> DEFINE X == RemovePeer(R, s)
<1>1. X.id = R.id /\ X.creatorUser = R.creatorUser /\ X.peers = R.peers \ {s}
  BY RemovePeerFrame
<1> HIDE DEF X
<1>2. Seats(room[o], X) /\ Silent(room[o], X)
  BY <1>1 DEF Seats, Silent
<1>3. \A c \in Calls : CallStep(c)
  BY DEF CallStep
<1>4. room' = [room EXCEPT ![o] = X]
  BY DEF X
<1> QED BY <1>2, <1>3, <1>4, OneMoves

\* A room keeps its seats.
LEMMA SameSeatsMoves ==
    ASSUME IInv, NEW o \in Objs, room[o] # NoRoom, NEW X,
           X.id = room[o].id, X.creatorUser = room[o].creatorUser, X.peers = room[o].peers,
           room' = [room EXCEPT ![o] = X],
           \A q \in RoomIds : NameStep(q), \A c \in Calls : CallStep(c)
    PROVE  Bounded
BY OneMoves DEF Seats, Silent

LEMMA LeaveRoomMoves ==
    ASSUME IInv, Named, NEW s \in Sockets, NEW r \in RoomIds, LeaveRoom(s, r)
    PROVE  Bounded
<1> DEFINE o == rooms[r]
           R == room[o]
           Q == IF IsUser(s) THEN R ELSE [R EXCEPT !.knock = @ \ {s}]
<1>1. o \in Objs /\ R # NoRoom /\ R \in RoomInfo /\ R.id = r
  BY DEF LeaveRoom, IInv, TypeOK, Linked, Named
<1>2. /\ Q \in RoomInfo /\ Q.id = R.id /\ Q.creatorUser = R.creatorUser /\ Q.peers = R.peers
  BY <1>1 DEF RoomInfo
<1>3. \/ room' = [room EXCEPT ![o] = RemovePeer(Q, s)] /\ rooms' = DropIfEmpty(room'[o], r)
      \/ room' = [room EXCEPT ![o] = Q] /\ UNCHANGED rooms
  BY DEF LeaveRoom
<1>4. /\ s \notin chan'[r] /\ UNCHANGED call
  BY DEF LeaveRoom, IInv, TypeOK
<1>5. \A q \in RoomIds : NameStep(q)
  BY <1>3, DropIfEmptyFrame DEF NameStep, IInv
<1>6. \A c \in Calls : CallStep(c)
  BY <1>4 DEF CallStep
<1> HIDE DEF Q
<1>7. CASE room' = [room EXCEPT ![o] = RemovePeer(Q, s)]
  BY <1>1, <1>2, <1>4, <1>5, <1>7, RemovalMoves
<1>8. CASE room' = [room EXCEPT ![o] = Q]
  BY <1>1, <1>2, <1>5, <1>6, <1>8, SameSeatsMoves
<1> QED BY <1>3, <1>7, <1>8

LEMMA KickPeerMoves ==
    ASSUME IInv, Named, NEW s \in Sockets, NEW r \in RoomIds, NEW p \in Sockets,
           KickPeer(s, r, p)
    PROVE  Bounded
<1> DEFINE o == rooms[r]
<1>1. o \in Objs /\ room[o] # NoRoom /\ room[o] \in RoomInfo /\ room[o].id = r
  BY DEF KickPeer, Controls, IInv, TypeOK, Linked, Named
<1>2. room' = [room EXCEPT ![o] = RemovePeer(room[o], p)] /\ UNCHANGED <<conn, call>>
  BY DEF KickPeer
<1>3. \A q \in RoomIds : NameStep(q)
  BY DropIfEmptyFrame DEF KickPeer, NameStep, IInv
<1>4. conn'[p] = "up" => p \notin chan'[r]
  BY ConstantsAssumption DEF KickPeer, LeaveChan, IInv, TypeOK
<1> QED BY <1>1, <1>2, <1>3, <1>4, RemovalMoves

LEMMA ApproveKnockMoves ==
    ASSUME IInv, Named, NEW s \in Sockets, NEW r \in RoomIds, NEW k \in Sockets,
           ApproveKnock(s, r, k)
    PROVE  Bounded
<1> DEFINE o == rooms[r]
           R == room[o]
           Q == [R EXCEPT !.knock = @ \ {k}]
<1>1. o \in Objs /\ R # NoRoom /\ R \in RoomInfo /\ R.id = r /\ k \in R.knock
  BY DEF ApproveKnock, Controls, IInv, TypeOK, Linked, Named
<1>2. /\ Q \in RoomInfo /\ Q.id = R.id /\ Q.creatorUser = R.creatorUser
      /\ Q.peers = R.peers /\ Q.limit = R.limit
  BY <1>1 DEF RoomInfo
<1>3. /\ room' = [room EXCEPT ![o] = IF Full(R) THEN Q ELSE Admit(Q, {k})]
      /\ UNCHANGED <<conn, rooms, call>>
  BY DEF ApproveKnock
<1>4. (\A q \in RoomIds : NameStep(q)) /\ \A c \in Calls : CallStep(c)
  BY <1>3 DEF NameStep, CallStep
<1> HIDE DEF Q
<1>5. CASE Full(R)
  <2>1. room' = [room EXCEPT ![o] = Q]
    BY <1>3, <1>5
  <2> QED BY <1>1, <1>2, <1>4, <2>1, SameSeatsMoves
<1>6. CASE ~Full(R)
  <2> DEFINE X == Admit(Q, {k})
  <2>1. room' = [room EXCEPT ![o] = X]
    BY <1>3, <1>6
  <2>2. /\ X \in RoomInfo /\ X.id = Q.id /\ X.creatorUser = Q.creatorUser
        /\ X.peers = Q.peers \cup {k} /\ X.limit = Q.limit
    BY <1>2, AdmitFrame, {k} \in SUBSET Sockets
  <2> HIDE DEF X, R, o
  <2>3. Cardinality(X.peers) <= X.limit
    <3>1. IsFiniteSet(R.peers) /\ Cardinality(R.peers) \in Nat /\ R.limit \in Nat
      BY <1>1, Finite
    <3>2. Cardinality(R.peers) < R.limit
      BY <1>6, <3>1 DEF Full
    <3>3. Cardinality(R.peers \cup {k}) = IF k \in R.peers THEN Cardinality(R.peers)
                                         ELSE Cardinality(R.peers) + 1
      BY <3>1, FS_AddElement, Zenon
    <3> QED BY <1>2, <2>2, <3>1, <3>2, <3>3
  <2>4. Seats(R, X) /\ Silent(R, X)
    BY <1>1, <1>2, <2>2, <2>3 DEF Seats, Silent
  <2> QED BY <1>1, <1>4, <2>1, <2>4, OneMoves DEF R
<1> QED BY <1>5, <1>6

LEMMA RejectKnockMoves ==
    ASSUME IInv, Named, NEW s \in Sockets, NEW r \in RoomIds, NEW k \in Sockets,
           RejectKnock(s, r, k)
    PROVE  Bounded
<1> DEFINE o == rooms[r]
           Q == [room[o] EXCEPT !.knock = @ \ {k}]
<1>1. o \in Objs /\ room[o] # NoRoom /\ room[o] \in RoomInfo
  BY DEF RejectKnock, Controls, IInv, TypeOK, Linked, Named
<1>2. Q.id = room[o].id /\ Q.creatorUser = room[o].creatorUser /\ Q.peers = room[o].peers
  BY <1>1 DEF RoomInfo
<1>3. room' = [room EXCEPT ![o] = Q] /\ UNCHANGED <<rooms, call>>
  BY DEF RejectKnock
<1>4. (\A q \in RoomIds : NameStep(q)) /\ \A c \in Calls : CallStep(c)
  BY <1>3 DEF NameStep, CallStep
<1> HIDE DEF Q, o
<1> QED BY <1>1, <1>2, <1>3, <1>4, SameSeatsMoves

LEMMA SetRoomPrivacyMoves ==
    ASSUME IInv, Named, NEW s \in Sockets, NEW r \in RoomIds, NEW private \in BOOLEAN,
           SetRoomPrivacy(s, r, private)
    PROVE  Bounded
<1> DEFINE o == rooms[r]
           R == [room[o] EXCEPT !.private = private]
           Q == [R EXCEPT !.knock = {}]
<1>1. o \in Objs /\ room[o] # NoRoom /\ room[o] \in RoomInfo /\ UNCHANGED <<rooms, call>>
  BY DEF SetRoomPrivacy, Controls, IInv, TypeOK, Linked
<1>2. /\ R \in RoomInfo /\ R.id = room[o].id /\ R.creatorUser = room[o].creatorUser
      /\ R.peers = room[o].peers /\ R.knock = room[o].knock /\ R.limit = room[o].limit
  BY <1>1 DEF RoomInfo
<1>3. /\ Q \in RoomInfo /\ Q.id = R.id /\ Q.creatorUser = R.creatorUser
      /\ Q.peers = R.peers /\ Q.limit = R.limit
  BY <1>2 DEF RoomInfo
<1>4. (\A q \in RoomIds : NameStep(q)) /\ \A c \in Calls : CallStep(c)
  BY <1>1 DEF NameStep, CallStep
<1>5. CASE private
  <2>1. room' = [room EXCEPT ![o] = R]
    BY <1>5 DEF SetRoomPrivacy
  <2> HIDE DEF R, o
  <2> QED BY <1>1, <1>2, <1>4, <2>1, SameSeatsMoves
<1>6. CASE ~private
  <2>1. PICK A \in Admitted(R) : room' = [room EXCEPT ![o] = Admit(Q, A)]
    BY <1>6 DEF SetRoomPrivacy
  <2> DEFINE X == Admit(Q, A)
  <2> HIDE DEF Q, R, o
  <2>2. A \subseteq R.knock /\ A \in SUBSET Sockets
    BY <1>2 DEF Admitted, RoomInfo
  <2>3. /\ X.id = Q.id /\ X.creatorUser = Q.creatorUser
        /\ X.peers = Q.peers \cup A /\ X.limit = Q.limit
    BY <1>3, <2>2, AdmitFrame
  <2>4. A = {} \/ Cardinality(R.peers \cup A) = R.limit
               \/ Cardinality(R.peers \cup A) < R.limit
    BY DEF Admitted
  <2>5. R.limit \in Nat
    BY <1>2, Finite
  <2> HIDE DEF X
  <2>6. A = {} \/ Cardinality(X.peers) <= X.limit
    <3>1. R.peers \cup A = X.peers /\ R.limit = X.limit
      BY <1>3, <2>3
    <3>2. R.peers \cup A \in SUBSET Sockets
      BY <1>2, <2>2 DEF RoomInfo
    <3>3. Cardinality(R.peers \cup A) \in Nat
      BY <3>2, ConstantsAssumption, FS_Subset, FS_CardinalityType
    <3> QED BY <2>4, <2>5, <3>1, <3>3
  <2>7. Seats(room[o], X) /\ Silent(room[o], X)
    BY <1>2, <1>3, <2>2, <2>3, <2>6 DEF Seats, Silent
  <2> QED BY <1>1, <1>4, <2>1, <2>7, OneMoves DEF X
<1> QED BY <1>5, <1>6

LEMMA TimerMoves ==
    ASSUME IInv, Named, NEW o \in Objs, NEW s \in Sockets,
           GraceExpire(o, s) \/ CreatorExpire(o, s)
    PROVE  Bounded
<1> DEFINE R == room[o]
<1>1. R # NoRoom /\ R \in RoomInfo /\ RoomSafe(R) /\ UNCHANGED <<conn, call>>
  BY DEF GraceExpire, CreatorExpire, IInv, Objects, RoomSafe
<1>2. \A q \in RoomIds : NameStep(q)
  BY <1>1, DropIfEmptyFrame DEF GraceExpire, CreatorExpire, NameStep, IInv, TypeOK, RoomInfo
<1>3. \A c \in Calls : CallStep(c)
  BY <1>1 DEF CallStep
<1>4. CASE GraceExpire(o, s)
  <2>1. room' = [room EXCEPT ![o] = RemovePeer(R, s)] /\ conn[s] = "down"
    BY <1>1, <1>4 DEF GraceExpire, RoomSafe, TimerSafe
  <2> QED BY <1>1, <1>2, <2>1, RemovalMoves
<1>5. CASE CreatorExpire(o, s)
  <2> DEFINE Q == [R EXCEPT !.ctimers = @ \ {s}]
  <2>1. room' = [room EXCEPT ![o] = Q]
    BY <1>5 DEF CreatorExpire
  <2>2. Q.id = R.id /\ Q.creatorUser = R.creatorUser /\ Q.peers = R.peers
    BY <1>1 DEF RoomInfo
  <2> HIDE DEF Q
  <2> QED BY <1>1, <1>2, <1>3, <2>1, <2>2, SameSeatsMoves
<1> QED BY <1>4, <1>5


LEMMA FinishMoves ==
    ASSUME IInv, Named, NEW c \in Calls, CreatedBinding(c) \/ ReclaimFinish(c) \/ JoinFinish(c)
    PROVE  Bounded
<1> DEFINE o == call[c].obj
           s == call[c].sock
           R == room[o]
           Q == [R EXCEPT !.bound = TRUE]
<1>1. /\ o \in Objs /\ R # NoRoom /\ R \in RoomInfo /\ R.id = call[c].id
      /\ s \in Sockets /\ call[c].id \in RoomIds
      /\ UNCHANGED <<conn, rooms>> /\ Finish(c)
  BY DEF CreatedBinding, ReclaimFinish, JoinFinish, IInv, TypeOK, CallInfo, Linked, Named, Holding
<1>2. /\ Q \in RoomInfo /\ Q.id = R.id /\ Q.creatorUser = R.creatorUser /\ Q.peers = R.peers
  BY <1>1 DEF RoomInfo
<1>3. \A q \in RoomIds : NameStep(q)
  BY <1>1 DEF NameStep
<1>4. \A d \in Calls : CallStep(d)
  BY <1>1, FinishKeeps DEF CallStep
<1>5. CASE CreatedBinding(c)
  <2>1. room' = [room EXCEPT ![o] = Q]
    BY <1>5 DEF CreatedBinding
  <2> HIDE DEF Q, o
  <2> QED BY <1>1, <1>2, <1>3, <1>4, <2>1, SameSeatsMoves
<1>6. CASE ReclaimFinish(c)
  <2> DEFINE X == Admit(Q, {s})
  <2>1. room' = [room EXCEPT ![o] = X]
    BY <1>6 DEF ReclaimFinish
  <2>2. UserOf[s] = R.creatorUser
    BY <1>6 DEF ReclaimFinish, IInv, Linked
  <2>3. X.id = Q.id /\ X.creatorUser = Q.creatorUser /\ X.peers = Q.peers \cup {s}
    BY <1>1, <1>2, AdmitFrame, {s} \in SUBSET Sockets
  <2> HIDE DEF X
  <2>4. Seats(R, X) /\ Silent(R, X)
    BY <1>1, <1>2, <2>2, <2>3 DEF Seats, Silent
  <2> QED BY <1>1, <1>3, <1>4, <2>1, <2>4, OneMoves
<1>7. CASE JoinFinish(c)
  <2>1. JoinBody(o, s, call[c].id)
    BY <1>7 DEF JoinFinish
  <2> HIDE DEF o, s
  <2>2. PICK X : /\ room' = [room EXCEPT ![o] = X]
                 /\ Seats(room[o], X) /\ Silent(room[o], X)
    BY <1>1, <2>1, JoinBodyMoves
  <2> QED BY <1>1, <1>3, <1>4, <2>2, OneMoves
<1> QED BY <1>5, <1>6, <1>7

LEMMA StartMoves ==
    ASSUME IInv, NEW c \in Calls, NEW s \in Sockets, NEW r \in RoomIds, NEW private \in BOOLEAN,
           CreateStart(s, r, private, c) \/ JoinMissing(s, r, c)
    PROVE  Bounded
<1>1. UNCHANGED <<rooms, room>>
  BY DEF CreateStart, JoinMissing
<1>2. call'[c].op \notin Holding /\ \A d \in Calls : d # c => call'[d] = call[d]
  BY DEF CreateStart, JoinMissing, Suspend, Holding, IInv, TypeOK
<1> QED BY <1>1, <1>2 DEF Bounded, ObjectStep, NameStep, CallStep

\* A dead object is reused for the room that handler c puts in the map.
LEMMA FreshMoves ==
    ASSUME IInv, NEW c \in Calls, NEW o \in Objs, ~Live(o), NEW r \in RoomIds,
           NEW X, X.id = r, \A s \in X.peers : UserOf[s] = X.creatorUser,
           NEW op, NEW s \in Sockets,
           room' = [room EXCEPT ![o] = X], rooms' = [rooms EXCEPT ![r] = o],
           Suspend(c, op, s, r, o, FALSE, FALSE)
    PROVE  Bounded
<1>1. room'[o] = X /\ \A p \in Objs : p # o => room'[p] = room[p]
  BY DEF IInv, TypeOK
<1>2. rooms'[r] = o /\ \A q \in RoomIds : q # r => rooms'[q] = rooms[q]
  BY DEF IInv, TypeOK
<1>3. call'[c].obj = o /\ call'[c].id = r /\ \A d \in Calls : d # c => call'[d] = call[d]
  BY DEF Suspend, IInv, TypeOK
<1>4. \A p \in Objs : ObjectStep(p)
  BY <1>1 DEF ObjectStep
<1>5. \A q \in RoomIds : NameStep(q)
  BY <1>1, <1>2 DEF NameStep
<1>6. \A d \in Calls : CallStep(d)
  BY <1>1, <1>3 DEF CallStep
<1> QED BY <1>4, <1>5, <1>6 DEF Bounded

LEMMA CreateFinishMoves ==
    ASSUME IInv, NEW c \in Calls, NEW o \in Objs, NEW limit \in Limits, CreateFinish(c, o, limit)
    PROVE  Bounded
<1> DEFINE s == call[c].sock
           r == call[c].id
           X == NewRoom(s, r, call[c].private, limit)
<1>1. s \in Sockets /\ r \in RoomIds
  BY DEF CreateFinish, IInv, TypeOK, CallInfo
<1>2. X.id = r /\ \A t \in X.peers : UserOf[t] = X.creatorUser
  BY DEF NewRoom
<1>3. /\ ~Live(o) /\ room' = [room EXCEPT ![o] = X] /\ rooms' = [rooms EXCEPT ![r] = o]
      /\ Suspend(c, "created", s, r, o, FALSE, FALSE)
  BY DEF CreateFinish
<1> HIDE DEF X, s, r
<1> QED BY <1>1, <1>2, <1>3, FreshMoves

LEMMA RehydrateMoves ==
    ASSUME IInv, NEW c \in Calls, NEW o \in Objs, Rehydrate(c, o)
    PROVE  Bounded
<1> DEFINE s == call[c].sock
           r == call[c].id
           X == ChatRoom(r)
<1>1. s \in Sockets /\ r \in RoomIds
  BY DEF Rehydrate, IInv, TypeOK, CallInfo
<1>2. X.id = r /\ \A t \in X.peers : UserOf[t] = X.creatorUser
  BY DEF ChatRoom
<1>3. /\ ~Live(o) /\ room' = [room EXCEPT ![o] = X] /\ rooms' = [rooms EXCEPT ![r] = o]
      /\ Suspend(c, "join", s, r, o, FALSE, FALSE)
  BY DEF Rehydrate
<1> HIDE DEF X, s, r
<1> QED BY <1>1, <1>2, <1>3, FreshMoves

LEMMA NextBounded ==
    ASSUME IInv, Named, [Next]_vars PROVE Bounded
<1>1. CASE Request
  <2>1. ASSUME NEW s \in Sockets, Disconnect(s) PROVE Bounded
    BY <2>1, DisconnectMoves
  <2>2. ASSUME NEW s \in Sockets, NEW r \in RoomIds,
               ReclaimRoom(s, r) \/ JoinRoom(s, r) \/ LeaveRoom(s, r)
        PROVE  Bounded
    BY <2>2, ReclaimRoomMoves, JoinRoomMoves, LeaveRoomMoves
  <2>3. ASSUME NEW s \in Sockets, NEW r \in RoomIds, NEW c \in Calls, NEW private \in BOOLEAN,
               JoinMissing(s, r, c) \/ CreateStart(s, r, private, c)
        PROVE  Bounded
    BY <2>3, StartMoves
  <2>4. ASSUME NEW s \in Sockets, NEW k \in Sockets, NEW r \in RoomIds,
               ApproveKnock(s, r, k) \/ RejectKnock(s, r, k) \/ KickPeer(s, r, k)
        PROVE  Bounded
    BY <2>4, ApproveKnockMoves, RejectKnockMoves, KickPeerMoves
  <2>5. ASSUME NEW s \in Sockets, NEW r \in RoomIds, NEW private \in BOOLEAN,
               SetRoomPrivacy(s, r, private)
        PROVE  Bounded
    BY <2>5, SetRoomPrivacyMoves
  <2>6. TRUE \in BOOLEAN
    OBVIOUS
  <2> QED BY <1>1, <2>1, <2>2, <2>3, <2>4, <2>5, <2>6 DEF Request
<1>2. ASSUME NEW c \in Calls, Resume(c) PROVE Bounded
  <2>1. ASSUME NEW o \in Objs, NEW limit \in Limits, CreateFinish(c, o, limit) PROVE Bounded
    BY <2>1, CreateFinishMoves
  <2>2. ASSUME NEW o \in Objs, Rehydrate(c, o) PROVE Bounded
    BY <2>2, RehydrateMoves
  <2>3. CASE CreateRefused(c) \/ RehydrateMissing(c)
    <3>1. Finish(c) /\ UNCHANGED <<rooms, room>>
      BY <2>3 DEF CreateRefused, RehydrateMissing
    <3> QED BY <3>1, FinishKeeps DEF Bounded, ObjectStep, NameStep, CallStep
  <2>4. CASE CreatedBinding(c) \/ ReclaimFinish(c) \/ JoinFinish(c)
    BY <2>4, FinishMoves
  <2> QED BY <1>2, <2>1, <2>2, <2>3, <2>4 DEF Resume
<1>3. CASE Timer
  BY <1>3, TimerMoves DEF Timer
<1>4. CASE UNCHANGED vars
  BY <1>4 DEF vars, Bounded, ObjectStep, NameStep, CallStep
<1> QED BY <1>1, <1>2, <1>3, <1>4 DEF Next

LEMMA NamedKept ==
    ASSUME IInv, Named, [Next]_vars PROVE Named'
<1>1. Bounded
  BY NextBounded
<1>2. ASSUME NEW o \in Objs, Live(o) PROVE room'[o].id = room[o].id
  BY <1>1, <1>2 DEF Bounded, ObjectStep, Seats
<1>3. ASSUME NEW r \in RoomIds, rooms'[r] # NoObj PROVE room'[rooms'[r]].id = r
  <2>1. CASE rooms'[r] = rooms[r]
    <3>1. rooms[r] \in Objs /\ Live(rooms[r])
      BY <1>3, <2>1 DEF IInv, TypeOK, Live
    <3> QED BY <1>2, <1>3, <2>1, <3>1 DEF Named
  <2> QED BY <1>1, <1>3, <2>1 DEF Bounded, NameStep
<1>4. ASSUME NEW c \in Calls, call'[c] # Idle, call'[c].op \in Holding
      PROVE  room'[call'[c].obj].id = call'[c].id
  <2>1. CASE call'[c] = call[c]
    <3>1. call[c].obj \in Objs /\ Live(call[c].obj)
      BY <1>4, <2>1 DEF IInv, Linked, Live, Holding
    <3> QED BY <1>2, <1>4, <2>1, <3>1 DEF Named
  <2> QED BY <1>1, <1>4, <2>1 DEF Bounded, CallStep
<1> QED BY <1>3, <1>4 DEF Named

LEMMA NamedInvariance == Spec => [](IInv /\ Named)
<1>1. Init => Named
  BY DEF Init, Named
<1>2. IInv /\ Named /\ [Next]_vars => Named'
  BY NamedKept
<1> QED BY <1>1, <1>2, Invariance, PTL DEF Spec

\* Nobody but the creator's own account gets a seat of a private room without
\* having knocked, in whatever handler or resumed handler seats them.
THEOREM InvitationCorrect == Spec => NoUninvitedGuest
<1>1. IInv /\ Named /\ [Next]_vars =>
        [\A o \in Objects : room'[o] # NoRoom =>
           \A s \in room'[o].peers \ room[o].peers :
              \/ s \in room[o].knock
              \/ ~room[o].private
              \/ UserOf[s] = room'[o].creatorUser]_vars
  <2> SUFFICES ASSUME IInv, Named, [Next]_vars, NEW o \in Objects, room'[o] # NoRoom,
                      NEW s \in room'[o].peers \ room[o].peers
               PROVE  \/ s \in room[o].knock
                      \/ ~room[o].private
                      \/ UserOf[s] = room'[o].creatorUser
    OBVIOUS
  <2>1. ObjectStep(o)
    BY NextBounded DEF Bounded, Objects
  <2> QED BY <2>1 DEF ObjectStep, Seats
<1> QED BY <1>1, NamedInvariance, PTL DEF Spec, NoUninvitedGuest

\* No handler that lets someone else than the creator in fills a room beyond
\* its limit, whatever seat it gives up on the way.
THEOREM CapacityCorrect == Spec => AdmittedWithinLimit
<1>1. IInv /\ Named /\ [Next]_vars =>
        [\A o \in Objects :
           (\E s \in room'[o].peers \ room[o].peers : UserOf[s] # room'[o].creatorUser)
           => Cardinality(room'[o].peers) <= room'[o].limit]_vars
  <2> SUFFICES ASSUME IInv, Named, [Next]_vars, NEW o \in Objects,
                      NEW s \in room'[o].peers \ room[o].peers,
                      UserOf[s] # room'[o].creatorUser
               PROVE  Cardinality(room'[o].peers) <= room'[o].limit
    OBVIOUS
  <2>1. ObjectStep(o)
    BY NextBounded DEF Bounded, Objects
  <2> QED BY <2>1 DEF ObjectStep, Seats
<1> QED BY <1>1, NamedInvariance, PTL DEF Spec, AdmittedWithinLimit

\* A connected socket that loses its seat of a registered room leaves the
\* room's channel in the same step: the object a suspended handler works on and
\* the name it uses for the channel never fall apart.
THEOREM DepartureCorrect == Spec => DepartedStopHearing
<1>1. IInv /\ Named /\ [Next]_vars =>
        [\A r \in RoomIds : rooms[r] # NoObj =>
           \A s \in room[rooms[r]].peers :
              /\ conn'[s] = "up"
              /\ s \notin room'[rooms[r]].peers
              => s \notin chan'[r]]_vars
  <2> SUFFICES ASSUME IInv, Named, [Next]_vars, NEW r \in RoomIds, rooms[r] # NoObj,
                      NEW s \in room[rooms[r]].peers, conn'[s] = "up",
                      s \notin room'[rooms[r]].peers
               PROVE  s \notin chan'[r]
    OBVIOUS
  <2>1. /\ rooms[r] \in Objs /\ Live(rooms[r]) /\ room[rooms[r]].id = r
    BY DEF IInv, TypeOK, Live, Named
  <2>2. ObjectStep(rooms[r])
    BY <2>1, NextBounded DEF Bounded
  <2> QED BY <2>1, <2>2 DEF ObjectStep, Silent
<1> QED BY <1>1, NamedInvariance, PTL DEF Spec, DepartedStopHearing

=============================================================================

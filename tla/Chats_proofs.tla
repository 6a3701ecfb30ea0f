----------------------------- MODULE Chats_proofs -----------------------------
(***************************************************************************)
(* Proofs about Chats for any users, lists of admins, messages and         *)
(* requests under way: its type invariant and the five properties that the *)
(* run checks.  The inductive invariant has one part for each group of     *)
(* fields; a step touches one of them and the request that makes it.       *)
(***************************************************************************)
EXTENDS Chats, WellFoundedInduction, TLAPS

-----------------------------------------------------------------------------
(* Requests *)

LEMMA IdleType ==
    /\ Idle \in Request
    /\ Idle.op = "idle" /\ Idle.at = "load" /\ Idle.ask = Nobody /\ Idle.fresh = FALSE
<1>1. Owner \in Users /\ MaxMessages \in Nat BY ConstantsAssumption
<1>2. NoText \in Text BY ConstantsAssumption DEF NoText, Text
<1> QED BY <1>1, <1>2 DEF Idle, Request, Ops, Stages

LEMMA BeginType ==
    ASSUME NEW op \in Ops, NEW u \in Users, NEW at \in Stages
    PROVE  Begin(op, u, at) \in Request
BY IdleType DEF Begin, Request

LEMMA SetStale ==
    ASSUME NEW q \in Request
    PROVE  /\ [q EXCEPT !.fresh = FALSE] \in Request
           /\ [q EXCEPT !.fresh = FALSE].op = q.op
           /\ [q EXCEPT !.fresh = FALSE].at = q.at
           /\ [q EXCEPT !.fresh = FALSE].shown = q.shown
           /\ [q EXCEPT !.fresh = FALSE].user = q.user
           /\ [q EXCEPT !.fresh = FALSE].ask = q.ask
           /\ [q EXCEPT !.fresh = FALSE].members = q.members
           /\ [q EXCEPT !.fresh = FALSE].admins = q.admins
           /\ [q EXCEPT !.fresh = FALSE].fresh = FALSE
BY DEF Request

-----------------------------------------------------------------------------
(* The inductive invariant *)

\* What an edit or a departure is going to store, and that the author of an edit
\* that can still be stored may make it of the chat as it is.
Authorised(q, c) ==
    /\ q.user \in c.members
    /\ q.admins # c.admins => May(q.user, "add_admins", c.admins)
    /\ q.members \ c.members \subseteq DOMAIN q.admins \/ May(q.user, "add_members", c.admins)
    /\ c.members \ q.members \subseteq {q.user} \/ May(q.user, "remove_members", c.admins)

GroupOK(q, c) ==
    q.op \in {"edit", "leave"} =>
      /\ q.admins \in Admins /\ DOMAIN q.admins \subseteq q.members
      /\ q.op = "edit" /\ q.fresh => Authorised(q, c)

Group ==
    /\ DOMAIN chat.admins \subseteq chat.members
    /\ \A r \in Requests : GroupOK(req[r], chat)

\* A request to join is asked once; an answer under way is the call creator's, if what
\* it answers is still on the list.
Calls ==
    /\ \A a \in Asks : ask[a].status = "approved" => ask[a].by = caller
    /\ \A r \in Requests :
         /\ req[r].op = "ask" => req[r].ask \in Asks /\ ask[req[r].ask].status = "new"
         /\ req[r].op = "respond" =>
              /\ req[r].ask \in Asks /\ ask[req[r].ask].status # "new"
              /\ Listed(req[r].ask) => req[r].user = caller
    /\ \A r, s \in Requests :
         req[r].op = "ask" /\ req[s].op = "ask" /\ req[r].ask = req[s].ask => r = s

\* A deleted message has no flag left that would have its text decrypted.
Wiped == \A n \in Numbers : msg[n].deleted => ~msg[n].encrypted

\* Messages are numbered as they are created.
Unsent == \A n \in Numbers : n > sent => ~msg[n].there /\ ~msg[n].deleted /\ msg[n].edits = 0

OfMessages == {"send", "erase", "remove"}

\* Between the change of a message and that of the preview
Between(q) ==
    \/ q.op \in {"send", "erase"} /\ q.at = "preview"
    \/ q.op = "erase" /\ q.at = "find"
    \/ q.op = "remove" /\ q.at = "drop"

Previews ==
    chat.there /\ "messages" \notin raced =>
      /\ \A r, s \in Requests : req[r].op \in OfMessages /\ req[s].op \in OfMessages => r = s
      /\ (\A r \in Requests : ~Between(req[r])) => Current(last)
      /\ \A r \in Requests :
           req[r].op \in {"send", "erase"} /\ req[r].at = "preview" => Current(req[r].shown)

\* A step after which the newest message is the same, and has been edited if its words are not.
SameNewest ==
    /\ Newest' = Newest
    /\ Outdated' \/ (~Outdated /\ NewestText' = NewestText)

Inv == TypeOK /\ Group /\ Calls /\ Wiped /\ Unsent /\ Previews

-----------------------------------------------------------------------------
(* What a step leaves alone *)

LEMMA AcceptedType ==
    ASSUME TypeOK, NEW r \in Requests, NEW x \in Request, Accept(r, x),
           UNCHANGED <<chat, msg, stale, sent, last, keys, secret, caller, ask>>
    PROVE  TypeOK' /\ req' = [req EXCEPT ![r] = x]
<1>1. raced' \subseteq Topics BY DEF Accept, Clash, TypeOK
<1>2. req' \in [Requests -> Request] BY DEF Accept, TypeOK
<1> QED BY <1>1, <1>2 DEF TypeOK, Accept

\* A step that sets one request.
Sets(r, x) == r \in Requests /\ x \in Request /\ req' = [req EXCEPT ![r] = x]

LEMMA SetsType ==
    ASSUME TypeOK, NEW r, NEW x, Sets(r, x)
    PROVE  /\ req' \in [Requests -> Request]
           /\ req'[r] = x /\ \A q \in Requests \ {r} : req'[q] = req[q]
BY DEF TypeOK, Sets

LEMMA GroupFrame ==
    ASSUME TypeOK, Group, NEW r, NEW x, Sets(r, x), x.op \notin {"edit", "leave"},
           chat'.members = chat.members, chat'.admins = chat.admins
    PROVE  Group'
<1>1. ASSUME NEW q \in Requests PROVE GroupOK(req'[q], chat')
  <2>1. CASE q = r BY <2>1, SetsType DEF GroupOK
  <2>2. CASE q # r
    <3>1. req'[q] = req[q] /\ GroupOK(req[q], chat) BY <2>2, SetsType DEF Group
    <3> QED BY <3>1 DEF GroupOK, Authorised, May
  <2> QED BY <2>1, <2>2
<1> QED BY <1>1 DEF Group

LEMMA CallsFrame ==
    ASSUME TypeOK, Calls, NEW r, NEW x, Sets(r, x), x.op \notin {"ask", "respond"},
           UNCHANGED <<ask, caller>>
    PROVE  Calls'
BY SetsType DEF Calls, Listed

\* A preview that was right is right after such a step.
LEMMA SameNewestKeeps ==
    ASSUME SameNewest, NEW text, Current(text)
    PROVE  Current(text)'
BY DEF SameNewest, Current

LEMMA PreviewsFrame ==
    ASSUME TypeOK, Previews, NEW r, NEW x, Sets(r, x),
           req[r].op \notin OfMessages, x.op \notin OfMessages,
           UNCHANGED <<last, raced>>, SameNewest, chat'.there => chat.there
    PROVE  Previews'
<1>1. \A q \in Requests \ {r} : req'[q] = req[q] BY SetsType
<1>2. req'[r] = x BY SetsType
<1>3. ~Between(x) /\ ~Between(req[r]) BY DEF Between, OfMessages
<1>4. (\A q \in Requests : ~Between(req'[q])) => \A q \in Requests : ~Between(req[q])
  BY <1>1, <1>3
<1>5. \A q \in Requests : req'[q].op \in OfMessages => q # r /\ req'[q] = req[q]
  BY <1>1, <1>2
<1> SUFFICES ASSUME (chat.there)', "messages" \notin raced
             PROVE  /\ \A q, s \in Requests :
                         req'[q].op \in OfMessages /\ req'[s].op \in OfMessages => q = s
                    /\ (\A q \in Requests : ~Between(req'[q])) => Current(last)'
                    /\ \A q \in Requests :
                         req'[q].op \in {"send", "erase"} /\ req'[q].at = "preview"
                           => Current(req[q].shown)'
  BY DEF Previews, Between
<1>6. \A q \in Requests : req'[q].op \in {"send", "erase"} => req'[q] = req[q]
  BY <1>5 DEF OfMessages
<1> QED BY <1>4, <1>5, <1>6, SameNewestKeeps DEF Previews

\* Every step that leaves the messages alone.
LEMMA MessagesFrame ==
    ASSUME Wiped, Unsent, UNCHANGED <<msg, stale, sent>>
    PROVE  Wiped' /\ Unsent' /\ SameNewest
BY DEF Wiped, Unsent, SameNewest, Outdated, NewestText, Newest, Visible

\* A request that begins, of none of the groups that the invariant speaks of.
LEMMA AcceptedKeeps ==
    ASSUME Inv, NEW r \in Requests, NEW x \in Request, Accept(r, x),
           UNCHANGED <<chat, msg, stale, sent, last, keys, secret, caller, ask>>
    PROVE  /\ TypeOK' /\ Wiped' /\ Unsent' /\ SameNewest
           /\ Sets(r, x)
           /\ x.op \notin {"edit", "leave"} => Group'
           /\ x.op \notin {"ask", "respond"} => Calls'
           /\ x.op \notin OfMessages => Previews'
<1>1. TypeOK' /\ Sets(r, x) BY AcceptedType DEF Inv, Sets
<1>2. Wiped' /\ Unsent' /\ SameNewest BY MessagesFrame DEF Inv
<1>3. x.op \notin {"edit", "leave"} => Group' BY <1>1, GroupFrame DEF Inv
<1>4. x.op \notin {"ask", "respond"} => Calls' BY <1>1, CallsFrame DEF Inv
<1>5. x.op \notin OfMessages => Previews'
  <2> SUFFICES ASSUME x.op \notin OfMessages PROVE Previews' OBVIOUS
  <2>1. raced' = raced BY DEF Accept, Clash, OfMessages
  <2>2. req[r].op \notin OfMessages BY DEF Accept, OfMessages
  <2> QED BY <1>1, <1>2, <2>1, <2>2, PreviewsFrame DEF Inv
<1> QED BY <1>1, <1>2, <1>3, <1>4, <1>5

-----------------------------------------------------------------------------
(* editChat, joinGroupByLink, leaveChat, deleteChat *)

\* An edit that is allowed may be made of the chat that it was decided on.
LEMMA EditDecided ==
    ASSUME Inv, NEW u \in chat.members, NEW m \in (SUBSET Users) \cup {Unchanged},
           NEW a \in AdminLists \cup {Unchanged}, EditAllowed(u, m, a),
           NEW q, q.user = u, q.members = Edited(u, m, a),
           q.admins = IF a = Unchanged THEN chat.admins ELSE a
    PROVE  /\ Authorised(q, chat)
           /\ DOMAIN q.admins \subseteq q.members
<1>1. DOMAIN chat.admins \subseteq chat.members BY DEF Inv, Group
<1>2. q.admins # chat.admins => May(u, "add_admins", chat.admins)
  BY DEF EditAllowed
<1>3. DOMAIN q.admins \subseteq q.members
  BY <1>1 DEF Edited, Known, Kept
<1>4. CASE m = Unchanged
  <2>1. Known(a) \subseteq q.members BY <1>4 DEF Edited
  <2>2. chat.members \subseteq q.members BY <2>1 DEF Known
  <2>3. q.members \ chat.members \subseteq DOMAIN q.admins
    BY <1>4 DEF Edited, Known
  <2> QED BY <1>2, <1>3, <2>2, <2>3 DEF Authorised
<1>5. CASE m # Unchanged
  <2>1. q.members \ chat.members \subseteq (m \ Known(a)) \cup DOMAIN q.admins
    BY <1>1, <1>5 DEF Edited, Known, Kept
  <2>2. m \ Known(a) # {} => May(u, "add_members", chat.admins)
    BY <1>5 DEF EditAllowed
  <2>3. chat.members \ q.members \subseteq Known(a) \ m
    BY <1>5 DEF Edited, Known
  <2>4. Known(a) \ m \subseteq {u} \/ May(u, "remove_members", chat.admins)
    BY <1>5 DEF EditAllowed
  <2>5. q.members \ chat.members \subseteq DOMAIN q.admins \/ May(u, "add_members", chat.admins)
    BY <2>1, <2>2
  <2>6. chat.members \ q.members \subseteq {u} \/ May(u, "remove_members", chat.admins)
    BY <2>3, <2>4
  <2> QED BY <1>2, <1>3, <2>5, <2>6 DEF Authorised
<1> QED BY <1>4, <1>5

LEMMA ChatType ==
    ASSUME TypeOK
    PROVE  /\ chat.members \subseteq Users /\ chat.admins \in Admins
           /\ DOMAIN chat.admins \subseteq Users
BY DEF TypeOK, Chat, Admins

LEMMA EditKeeps ==
    ASSUME Inv, NEW r \in Requests, NEW u \in Users, NEW m \in (SUBSET Users) \cup {Unchanged},
           NEW a \in AdminLists \cup {Unchanged}, Edit(r, u, m, a)
    PROVE  Inv'
<1> DEFINE after == Edited(u, m, a)
<1> DEFINE list == IF a = Unchanged THEN chat.admins ELSE a
<1> DEFINE b == Begin("edit", u, "save")
<1> DEFINE q == [b EXCEPT !.members = after, !.admins = list]
<1>1. TypeOK BY DEF Inv
<1>2. list \in Admins BY <1>1, ChatType, ConstantsAssumption
<1>3. after \in SUBSET Users
  <2>1. DOMAIN list \subseteq Users BY <1>2 DEF Admins
  <2>2. a # Unchanged => DOMAIN a \subseteq Users BY <2>1
  <2>3. Known(a) \subseteq Users /\ Kept(a) \subseteq Users
    BY <1>1, <2>2, ChatType DEF Known, Kept
  <2>4. m # Unchanged => m \subseteq Users OBVIOUS
  <2> QED BY <2>3, <2>4 DEF Edited
<1>4. b \in Request /\ b.op = "edit" /\ b.user = u
  <2>1. "edit" \in Ops /\ "save" \in Stages BY DEF Ops, Stages
  <2>2. b \in Request BY <2>1, BeginType
  <2>3. b.op = "edit" /\ b.user = u BY DEF Begin, Idle
  <2> QED BY <2>2, <2>3
<1>5. u \in chat.members /\ EditAllowed(u, m, a) BY DEF Edit, Finds
<1>6. Accept(r, q) /\ UNCHANGED <<chat, msg, stale, sent, last, keys, secret, caller, ask>>
  BY DEF Edit
<1> HIDE DEF b, after, list
<1>7. q \in Request /\ q.op = "edit" /\ q.user = u /\ q.members = after /\ q.admins = list
  BY <1>2, <1>3, <1>4 DEF Request
<1> HIDE DEF q
<1>8. Authorised(q, chat) /\ DOMAIN q.admins \subseteq q.members
  BY <1>5, <1>7, EditDecided DEF after, list
<1>9. GroupOK(q, chat) BY <1>2, <1>7, <1>8 DEF GroupOK
<1>10. /\ TypeOK' /\ Wiped' /\ Unsent' /\ Calls' /\ Previews' /\ Sets(r, q)
  BY <1>6, <1>7, AcceptedKeeps DEF OfMessages
<1>11. Group'
  <2>1. \A p \in Requests : GroupOK(req'[p], chat)
    BY <1>9, <1>10, <1>1, SetsType DEF Group, Inv
  <2> QED BY <1>6, <2>1 DEF Group, Inv
<1> QED BY <1>10, <1>11 DEF Inv

LEMMA LeaveKeeps ==
    ASSUME Inv, NEW r \in Requests, NEW u \in Users, Leave(r, u)
    PROVE  Inv'
<1> DEFINE left == [a \in DOMAIN chat.admins \ {u} |-> chat.admins[a]]
<1> DEFINE after == chat.members \ {u}
<1> DEFINE b == Begin("leave", u, "save")
<1> DEFINE q == [b EXCEPT !.members = after, !.admins = left]
<1>1. TypeOK BY DEF Inv
<1>2. left \in Admins /\ DOMAIN left \subseteq after
  <2>1. PICK S \in SUBSET Users : chat.admins \in [S -> SUBSET Permissions]
    BY <1>1, ChatType DEF Admins
  <2>2. left \in [S \ {u} -> SUBSET Permissions] /\ S \ {u} \in SUBSET Users BY <2>1
  <2>3. left \in Admins BY <2>2 DEF Admins
  <2>4. DOMAIN left \subseteq after BY DEF Inv, Group
  <2> QED BY <2>3, <2>4
<1>3. after \in SUBSET Users BY <1>1, ChatType
<1>4. b \in Request /\ b.op = "leave" /\ b.user = u
  <2>1. "leave" \in Ops /\ "save" \in Stages BY DEF Ops, Stages
  <2>2. b \in Request BY <2>1, BeginType
  <2>3. b.op = "leave" /\ b.user = u BY DEF Begin, Idle
  <2> QED BY <2>2, <2>3
<1>5. Accept(r, q) /\ UNCHANGED <<chat, msg, stale, sent, last, keys, secret, caller, ask>>
  BY DEF Leave
<1> HIDE DEF b, after, left
<1>6. q \in Request /\ q.op = "leave" /\ q.user = u /\ q.members = after /\ q.admins = left
  BY <1>2, <1>3, <1>4 DEF Request
<1> HIDE DEF q
<1>7. GroupOK(q, chat) BY <1>2, <1>6 DEF GroupOK
<1>8. /\ TypeOK' /\ Wiped' /\ Unsent' /\ Calls' /\ Previews' /\ Sets(r, q)
  BY <1>5, <1>6, AcceptedKeeps DEF OfMessages
<1>9. Group'
  <2>1. \A p \in Requests : GroupOK(req'[p], chat)
    BY <1>7, <1>8, <1>1, SetsType DEF Group, Inv
  <2> QED BY <1>5, <2>1 DEF Group, Inv
<1> QED BY <1>8, <1>9 DEF Inv

\* The three requests that store the members all raise the version: what an edit
\* still waits to store is void from then on.
LEMMA RaisingKeeps ==
    ASSUME Inv, NEW r \in Requests, req[r].op \notin OfMessages, DoneRaising(r),
           chat' \in Chat, DOMAIN chat'.admins \subseteq chat'.members, chat'.there = chat.there,
           UNCHANGED <<msg, stale, sent, last, keys, secret, caller, ask, raced>>
    PROVE  Inv'
<1>1. TypeOK /\ req \in [Requests -> Request] BY DEF Inv, TypeOK
<1>2. ASSUME NEW q \in Requests
      PROVE  /\ req'[q] \in Request
             /\ q = r => req'[q] = Idle
             /\ q # r => /\ req'[q].op = req[q].op /\ req'[q].at = req[q].at
                         /\ req'[q].shown = req[q].shown /\ req'[q].user = req[q].user
                         /\ req'[q].ask = req[q].ask /\ req'[q].members = req[q].members
                         /\ req'[q].admins = req[q].admins /\ req'[q].fresh = FALSE
  <2>1. req[q] \in Request BY <1>1
  <2>2. req'[q] = IF q = r THEN Idle ELSE [req[q] EXCEPT !.fresh = FALSE] BY DEF DoneRaising
  <2> QED BY <2>1, <2>2, IdleType, SetStale
<1>3. req' \in [Requests -> Request] BY <1>2 DEF DoneRaising
<1>4. TypeOK' BY <1>1, <1>3 DEF TypeOK
<1>5. Group'
  <2>1. ASSUME NEW q \in Requests PROVE GroupOK(req'[q], chat')
    <3>1. CASE q = r BY <3>1, <1>2, IdleType DEF GroupOK
    <3>2. CASE q # r
      <4>1. GroupOK(req[q], chat) BY DEF Inv, Group
      <4> QED BY <3>2, <4>1, <1>2 DEF GroupOK
    <3> QED BY <3>1, <3>2
  <2> QED BY <2>1 DEF Group
<1>6. Calls'
  <2>1. ASSUME NEW q \in Requests
        PROVE  req'[q].op \in {"ask", "respond"} =>
                 req'[q].op = req[q].op /\ req'[q].ask = req[q].ask /\ req'[q].user = req[q].user
    BY <1>2, IdleType
  <2> QED BY <2>1 DEF Inv, Calls, Listed
<1>7. Wiped' /\ Unsent' /\ SameNewest BY MessagesFrame DEF Inv
<1>8. Previews'
  <2>1. ASSUME NEW q \in Requests
        PROVE  /\ Between(req'[q]) <=> Between(req[q])
               /\ req'[q].op \in OfMessages =>
                    req'[q].op = req[q].op /\ req'[q].at = req[q].at /\ req'[q].shown = req[q].shown
    BY <1>2, IdleType DEF Between, OfMessages
  <2>2. \A q \in Requests : req'[q].op \in {"send", "erase"} => req'[q].op \in OfMessages
    BY DEF OfMessages
  <2> QED BY <2>1, <2>2, <1>7, SameNewestKeeps DEF Inv, Previews
<1> QED BY <1>4, <1>5, <1>6, <1>7, <1>8 DEF Inv

\* A request that ends, or fails, without storing anything of the groups.
LEMMA DoneKeeps ==
    ASSUME Inv, NEW r \in Requests, Done(r), req[r].op \notin OfMessages,
           UNCHANGED <<chat, msg, stale, sent, last, keys, secret, caller, ask, raced>>
    PROVE  Inv'
<1>1. Sets(r, Idle) BY IdleType DEF Done, Sets
<1>2. TypeOK' BY <1>1, SetsType DEF Inv, TypeOK
<1>3. Wiped' /\ Unsent' /\ SameNewest BY MessagesFrame DEF Inv
<1>4. Group' /\ Calls' BY <1>1, IdleType, GroupFrame, CallsFrame DEF Inv
<1>5. Previews' BY <1>1, <1>3, IdleType, PreviewsFrame DEF Inv, OfMessages
<1> QED BY <1>2, <1>3, <1>4, <1>5 DEF Inv

LEMMA StoreMembersKeeps ==
    ASSUME Inv, NEW r \in Requests, EditSave(r) \/ LeaveSave(r) \/ JoinSave(r)
    PROVE  Inv'
<1>1. TypeOK /\ req[r] \in Request /\ chat \in Chat BY DEF Inv, TypeOK
<1>2. req[r].op \in {"edit", "leave", "join"} BY DEF EditSave, LeaveSave, JoinSave, At
<1>3. req[r].op \notin OfMessages BY <1>2 DEF OfMessages
<1>4. UNCHANGED <<msg, stale, sent, last, keys, secret, caller, ask, raced>>
  BY DEF EditSave, LeaveSave, JoinSave
<1>5. CASE Done(r) /\ UNCHANGED chat
  BY <1>3, <1>4, <1>5, DoneKeeps
<1>6. CASE /\ EditSave(r) \/ LeaveSave(r)
           /\ chat' = [chat EXCEPT !.members = req[r].members, !.admins = req[r].admins]
           /\ DoneRaising(r)
  <2>1. req[r].op \in {"edit", "leave"} BY <1>6 DEF EditSave, LeaveSave, At
  <2>2. /\ req[r].admins \in Admins /\ DOMAIN req[r].admins \subseteq req[r].members
        /\ req[r].members \in SUBSET Users
    BY <1>1, <2>1 DEF Inv, Group, GroupOK, Request
  <2>3. /\ chat' \in Chat /\ chat'.members = req[r].members /\ chat'.admins = req[r].admins
        /\ chat'.there = chat.there
    BY <1>1, <1>6, <2>2 DEF Chat
  <2> QED BY <1>3, <1>4, <1>6, <2>2, <2>3, RaisingKeeps
<1>7. CASE JoinSave(r) /\ chat' = [chat EXCEPT !.members = @ \cup {req[r].user}] /\ DoneRaising(r)
  <2>1. req[r].user \in Users BY <1>1 DEF Request
  <2>2. /\ chat' \in Chat /\ chat'.members = chat.members \cup {req[r].user}
        /\ chat'.admins = chat.admins /\ chat'.there = chat.there
    BY <1>1, <1>7, <2>1 DEF Chat
  <2>3. DOMAIN chat'.admins \subseteq chat'.members BY <2>2 DEF Inv, Group
  <2> QED BY <1>3, <1>4, <1>7, <2>2, <2>3, RaisingKeeps
<1> QED BY <1>5, <1>6, <1>7 DEF EditSave, LeaveSave, JoinSave

\* A request begins that the invariant says nothing of.
LEMMA PlainBegins ==
    ASSUME Inv, NEW r \in Requests, NEW x \in Request, Accept(r, x),
           x.op \in {"join", "rewrite", "register", "disable", "start", "end"},
           UNCHANGED <<chat, msg, stale, sent, last, keys, secret, caller, ask>>
    PROVE  Inv'
BY AcceptedKeeps DEF Inv, OfMessages

\* A request goes on, or ends, that the invariant says nothing of.
LEMMA PlainKeeps ==
    ASSUME Inv, NEW r \in Requests, NEW x \in Request, req' = [req EXCEPT ![r] = x],
           req[r].op \notin OfMessages,
           x.op \notin {"edit", "leave", "ask", "respond"} \cup OfMessages,
           keys' \subseteq Users, secret' \in BOOLEAN,
           UNCHANGED <<chat, msg, stale, sent, last, caller, ask, raced>>
    PROVE  Inv'
<1>1. Sets(r, x) BY DEF Sets
<1>2. TypeOK' BY <1>1, SetsType DEF Inv, TypeOK
<1>3. Wiped' /\ Unsent' /\ SameNewest BY MessagesFrame DEF Inv
<1>4. Group' /\ Calls' BY <1>1, GroupFrame, CallsFrame DEF Inv
<1>5. Previews' BY <1>1, <1>3, PreviewsFrame DEF Inv
<1> QED BY <1>2, <1>3, <1>4, <1>5 DEF Inv

LEMMA JoinKeeps ==
    ASSUME Inv, NEW r \in Requests, NEW u \in Users, Join(r, u) \/ StartCall(r, u) \/ EndCall(r, u)
    PROVE  Inv'
<1>1. ASSUME NEW op \in {"join", "start", "end"}, Accept(r, Begin(op, u, "save")),
             UNCHANGED <<chat, msg, stale, sent, last, keys, secret, caller, ask>>
      PROVE  Inv'
  <2>1. op \in Ops /\ "save" \in Stages BY DEF Ops, Stages
  <2>2. Begin(op, u, "save") \in Request BY <2>1, BeginType
  <2>3. Begin(op, u, "save").op = op BY DEF Begin, Idle
  <2> QED BY <1>1, <2>2, <2>3, PlainBegins
<1> QED BY <1>1 DEF Join, StartCall, EndCall

LEMMA KeysBegin ==
    ASSUME Inv, NEW r \in Requests, NEW u \in Users, Register(r, u) \/ Disable(r, u)
    PROVE  Inv'
<1> DEFINE b(op) == Begin(op, u, "save")
<1> DEFINE x == [b("register") EXCEPT !.keys = keys \cup {u}, !.secret = secret]
<1> DEFINE y == [b("disable") EXCEPT !.secret = secret]
<1>1. "register" \in Ops /\ "disable" \in Ops /\ "save" \in Stages BY DEF Ops, Stages
<1>2. b("register") \in Request /\ b("disable") \in Request BY <1>1, BeginType
<1>3. b("register").op = "register" /\ b("disable").op = "disable" BY DEF Begin, Idle
<1>4. keys \cup {u} \subseteq Users /\ secret \in BOOLEAN BY DEF Inv, TypeOK
<1>5. /\ Accept(r, x) \/ Accept(r, y)
      /\ UNCHANGED <<chat, msg, stale, sent, last, keys, secret, caller, ask>>
  BY DEF Register, Disable
<1> HIDE DEF b
<1>6. x \in Request /\ x.op = "register" BY <1>2, <1>3, <1>4 DEF Request
<1>7. y \in Request /\ y.op = "disable" BY <1>2, <1>3, <1>4 DEF Request
<1> HIDE DEF x, y
<1> QED BY <1>5, <1>6, <1>7, PlainBegins

LEMMA KeysKeep ==
    ASSUME Inv, NEW r \in Requests, RegisterSave(r) \/ DisableSave(r)
    PROVE  Inv'
<1>1. TypeOK /\ req[r] \in Request BY DEF Inv, TypeOK
<1>2. req[r].op \notin OfMessages BY DEF RegisterSave, DisableSave, At, OfMessages
<1>3. keys' \subseteq Users /\ secret' \in BOOLEAN
  BY <1>1 DEF RegisterSave, DisableSave, TypeOK, Request
<1>4. req' = [req EXCEPT ![r] = Idle] /\ UNCHANGED <<chat, msg, stale, sent, last, caller, ask, raced>>
  BY DEF RegisterSave, DisableSave, Done
<1> QED BY <1>2, <1>3, <1>4, IdleType, PlainKeeps DEF OfMessages

-----------------------------------------------------------------------------
(* The newest message *)

LEMMA NatNewest ==
    ASSUME NEW N \in Nat, NEW S \in SUBSET (1 .. N), S # {}
    PROVE  \E x \in S : \A y \in S : y <= x
<1> DEFINE R == OpToRel(<, Nat)
<1> DEFINE T == {N - x : x \in S}
<1>1. IsWellFoundedOn(R, Nat) BY NatLessThanWellFounded
<1>2. \A x, y \in Nat : <<x, y>> \notin R => ~(x < y) BY Zenon DEF OpToRel
<1>3. S \subseteq Nat /\ \A x \in S : N - x \in Nat OBVIOUS
<1>4. T \in SUBSET Nat /\ T # {} BY <1>3
<1> HIDE DEF R
<1>5. PICK t \in T : \A y \in T : <<y, t>> \notin R BY <1>1, <1>4, WFMin
<1>6. PICK x \in S : t = N - x BY <1>5
<1>7. \A y \in S : ~(N - y < N - x)
  <2> SUFFICES ASSUME NEW y \in S PROVE ~(N - y < N - x) OBVIOUS
  <2>1. N - y \in T /\ N - y \in Nat /\ t \in Nat BY <1>3, <1>4
  <2>2. <<N - y, t>> \notin R BY <1>5, <2>1
  <2>3. ~(N - y < t) BY <1>2, <2>1, <2>2
  <2> QED BY <1>6, <2>3
<1>8. \A y \in S : y <= x BY <1>3, <1>7
<1> QED BY <1>6, <1>8

LEMMA NewestType ==
    ASSUME TypeOK
    PROVE  Newest \in 0 .. MaxMessages /\ NewestText \in Text
<1>1. MaxMessages \in Nat /\ Visible \in SUBSET (1 .. MaxMessages)
  BY ConstantsAssumption DEF Visible, Numbers
<1>2. Newest \in {0} \cup Visible
  <2>1. CASE Visible = {} BY <2>1 DEF Newest
  <2>2. CASE Visible # {}
    <3>1. \E x \in Visible : \A y \in Visible : y <= x BY <1>1, <2>2, NatNewest
    <3> QED BY <2>2, <3>1 DEF Newest
  <2> QED BY <2>1, <2>2
<1>3. Newest # 0 => msg[Newest].edits \in 0 .. MaxEdits
  BY <1>1, <1>2 DEF TypeOK, Message, Numbers
<1>4. Newest \in 0 .. MaxMessages BY <1>1, <1>2
<1>5. NoText \in Text BY ConstantsAssumption DEF NoText, Text
<1> QED BY <1>3, <1>4, <1>5 DEF NewestText, Text

LEMMA NewestIs ==
    ASSUME NEW S \in SUBSET Nat, NEW k \in S, \A m \in S : m <= k
    PROVE  (CHOOSE n \in S : \A m \in S : m <= n) = k
<1>1. \A n \in S : (\A m \in S : m <= n) => n = k
  <2> SUFFICES ASSUME NEW n \in S, \A m \in S : m <= n PROVE n = k OBVIOUS
  <2>1. k <= n /\ n <= k /\ k \in Nat /\ n \in Nat OBVIOUS
  <2> QED BY <2>1
<1> QED BY <1>1

-----------------------------------------------------------------------------
(* Sending and deleting *)

\* A request about the messages begins: if another one is under way, the preview is
\* not to be relied on any more.
LEMMA MessageBegins ==
    ASSUME Inv, NEW r \in Requests, NEW x \in Request, Accept(r, x), x.op \in OfMessages,
           ~Between(x), UNCHANGED <<chat, msg, stale, sent, last, keys, secret, caller, ask>>
    PROVE  Inv'
<1>1. /\ TypeOK' /\ Wiped' /\ Unsent' /\ SameNewest /\ Sets(r, x) /\ Group' /\ Calls'
  BY AcceptedKeeps DEF OfMessages
<1>2. Previews'
  <2> SUFFICES ASSUME chat.there, "messages" \notin raced' PROVE Previews' BY DEF Previews
  <2>1. "messages" \notin raced /\ ~Busy(OfMessages)
    BY DEF Accept, Clash, Topics, OfMessages
  <2>2. \A q \in Requests : req[q].op \notin OfMessages BY <2>1 DEF Busy
  <2>3. \A q \in Requests : ~Between(req[q]) BY <2>2 DEF Between, OfMessages
  <2>4. Current(last) BY <2>1, <2>3 DEF Inv, Previews
  <2>5. req'[r] = x /\ \A q \in Requests \ {r} : req'[q] = req[q] BY <1>1, SetsType DEF Inv
  <2>6. \A q \in Requests : req'[q].op \in OfMessages => q = r BY <2>2, <2>5
  <2>7. Current(last)' BY <1>1, <2>4, SameNewestKeeps
  <2>8. ~(x.op \in {"send", "erase"} /\ x.at = "preview") BY DEF Between
  <2>9. \A q \in Requests : ~(req'[q].op \in {"send", "erase"} /\ req'[q].at = "preview")
    BY <2>5, <2>6, <2>8 DEF OfMessages
  <2> QED BY <2>6, <2>7, <2>9 DEF Previews
<1> QED BY <1>1, <1>2 DEF Inv

\* The preview is settled when the only request of its kind stands before its change.
LEMMA Settled ==
    ASSUME Inv, NEW r \in Requests, req[r].op \in OfMessages, ~Between(req[r]),
           chat.there, "messages" \notin raced
    PROVE  Current(last)
<1>1. \A q \in Requests : Between(req[q]) => req[q].op \in OfMessages BY DEF Between, OfMessages
<1> QED BY <1>1 DEF Inv, Previews

\* A step of the only such request: where it stands afterwards decides.
LEMMA MessageStep ==
    ASSUME Inv, NEW r, NEW x, Sets(r, x), req[r].op \in OfMessages, x.op \in OfMessages \cup {"idle"},
           chat'.there => chat.there, raced \subseteq raced',
           chat'.there /\ "messages" \notin raced' =>
             /\ ~Between(x) => Current(last)'
             /\ x.op \in {"send", "erase"} /\ x.at = "preview" => Current(x.shown)'
    PROVE  Previews'
<1>1. r \in Requests BY DEF Sets
<1>2. req'[r] = x /\ \A q \in Requests \ {r} : req'[q] = req[q] BY SetsType DEF Inv
<1> SUFFICES ASSUME chat'.there, "messages" \notin raced' PROVE Previews' BY DEF Previews
<1>3. chat.there /\ "messages" \notin raced OBVIOUS
<1>4. \A q \in Requests \ {r} : req[q].op \notin OfMessages BY <1>1, <1>3 DEF Inv, Previews
<1>5. \A q \in Requests : req'[q].op \in OfMessages => q = r BY <1>2, <1>4
<1>6. (\A q \in Requests : ~Between(req'[q])) => Current(last)' BY <1>1, <1>2
<1>7. ASSUME NEW q \in Requests, req'[q].op \in {"send", "erase"}, req'[q].at = "preview"
      PROVE  Current(req[q].shown)'
  <2>1. q = r BY <1>5, <1>7 DEF OfMessages
  <2> QED BY <1>2, <1>7, <2>1
<1> QED BY <1>5, <1>6, <1>7 DEF Previews

\* The groups of fields that such a request does not touch.
LEMMA MessageFrame ==
    ASSUME Inv, NEW r \in Requests, NEW x \in Request, req' = [req EXCEPT ![r] = x],
           x.op \in OfMessages \cup {"idle"},
           chat'.members = chat.members, chat'.admins = chat.admins, chat' \in Chat,
           msg' \in [Numbers -> Message], sent' \in 0 .. MaxMessages, last' \in Text,
           stale' \subseteq 0 .. MaxMessages, raced' \subseteq Topics, UNCHANGED <<keys, secret, caller, ask>>
    PROVE  Sets(r, x) /\ TypeOK' /\ Group' /\ Calls'
<1>1. Sets(r, x) BY DEF Sets
<1>2. TypeOK' BY <1>1, SetsType DEF Inv, TypeOK
<1>3. Group' /\ Calls' BY <1>1, GroupFrame, CallsFrame DEF Inv, OfMessages
<1> QED BY <1>1, <1>2, <1>3

LEMMA MessagesBegin ==
    ASSUME Inv, NEW r \in Requests, NEW u \in Users, Send(r, u) \/ Remove(r, u)
    PROVE  Inv'
<1>1. ASSUME NEW op \in {"send", "remove"}, NEW at \in {"create", "save"},
             Accept(r, Begin(op, u, at)),
             UNCHANGED <<chat, msg, stale, sent, last, keys, secret, caller, ask>>
      PROVE  Inv'
  <2>1. op \in Ops /\ at \in Stages BY DEF Ops, Stages
  <2>2. Begin(op, u, at) \in Request BY <2>1, BeginType
  <2>3. Begin(op, u, at).op = op /\ Begin(op, u, at).at = at BY DEF Begin, Idle
  <2>4. op \in OfMessages /\ ~Between(Begin(op, u, at)) BY <2>3 DEF OfMessages, Between
  <2> QED BY <1>1, <2>2, <2>3, <2>4, MessageBegins
<1> QED BY <1>1 DEF Send, Remove

LEMMA EraseBegins ==
    ASSUME Inv, NEW r \in Requests, NEW u \in Users, NEW n \in Numbers, Erase(r, u, n)
    PROVE  Inv'
<1> DEFINE at == IF u = msg[n].sender THEN "save" ELSE "chat"
<1> DEFINE b == Begin("erase", u, at)
<1> DEFINE x == [b EXCEPT !.n = n, !.yes = msg[n].text]
<1>1. "erase" \in Ops /\ at \in Stages /\ at \in {"save", "chat"} BY DEF Ops, Stages
<1>2. b \in Request BY <1>1, BeginType
<1>3. b.op = "erase" /\ b.at = at BY DEF Begin, Idle
<1>4. msg[n].text \in BOOLEAN /\ n \in 0 .. MaxMessages
  BY ConstantsAssumption DEF Inv, TypeOK, Message, Numbers
<1>5. Accept(r, x) /\ UNCHANGED <<chat, msg, stale, sent, last, keys, secret, caller, ask>> BY DEF Erase
<1> HIDE DEF at, b
<1>6. x \in Request /\ x.op = "erase" /\ x.at = at BY <1>2, <1>3, <1>4 DEF Request
<1> HIDE DEF x
<1>7. x.op \in OfMessages /\ ~Between(x) BY <1>1, <1>6 DEF OfMessages, Between
<1> QED BY <1>5, <1>6, <1>7, MessageBegins

LEMMA RewriteBegins ==
    ASSUME Inv, NEW r \in Requests, NEW u \in Users, NEW n \in Numbers, Rewrite(r, u, n)
    PROVE  Inv'
<1> DEFINE b == Begin("rewrite", u, "chat")
<1> DEFINE x == [b EXCEPT !.n = n]
<1>1. "rewrite" \in Ops /\ "chat" \in Stages BY DEF Ops, Stages
<1>2. b \in Request BY <1>1, BeginType
<1>3. b.op = "rewrite" BY DEF Begin, Idle
<1>4. n \in 0 .. MaxMessages BY ConstantsAssumption DEF Numbers
<1>5. Accept(r, x) /\ UNCHANGED <<chat, msg, stale, sent, last, keys, secret, caller, ask>> BY DEF Rewrite
<1> HIDE DEF b
<1>6. x \in Request /\ x.op = "rewrite" BY <1>2, <1>3, <1>4 DEF Request
<1> HIDE DEF x
<1> QED BY <1>5, <1>6, PlainBegins

\* A request that goes on to another stage.
LEMMA StagedType ==
    ASSUME NEW q \in Request, NEW at \in Stages
    PROVE  [q EXCEPT !.at = at] \in Request
BY DEF Request

LEMMA StagedFields ==
    ASSUME NEW q \in Request, NEW at
    PROVE  /\ [q EXCEPT !.at = at].op = q.op
           /\ [q EXCEPT !.at = at].at = at
BY DEF Request

LEMMA GotoKeeps ==
    ASSUME Inv, NEW r \in Requests, NEW at \in Stages, Goto(r, at)
    PROVE  \E x \in Request : /\ req' = [req EXCEPT ![r] = x]
                              /\ x.op = req[r].op /\ x.at = at
<1> DEFINE x == [req[r] EXCEPT !.at = at]
<1>1. req[r] \in Request BY DEF Inv, TypeOK
<1>2. x \in Request BY <1>1, StagedType
<1>3. x.op = req[r].op /\ x.at = at BY <1>1, StagedFields
<1>4. req' = [req EXCEPT ![r] = x] BY <1>1 DEF Goto, Inv, TypeOK
<1> QED BY <1>2, <1>3, <1>4

LEMMA RewriteKeeps ==
    ASSUME Inv, NEW r \in Requests, RewriteChecked(r)
    PROVE  Inv'
<1>1. /\ req[r].op = "rewrite" /\ keys' \subseteq Users /\ secret' \in BOOLEAN
      /\ UNCHANGED <<chat, msg, stale, sent, last, caller, ask, raced>>
  BY DEF RewriteChecked, At, Inv, TypeOK
<1>2. CASE Goto(r, "save")
  <2>1. PICK x \in Request : req' = [req EXCEPT ![r] = x] /\ x.op = req[r].op
    BY <1>2, GotoKeeps DEF Stages
  <2> QED BY <1>1, <2>1, PlainKeeps DEF OfMessages
<1>3. CASE Done(r) BY <1>1, <1>3, IdleType, PlainKeeps DEF OfMessages, Done
<1> QED BY <1>2, <1>3 DEF RewriteChecked

LEMMA RewriteStores ==
    ASSUME Inv, NEW r \in Requests, RewriteSave(r)
    PROVE  Inv'
<1> DEFINE k == req[r].n
<1>1. TypeOK /\ req[r].op = "rewrite" BY DEF RewriteSave, At, Inv
<1>2. /\ msg' \in [Numbers -> Message]
      /\ \A n \in Numbers : /\ msg'[n].there = msg[n].there /\ msg'[n].deleted = msg[n].deleted
                            /\ msg'[n].encrypted = msg[n].encrypted
  <2>1. \/ UNCHANGED msg
        \/ msg[k].edits < MaxEdits /\ msg' = [msg EXCEPT ![k] = [msg[k] EXCEPT !.text = TRUE, !.edits = @ + 1]]
    BY DEF RewriteSave
  <2>2. msg \in [Numbers -> Message] /\ MaxEdits \in Nat BY <1>1, ConstantsAssumption DEF TypeOK
  <2> HIDE DEF k
  <2>3. CASE UNCHANGED msg BY <2>2, <2>3
  <2>4. ASSUME msg[k].edits < MaxEdits,
               msg' = [msg EXCEPT ![k] = [msg[k] EXCEPT !.text = TRUE, !.edits = @ + 1]]
        PROVE  /\ msg' \in [Numbers -> Message]
               /\ \A n \in Numbers : /\ msg'[n].there = msg[n].there /\ msg'[n].deleted = msg[n].deleted
                                     /\ msg'[n].encrypted = msg[n].encrypted
    <3> DEFINE w == [msg[k] EXCEPT !.text = TRUE, !.edits = @ + 1]
    <3>1. ASSUME k \in Numbers
          PROVE  /\ w \in Message /\ w.there = msg[k].there /\ w.deleted = msg[k].deleted
                 /\ w.encrypted = msg[k].encrypted
      <4>1. msg[k] \in Message BY <2>2, <3>1
      <4>2. msg[k].edits + 1 \in 0 .. MaxEdits BY <2>2, <2>4, <4>1 DEF Message
      <4> QED BY <4>1, <4>2 DEF Message
    <3>2. msg' = [msg EXCEPT ![k] = w] BY <2>4
    <3> HIDE DEF w
    <3> QED BY <2>2, <3>1, <3>2
  <2> QED BY <2>1, <2>3, <2>4
<1>3. /\ Done(r) /\ UNCHANGED <<chat, sent, last, keys, secret, caller, ask, raced>>
      /\ stale' \in {stale, stale \cup {k}} /\ \A n \in Numbers \ {k} : msg'[n] = msg[n]
      /\ stale' = stale => msg' = msg \/ k \in stale
  <2>1. msg \in [Numbers -> Message] BY <1>1 DEF TypeOK
  <2> QED BY <2>1 DEF RewriteSave
<1>4. Sets(r, Idle) BY <1>3, IdleType DEF Done, Sets
<1>5. TypeOK'
  <2>1. k \in 0 .. MaxMessages BY <1>1 DEF TypeOK, Request
  <2>2. stale' \subseteq 0 .. MaxMessages BY <1>1, <1>3, <2>1 DEF TypeOK
  <2> HIDE DEF k
  <2> QED BY <1>1, <1>2, <1>3, <1>4, <2>2, SetsType DEF TypeOK
<1>6. Group' /\ Calls' BY <1>3, <1>4, IdleType, GroupFrame, CallsFrame DEF Inv
<1>7. Wiped' /\ Unsent'
  <2>1. k \notin Numbers \/ msg[k].there \/ UNCHANGED msg BY DEF RewriteSave
  <2>2. \A n \in Numbers : n > sent => msg'[n].edits = msg[n].edits
    BY <1>3, <2>1 DEF Inv, Unsent
  <2> QED BY <1>2, <1>3, <2>2 DEF Inv, Wiped, Unsent
<1>8. Visible' = Visible BY <1>2 DEF Visible
<1>9. SameNewest
  <2>1. Newest' = Newest BY <1>8 DEF Newest
  <2> QED BY <1>1, <1>3, <2>1, NewestType DEF SameNewest, Outdated, NewestText, Numbers
<1>10. Previews' BY <1>1, <1>3, <1>4, <1>9, IdleType, PreviewsFrame DEF Inv, OfMessages
<1> QED BY <1>5, <1>6, <1>7, <1>10 DEF Inv

LEMMA RemoveKeeps ==
    ASSUME Inv, NEW r \in Requests, RemoveMessages(r) \/ RemoveChat(r)
    PROVE  Inv'
<1>1. TypeOK /\ req[r].op = "remove" /\ chat \in Chat
  BY DEF RemoveMessages, RemoveChat, At, Inv, TypeOK
<1>2. CASE RemoveMessages(r)
  <2>1. PICK x \in Request : req' = [req EXCEPT ![r] = x] /\ x.op = "remove" /\ x.at = "drop"
    BY <1>1, <1>2, GotoKeeps DEF RemoveMessages, Stages
  <2>2. /\ msg' \in [Numbers -> Message]
        /\ \A n \in Numbers : /\ msg'[n].there = FALSE /\ msg'[n].deleted = msg[n].deleted
                              /\ msg'[n].encrypted = msg[n].encrypted
                              /\ msg'[n].edits = msg[n].edits
    <3>1. msg \in [Numbers -> Message] BY <1>1 DEF TypeOK
    <3>2. msg' = [n \in Numbers |-> [msg[n] EXCEPT !.there = FALSE]] BY <1>2 DEF RemoveMessages
    <3> QED BY <3>1, <3>2 DEF Message
  <2>3. UNCHANGED <<chat, sent, last, keys, secret, caller, ask, stale, raced>> BY <1>2 DEF RemoveMessages
  <2>4. Sets(r, x) /\ TypeOK' /\ Group' /\ Calls'
    BY <1>1, <2>1, <2>2, <2>3, MessageFrame DEF OfMessages, TypeOK
  <2>5. Wiped' /\ Unsent' BY <2>2, <2>3 DEF Inv, Wiped, Unsent
  <2>6. Between(x) BY <2>1 DEF Between
  <2>7. Previews' BY <1>1, <2>1, <2>3, <2>4, <2>6, MessageStep DEF OfMessages
  <2> QED BY <2>4, <2>5, <2>7 DEF Inv
<1>3. CASE RemoveChat(r)
  <2>1. req' = [req EXCEPT ![r] = Idle] /\ UNCHANGED <<msg, stale, sent, last, keys, secret, caller, ask, raced>>
    BY <1>3 DEF RemoveChat, Done
  <2>2. /\ chat' \in Chat /\ chat'.members = chat.members /\ chat'.admins = chat.admins
        /\ chat'.there = FALSE
    BY <1>1, <1>3 DEF RemoveChat, Chat
  <2>3. Sets(r, Idle) /\ TypeOK' /\ Group' /\ Calls'
    BY <1>1, <2>1, <2>2, IdleType, MessageFrame DEF TypeOK
  <2>4. Wiped' /\ Unsent' BY <2>1, MessagesFrame DEF Inv
  <2>5. Previews' BY <2>2 DEF Previews
  <2> QED BY <2>3, <2>4, <2>5 DEF Inv
<1> QED BY <1>2, <1>3

LEMMA SendKeeps ==
    ASSUME Inv, NEW r \in Requests, SendCreate(r)
    PROVE  Inv'
<1> DEFINE k == sent + 1
<1> DEFINE q == req[r]
<1> DEFINE y == [q EXCEPT !.at = "preview"]
<1> DEFINE t == [n |-> k, edits |-> 0]
<1> DEFINE x == [y EXCEPT !.shown = t]
<1>1. TypeOK /\ q \in Request /\ q.op = "send" /\ chat \in Chat /\ sent \in 0 .. MaxMessages
      /\ msg \in [Numbers -> Message] /\ req \in [Requests -> Request]
  BY DEF SendCreate, At, Inv, TypeOK
<1>2. sent < MaxMessages /\ MaxMessages \in Nat BY ConstantsAssumption DEF SendCreate
<1>3. k \in Numbers /\ k \in 0 .. MaxMessages /\ sent' = k /\ k > sent /\ k \in Nat
  BY <1>1, <1>2 DEF SendCreate, Numbers
<1>4. x \in Request /\ x.op = "send" /\ x.at = "preview" /\ x.shown = t
  <2>1. y \in Request BY <1>1, StagedType DEF Stages
  <2>2. y.op = "send" /\ y.at = "preview" BY <1>1, StagedFields
  <2>3. t \in Text BY <1>3, ConstantsAssumption DEF Text
  <2> HIDE DEF y, k, t
  <2> QED BY <2>1, <2>2, <2>3 DEF Request
<1>5. req' = [req EXCEPT ![r] = x] BY <1>1 DEF SendCreate
<1>6. UNCHANGED <<chat, last, keys, secret, caller, ask, stale, raced>> BY DEF SendCreate
<1>7. /\ msg' \in [Numbers -> Message] /\ msg'[k].there = TRUE
      /\ \A n \in Numbers : /\ msg'[n].deleted = msg[n].deleted
                            /\ msg'[n].encrypted = msg[n].encrypted
                            /\ msg'[n].edits = msg[n].edits
                            /\ n # k => msg'[n].there = msg[n].there
  <2>1. q.user \in Users BY <1>1 DEF Request
  <2> DEFINE m == [msg EXCEPT ![k].there = TRUE]
  <2>2. msg' = [m EXCEPT ![k].sender = q.user] BY DEF SendCreate
  <2>3. /\ m \in [Numbers -> Message] /\ m[k].there = TRUE
        /\ \A n \in Numbers : /\ m[n].deleted = msg[n].deleted
                              /\ m[n].encrypted = msg[n].encrypted
                              /\ m[n].edits = msg[n].edits
                              /\ n # k => m[n].there = msg[n].there
    BY <1>1, <1>3 DEF Message
  <2> HIDE DEF m, k, q
  <2> QED BY <1>3, <2>1, <2>2, <2>3 DEF Message
<1>20. t.n = k /\ t = [n |-> k, edits |-> 0] OBVIOUS
<1> HIDE DEF t, x, y, k, q
<1>8. Sets(r, x) /\ TypeOK' /\ Group' /\ Calls'
  BY <1>1, <1>3, <1>4, <1>5, <1>6, <1>7, MessageFrame DEF OfMessages, TypeOK
<1>9. \A n \in Numbers : n > k => n > sent /\ n # k
  BY <1>1, <1>2, <1>3 DEF Numbers
<1>10. Wiped' /\ Unsent' BY <1>3, <1>7, <1>9 DEF Inv, Wiped, Unsent
<1>11. Newest' = k
  <2>1. k \in Visible' BY <1>3, <1>7 DEF Inv, Unsent, Visible
  <2>2. \A n \in Numbers : n \in Visible' /\ n # k => n <= sent
    BY <1>1, <1>7 DEF Inv, Unsent, Visible, Numbers
  <2>3. \A n \in Visible' : n \in Numbers BY DEF Visible
  <2>4. \A n \in Visible' : n <= k
    <3> TAKE n \in Visible'
    <3>1. CASE n = k BY <1>3, <3>1
    <3>2. CASE n # k
      <4>1. n <= sent /\ n \in Nat BY <2>2, <2>3, <3>2 DEF Numbers
      <4> QED BY <1>1, <1>3, <4>1
    <3> QED BY <3>1, <3>2
  <2>5. Visible' \in SUBSET Nat BY DEF Visible, Numbers
  <2>6. (CHOOSE n \in Visible' : \A m \in Visible' : m <= n) = k BY <2>1, <2>4, <2>5, NewestIs
  <2> QED BY <2>1, <2>6 DEF Newest
<1>12. Previews'
  <2>1. msg'[k].edits = 0 /\ k # 0 BY <1>1, <1>3, <1>7 DEF Inv, Unsent
  <2>2. NewestText' = t BY <1>20, <1>11, <2>1 DEF NewestText
  <2>3. PICK z \in Request : z = x BY <1>4
  <2>4. z.op = "send" /\ z.at = "preview" /\ z.shown = t /\ Sets(r, z) BY <1>4, <1>8, <2>3
  <2>5. Current(z.shown)' BY <1>20, <1>11, <2>2, <2>4 DEF Current
  <2>6. Between(z) BY <2>4 DEF Between
  <2>7. req[r].op \in OfMessages BY <1>1 DEF OfMessages, q
  <2> QED BY <1>6, <2>4, <2>5, <2>6, <2>7, MessageStep DEF OfMessages
<1> QED BY <1>8, <1>10, <1>12 DEF Inv

LEMMA PreviewKeeps ==
    ASSUME Inv, NEW r \in Requests, Preview(r)
    PROVE  Inv'
<1>1. /\ TypeOK /\ req[r] \in Request /\ req[r].shown \in Text
      /\ req[r].op \in {"send", "erase"} /\ req[r].at = "preview"
  BY DEF Preview, Inv, TypeOK, Request
<1>2. /\ req' = [req EXCEPT ![r] = Idle] /\ last' = IF chat.there THEN req[r].shown ELSE last
      /\ UNCHANGED <<chat, msg, stale, sent, keys, secret, caller, ask, raced>>
  BY DEF Preview, Done
<1>3. Sets(r, Idle) /\ TypeOK' /\ Group' /\ Calls'
  <2>1. last' \in Text BY <1>1, <1>2 DEF TypeOK
  <2> QED BY <1>1, <1>2, <2>1, IdleType, MessageFrame DEF TypeOK
<1>4. Wiped' /\ Unsent' /\ SameNewest BY <1>2, MessagesFrame DEF Inv
<1>5. chat.there /\ "messages" \notin raced => Current(req[r].shown)
  BY <1>1 DEF Inv, Previews
<1>6. chat.there /\ "messages" \notin raced => Current(last)' BY <1>2, <1>4, <1>5, SameNewestKeeps
<1>7. Previews' BY <1>1, <1>2, <1>3, <1>6, IdleType, MessageStep DEF OfMessages
<1> QED BY <1>3, <1>4, <1>7 DEF Inv

\* A deletion that ends, or goes on, before it has changed the message
LEMMA EraseFrame ==
    ASSUME Inv, NEW r \in Requests, NEW x \in Request, req' = [req EXCEPT ![r] = x],
           req[r].op \in OfMessages, x.op \in OfMessages \cup {"idle"},
           ~Between(req[r]), ~Between(x),
           UNCHANGED <<chat, msg, stale, sent, last, keys, secret, caller, ask, raced>>
    PROVE  Inv'
<1>1. Sets(r, x) /\ TypeOK' /\ Group' /\ Calls' BY MessageFrame DEF Inv, TypeOK
<1>2. Wiped' /\ Unsent' /\ SameNewest BY MessagesFrame DEF Inv
<1>3. chat.there /\ "messages" \notin raced => Current(last) BY Settled
<1>4. ~(x.op \in {"send", "erase"} /\ x.at = "preview") BY DEF Between
<1>5. chat.there /\ "messages" \notin raced => Current(last)' BY <1>2, <1>3, SameNewestKeeps
<1>6. Previews' BY <1>1, <1>4, <1>5, MessageStep
<1> QED BY <1>1, <1>2, <1>6 DEF Inv

LEMMA EraseKeeps ==
    ASSUME Inv, NEW r \in Requests, EraseChecked(r)
    PROVE  Inv'
<1>1. /\ req[r].op = "erase" /\ req[r].at = "chat"
      /\ UNCHANGED <<chat, msg, stale, sent, last, keys, secret, caller, ask, raced>>
  BY DEF EraseChecked, At
<1>2. req[r].op \in OfMessages /\ ~Between(req[r]) BY <1>1 DEF OfMessages, Between
<1>3. CASE Goto(r, "save")
  <2>1. PICK x \in Request : req' = [req EXCEPT ![r] = x] /\ x.op = req[r].op /\ x.at = "save"
    BY <1>3, GotoKeeps DEF Stages
  <2>2. ~Between(x) BY <1>1, <2>1 DEF Between
  <2> QED BY <1>1, <1>2, <2>1, <2>2, EraseFrame
<1>4. CASE Done(r)
  <2>1. ~Between(Idle) BY IdleType DEF Between
  <2> QED BY <1>1, <1>2, <1>4, <2>1, IdleType, EraseFrame DEF Done
<1> QED BY <1>3, <1>4 DEF EraseChecked

LEMMA EraseStores ==
    ASSUME Inv, NEW r \in Requests, EraseSave(r)
    PROVE  Inv'
<1> DEFINE k == req[r].n
<1> DEFINE w == [msg[k] EXCEPT !.deleted = TRUE, !.encrypted = FALSE, !.text = msg[k].text /\ ~req[r].yes]
<1>1. /\ TypeOK /\ req[r] \in Request /\ req[r].op = "erase" /\ req[r].at = "save" /\ chat \in Chat
      /\ msg \in [Numbers -> Message]
      /\ UNCHANGED <<chat, sent, last, keys, secret, caller, ask, stale, raced>>
  BY DEF EraseSave, At, Inv, TypeOK
<1>2. req[r].op \in OfMessages /\ ~Between(req[r]) BY <1>1 DEF OfMessages, Between
<1>3. CASE msg[k].there
  <2>1. PICK x \in Request : req' = [req EXCEPT ![r] = x] /\ x.op = req[r].op /\ x.at = "find"
    BY <1>3, GotoKeeps DEF EraseSave, Stages
  <2>2. msg' = [msg EXCEPT ![k] = w] BY <1>3 DEF EraseSave
  <2>3. ASSUME k \in Numbers
        PROVE  /\ w \in Message /\ w.there = msg[k].there /\ ~w.encrypted
    <3>1. msg[k] \in Message BY <1>1, <2>3
    <3>2. req[r].yes \in BOOLEAN BY <1>1 DEF Request
    <3> QED BY <3>1, <3>2 DEF Message
  <2>4. /\ msg' \in [Numbers -> Message]
        /\ \A n \in Numbers :
             IF n = k THEN msg'[n].there = msg[n].there /\ ~msg'[n].encrypted ELSE msg'[n] = msg[n]
    <3> HIDE DEF w, k
    <3>1. CASE k \in Numbers BY <1>1, <2>2, <2>3, <3>1
    <3>2. CASE k \notin Numbers BY <1>1, <2>2, <3>2
    <3> QED BY <3>1, <3>2
  <2> HIDE DEF w
  <2>5. Sets(r, x) /\ TypeOK' /\ Group' /\ Calls'
    BY <1>1, <1>2, <2>1, <2>4, MessageFrame DEF TypeOK
  <2>6. Wiped' BY <2>4 DEF Inv, Wiped
  <2>7. Unsent'
    <3> SUFFICES ASSUME NEW n \in Numbers, n > sent' PROVE ~msg'[n].there /\ ~msg'[n].deleted /\ msg'[n].edits = 0
      BY DEF Unsent
    <3>1. n > sent /\ ~msg[n].there /\ ~msg[n].deleted /\ msg[n].edits = 0 BY <1>1 DEF Inv, Unsent
    <3>2. n # k BY <1>3, <3>1
    <3> QED BY <2>4, <3>1, <3>2
  <2>8. Between(x) /\ x.at # "preview" BY <1>1, <2>1 DEF Between
  <2>9. Previews' BY <1>1, <1>2, <2>1, <2>5, <2>8, MessageStep
  <2> QED BY <2>5, <2>6, <2>7, <2>9 DEF Inv
<1>4. CASE ~msg[k].there
  <2>1. Done(r) /\ UNCHANGED msg BY <1>4 DEF EraseSave
  <2>2. ~Between(Idle) BY IdleType DEF Between
  <2> QED BY <1>1, <1>2, <2>1, <2>2, IdleType, EraseFrame DEF Done
<1> QED BY <1>3, <1>4

LEMMA EraseFinds ==
    ASSUME Inv, NEW r \in Requests, EraseFind(r)
    PROVE  Inv'
<1> DEFINE q == req[r]
<1> DEFINE y == [q EXCEPT !.at = "preview"]
<1> DEFINE x == [y EXCEPT !.shown = NewestText]
<1>1. /\ TypeOK /\ q \in Request /\ q.op = "erase" /\ chat \in Chat /\ req \in [Requests -> Request]
      /\ UNCHANGED <<chat, msg, sent, last, keys, secret, caller, ask, raced>>
      /\ stale' = stale \ {Newest} /\ stale' \subseteq 0 .. MaxMessages
  BY DEF EraseFind, At, Inv, TypeOK
<1>2. x \in Request /\ x.op = "erase" /\ x.at = "preview" /\ x.shown = NewestText
  <2>1. y \in Request BY <1>1, StagedType DEF Stages
  <2>2. y.op = "erase" /\ y.at = "preview" BY <1>1, StagedFields
  <2>3. NewestText \in Text BY <1>1, NewestType
  <2> HIDE DEF y
  <2> QED BY <2>1, <2>2, <2>3 DEF Request
<1>3. req' = [req EXCEPT ![r] = x] BY <1>1 DEF EraseFind
<1>4. req[r].op \in OfMessages BY <1>1 DEF OfMessages
<1> HIDE DEF x, y, q
<1>5. Sets(r, x) /\ TypeOK' /\ Group' /\ Calls'
  BY <1>1, <1>2, <1>3, MessageFrame DEF OfMessages, TypeOK
<1>6. Wiped' /\ Unsent' /\ Newest' = Newest /\ NewestText' = NewestText
  BY <1>1 DEF Inv, Wiped, Unsent, Newest, NewestText, Visible
<1>8. NewestText.n = Newest BY DEF NewestText, NoText
<1>9. PICK z \in Request : z = x BY <1>2
<1>10. z.op = "erase" /\ z.at = "preview" /\ z.shown = NewestText /\ Sets(r, z) BY <1>2, <1>5, <1>9
<1>11. Current(z.shown)' BY <1>6, <1>8, <1>10 DEF Current
<1>12. Between(z) BY <1>10 DEF Between
<1>13. Previews' BY <1>1, <1>4, <1>10, <1>11, <1>12, MessageStep DEF OfMessages
<1> QED BY <1>5, <1>6, <1>13 DEF Inv

-----------------------------------------------------------------------------
(* An error in the middle of a request *)

LEMMA CutKeeps ==
    ASSUME Inv, NEW r \in Requests, Cut(r)
    PROVE  Inv'
<1>1. /\ TypeOK /\ req' = [req EXCEPT ![r] = Idle]
      /\ UNCHANGED <<chat, msg, stale, sent, last, keys, secret, caller, ask>>
  BY DEF Cut, Done, Inv
<1>2. ~Between(Idle) /\ Idle.op \in OfMessages \cup {"idle"} BY IdleType DEF Between
<1>3. CASE Between(req[r])
  <2>1. req[r].op \in OfMessages BY <1>3 DEF Between, OfMessages
  <2>2. raced' \subseteq Topics /\ raced \subseteq raced' BY <1>1 DEF Cut, TypeOK, Topics
  <2>3. Sets(r, Idle) /\ TypeOK' /\ Group' /\ Calls'
    BY <1>1, <1>2, <2>2, IdleType, MessageFrame DEF TypeOK
  <2>4. Wiped' /\ Unsent' /\ SameNewest BY <1>1, MessagesFrame DEF Inv
  <2>5. Previews'
    <3>1. CASE "messages" \in raced' BY <3>1 DEF Previews
    <3>2. CASE "messages" \notin raced'
      <4>1. \/ req[r].op = "send" /\ req[r].at = "preview"
            \/ req[r].op = "erase" /\ req[r].at \in {"find", "preview"}
            \/ req[r].op = "remove" /\ req[r].at = "drop"
        BY <1>3 DEF Between
      <4>2. raced' = raced \cup {"messages"} BY <4>1 DEF Cut, At
      <4> QED BY <3>2, <4>2
    <3> QED BY <3>1, <3>2
  <2> QED BY <2>3, <2>4, <2>5 DEF Inv
<1>4. CASE ~Between(req[r])
  <2>1. raced' = raced BY <1>4 DEF Cut, At, Between
  <2>2. CASE req[r].op \in OfMessages BY <1>1, <1>2, <1>4, <2>1, <2>2, IdleType, EraseFrame
  <2>3. CASE req[r].op \notin OfMessages BY <1>1, <2>1, <2>3, DoneKeeps DEF Done
  <2> QED BY <2>2, <2>3
<1> QED BY <1>3, <1>4

-----------------------------------------------------------------------------
(* The call of the chat *)

\* What a step of the call leaves alone.
LEMMA CallFrame ==
    ASSUME Inv, NEW r \in Requests, NEW x \in Request, req' = [req EXCEPT ![r] = x],
           req[r].op \notin OfMessages, x.op \notin {"edit", "leave"} \cup OfMessages,
           caller' \in Users \cup {Nobody},
           ask' \in [Asks -> [status : {"new", "pending", "approved", "rejected", "dropped"},
                              by : Users \cup {Nobody}]],
           UNCHANGED <<chat, msg, stale, sent, last, keys, secret, raced>>
    PROVE  Sets(r, x) /\ TypeOK' /\ Wiped' /\ Unsent' /\ Group' /\ Previews'
<1>1. Sets(r, x) BY DEF Sets
<1>2. TypeOK' BY <1>1, SetsType DEF Inv, TypeOK
<1>3. Wiped' /\ Unsent' /\ SameNewest BY MessagesFrame DEF Inv
<1>4. Group' BY <1>1, GroupFrame DEF Inv
<1>5. Previews' BY <1>1, <1>3, PreviewsFrame DEF Inv
<1> QED BY <1>1, <1>2, <1>3, <1>4, <1>5

LEMMA CallChanges ==
    ASSUME Inv, NEW r \in Requests, StartSave(r) \/ EndSave(r)
    PROVE  Inv'
<1>1. /\ TypeOK /\ req' = [req EXCEPT ![r] = Idle] /\ req[r].op \in {"start", "end"}
      /\ req[r] \in Request
      /\ UNCHANGED <<chat, msg, stale, sent, last, keys, secret, raced>>
  BY DEF StartSave, EndSave, At, Done, Inv, TypeOK
<1>2. CASE UNCHANGED <<caller, ask>>
  BY <1>1, <1>2, DoneKeeps DEF Done, OfMessages
<1>3. CASE ask' = Dropped /\ caller' \in Users \cup {Nobody}
  <2>1. ASSUME NEW a \in Asks
        PROVE  /\ ask'[a].status # "approved" /\ ~Listed(a)'
               /\ ask[a].status = "new" <=> ask'[a].status = "new"
    BY <1>3 DEF Dropped, Listed
  <2>2. ask' \in [Asks -> [status : {"new", "pending", "approved", "rejected", "dropped"},
                           by : Users \cup {Nobody}]]
    BY <1>1, <1>3 DEF Dropped, TypeOK
  <2>3. Sets(r, Idle) /\ TypeOK' /\ Wiped' /\ Unsent' /\ Group' /\ Previews'
    BY <1>1, <1>3, <2>2, IdleType, CallFrame DEF OfMessages
  <2>4. ASSUME NEW q \in Requests, req'[q].op \in {"ask", "respond"}
        PROVE  q # r /\ req'[q] = req[q]
    BY <1>1, <2>3, <2>4, IdleType, SetsType
  <2>5. Calls' BY <2>1, <2>4 DEF Inv, Calls
  <2> QED BY <2>3, <2>5 DEF Inv
<1> QED BY <1>1, <1>2, <1>3 DEF StartSave, EndSave, Request

LEMMA AskBegins ==
    ASSUME Inv, NEW r \in Requests, NEW a \in Asks, AskJoin(r, a)
    PROVE  Inv'
<1> DEFINE b == Begin("ask", Owner, "save")
<1> DEFINE x == [b EXCEPT !.ask = a]
<1>1. "ask" \in Ops /\ "save" \in Stages /\ Owner \in Users BY ConstantsAssumption DEF Ops, Stages
<1>2. b \in Request BY <1>1, BeginType
<1>3. b.op = "ask" BY DEF Begin, Idle
<1>4. Accept(r, x) /\ UNCHANGED <<chat, msg, stale, sent, last, keys, secret, caller, ask>> BY DEF AskJoin
<1> HIDE DEF b
<1>5. x \in Request /\ x.op = "ask" /\ x.ask = a BY <1>2, <1>3 DEF Request
<1> HIDE DEF x
<1>6. Sets(r, x) /\ TypeOK' /\ Wiped' /\ Unsent' /\ Group' /\ Previews'
  BY <1>4, <1>5, AcceptedKeeps DEF OfMessages
<1>7. req'[r] = x /\ \A q \in Requests \ {r} : req'[q] = req[q] BY <1>6, SetsType DEF Inv
<1>8. ask[a].status = "new" /\ \A q \in Requests : req[q].ask # a BY DEF AskJoin
<1>9. Calls'
  <2>1. ASSUME NEW q \in Requests, req'[q].op = "ask"
        PROVE  /\ req'[q].ask \in Asks /\ ask'[req'[q].ask].status = "new"
               /\ req'[q].ask = a => q = r
    BY <1>4, <1>5, <1>7, <1>8, <2>1 DEF Inv, Calls
  <2>2. ASSUME NEW q \in Requests, req'[q].op = "respond" PROVE req'[q] = req[q]
    BY <1>5, <1>7, <2>2
  <2>3. ASSUME NEW p \in Requests, NEW q \in Requests,
               req'[p].op = "ask", req'[q].op = "ask", req'[p].ask = req'[q].ask
        PROVE  p = q
    <3>1. CASE p = r \/ q = r BY <1>5, <1>7, <2>1, <2>3, <3>1
    <3>2. CASE p # r /\ q # r BY <1>7, <2>3, <3>2 DEF Inv, Calls
    <3> QED BY <3>1, <3>2
  <2>4. UNCHANGED <<ask, caller>> BY <1>4
  <2> QED BY <2>1, <2>2, <2>3, <2>4 DEF Inv, Calls, Listed
<1> QED BY <1>6, <1>9 DEF Inv

LEMMA AskStores ==
    ASSUME Inv, NEW r \in Requests, AskSave(r)
    PROVE  Inv'
<1> DEFINE a == req[r].ask
<1>1. /\ TypeOK /\ req' = [req EXCEPT ![r] = Idle] /\ req[r].op = "ask"
      /\ UNCHANGED <<chat, msg, stale, sent, last, keys, secret, caller, raced>>
  BY DEF AskSave, At, Done, Inv
<1>2. CASE ask' = ask BY <1>1, <1>2, DoneKeeps DEF Done, OfMessages
<1>3. CASE ask' = [ask EXCEPT ![a].status = "pending"]
  <2>1. a \in Asks /\ ask[a].status = "new" BY <1>1 DEF Inv, Calls
  <2> DEFINE S == [status : {"new", "pending", "approved", "rejected", "dropped"},
                   by : Users \cup {Nobody}]
  <2>2. ask \in [Asks -> S] BY <1>1 DEF TypeOK
  <2>3. /\ ask' \in [Asks -> S] /\ ask'[a].status = "pending"
        /\ \A c \in Asks \ {a} : ask'[c] = ask[c]
    BY <1>3, <2>1, <2>2
  <2>4. Sets(r, Idle) /\ TypeOK' /\ Wiped' /\ Unsent' /\ Group' /\ Previews'
    BY <1>1, <2>3, IdleType, CallFrame DEF OfMessages, TypeOK
  <2>5. req'[r] = Idle /\ \A q \in Requests \ {r} : req'[q] = req[q] BY <2>4, SetsType DEF Inv
  <2> HIDE DEF a, S
  <2>6. ASSUME NEW q \in Requests, req'[q].op \in {"ask", "respond"}
        PROVE  q # r /\ req'[q] = req[q] /\ req[q].ask \in Asks \ {a}
    <3>1. q # r /\ req'[q] = req[q] BY <2>5, <2>6, IdleType
    <3>2. req[q].ask \in Asks BY <2>6, <3>1 DEF Inv, Calls
    <3>3. req[q].ask # a
      <4>1. CASE req[q].op = "ask" BY <1>1, <3>1, <4>1 DEF Inv, Calls, a
      <4>2. CASE req[q].op = "respond" BY <2>1, <4>2 DEF Inv, Calls
      <4> QED BY <2>6, <3>1, <4>1, <4>2
    <3> QED BY <3>1, <3>2, <3>3
  <2>7. \A c \in Asks : ask'[c].status = "approved" => ask'[c].by = caller'
    BY <1>1, <2>3 DEF Inv, Calls
  <2>8. ASSUME NEW q \in Requests, req'[q].op = "ask"
        PROVE  req'[q].ask \in Asks /\ ask'[req'[q].ask].status = "new"
    BY <2>3, <2>6, <2>8 DEF Inv, Calls
  <2>9. ASSUME NEW q \in Requests, req'[q].op = "respond"
        PROVE  /\ req'[q].ask \in Asks /\ ask'[req'[q].ask].status # "new"
               /\ ask'[req'[q].ask].status \in {"pending", "approved", "rejected"}
                    => req'[q].user = caller'
    BY <1>1, <2>3, <2>6, <2>9 DEF Inv, Calls, Listed
  <2>10. ASSUME NEW p \in Requests, NEW q \in Requests,
                req'[p].op = "ask", req'[q].op = "ask", req'[p].ask = req'[q].ask
         PROVE  p = q
    BY <2>6, <2>10 DEF Inv, Calls
  <2>11. Calls' BY <2>7, <2>8, <2>9, <2>10 DEF Calls, Listed
  <2> QED BY <2>4, <2>11 DEF Inv
<1> QED BY <1>2, <1>3 DEF AskSave

LEMMA RespondBegins ==
    ASSUME Inv, NEW r \in Requests, NEW u \in Users, NEW a \in Asks, NEW yes \in BOOLEAN,
           Respond(r, u, a, yes)
    PROVE  Inv'
<1> DEFINE b == Begin("respond", u, "save")
<1> DEFINE x == [b EXCEPT !.ask = a, !.yes = yes]
<1>1. "respond" \in Ops /\ "save" \in Stages BY DEF Ops, Stages
<1>2. b \in Request BY <1>1, BeginType
<1>3. b.op = "respond" /\ b.user = u BY DEF Begin, Idle
<1>4. Accept(r, x) /\ UNCHANGED <<chat, msg, stale, sent, last, keys, secret, caller, ask>> BY DEF Respond
<1> HIDE DEF b
<1>5. x \in Request /\ x.op = "respond" /\ x.ask = a /\ x.user = u BY <1>2, <1>3 DEF Request
<1> HIDE DEF x
<1>6. Sets(r, x) /\ TypeOK' /\ Wiped' /\ Unsent' /\ Group' /\ Previews'
  BY <1>4, <1>5, AcceptedKeeps DEF OfMessages
<1>7. req'[r] = x /\ \A q \in Requests \ {r} : req'[q] = req[q] BY <1>6, SetsType DEF Inv
<1>8. ask[a].status # "new" /\ caller = u BY DEF Respond, Listed
<1>9. Calls'
  <2>1. ASSUME NEW q \in Requests, req'[q].op = "ask" PROVE req'[q] = req[q]
    BY <1>5, <1>7, <2>1
  <2>2. ASSUME NEW q \in Requests, req'[q].op = "respond"
        PROVE  /\ req'[q].ask \in Asks /\ ask[req'[q].ask].status # "new"
               /\ Listed(req'[q].ask) => req'[q].user = caller
    BY <1>5, <1>7, <1>8, <2>2 DEF Inv, Calls
  <2>3. UNCHANGED <<ask, caller>> BY <1>4
  <2> QED BY <2>1, <2>2, <2>3 DEF Inv, Calls, Listed
<1> QED BY <1>6, <1>9 DEF Inv

LEMMA RespondStores ==
    ASSUME Inv, NEW r \in Requests, RespondSave(r)
    PROVE  Inv'
<1> DEFINE a == req[r].ask
<1> DEFINE status == IF req[r].yes THEN "approved" ELSE "rejected"
<1> DEFINE u == req[r].user
<1>1. /\ TypeOK /\ req' = [req EXCEPT ![r] = Idle] /\ req[r].op = "respond" /\ req[r] \in Request
      /\ UNCHANGED <<chat, msg, stale, sent, last, keys, secret, caller, raced>>
  BY DEF RespondSave, At, Done, Inv, TypeOK
<1>2. CASE ask' = ask BY <1>1, <1>2, DoneKeeps DEF Done, OfMessages
<1>3. CASE Listed(a) /\ ask' = [ask EXCEPT ![a] = [status |-> status, by |-> u]]
  <2>1. a \in Asks /\ u = caller /\ u \in Users BY <1>1, <1>3 DEF Inv, Calls, Request
  <2> DEFINE S == [status : {"new", "pending", "approved", "rejected", "dropped"},
                   by : Users \cup {Nobody}]
  <2>2. ask \in [Asks -> S] BY <1>1 DEF TypeOK
  <2>3. /\ ask' \in [Asks -> S] /\ ask'[a].status \in {"approved", "rejected"} /\ ask'[a].by = u
        /\ \A c \in Asks \ {a} : ask'[c] = ask[c]
    <3>1. [status |-> status, by |-> u] \in S BY <2>1
    <3>2. status \in {"approved", "rejected"} OBVIOUS
    <3> HIDE DEF a, status, u, S
    <3> QED BY <1>3, <2>1, <2>2, <3>1, <3>2
  <2>4. Sets(r, Idle) /\ TypeOK' /\ Wiped' /\ Unsent' /\ Group' /\ Previews'
    BY <1>1, <2>3, IdleType, CallFrame DEF OfMessages, TypeOK
  <2>5. req'[r] = Idle /\ \A q \in Requests \ {r} : req'[q] = req[q] BY <2>4, SetsType DEF Inv
  <2> HIDE DEF a, S, u
  <2>6. ASSUME NEW q \in Requests, req'[q].op \in {"ask", "respond"}
        PROVE  req'[q] = req[q] /\ req[q].ask \in Asks
    <3>1. req'[q] = req[q] BY <2>5, <2>6, IdleType
    <3> QED BY <2>6, <3>1 DEF Inv, Calls
  <2>7. ask[a].status # "new" BY <1>3 DEF Listed
  <2>8. \A c \in Asks : ask'[c].status = "new" <=> ask[c].status = "new"
    BY <2>3, <2>7
  <2>9. \A c \in Asks : ask'[c].status = "approved" => ask'[c].by = caller'
    BY <1>1, <2>1, <2>3 DEF Inv, Calls
  <2>10. \A c \in Asks : ask'[c].status \in {"pending", "approved", "rejected"} => Listed(c)
    BY <1>3, <2>3 DEF Listed
  <2>11. ASSUME NEW q \in Requests, req'[q].op = "ask"
         PROVE  req'[q].ask \in Asks /\ ask'[req'[q].ask].status = "new"
    BY <2>6, <2>8, <2>11 DEF Inv, Calls
  <2>12. ASSUME NEW q \in Requests, req'[q].op = "respond"
         PROVE  /\ req'[q].ask \in Asks /\ ask'[req'[q].ask].status # "new"
                /\ ask'[req'[q].ask].status \in {"pending", "approved", "rejected"}
                     => req'[q].user = caller'
    BY <1>1, <2>6, <2>8, <2>10, <2>12 DEF Inv, Calls
  <2>13. ASSUME NEW p \in Requests, NEW q \in Requests,
                req'[p].op = "ask", req'[q].op = "ask", req'[p].ask = req'[q].ask
         PROVE  p = q
    BY <2>6, <2>13 DEF Inv, Calls
  <2>14. Calls' BY <2>9, <2>11, <2>12, <2>13 DEF Calls, Listed
  <2> QED BY <2>4, <2>14 DEF Inv
<1> QED BY <1>2, <1>3 DEF RespondSave

-----------------------------------------------------------------------------
(* The invariant *)

LEMMA InitHolds == Init => Inv
<1> SUFFICES ASSUME Init PROVE Inv OBVIOUS
<1>1. /\ Owner \in Users /\ MaxMessages \in Nat /\ 0 \in 0 .. MaxMessages
  BY ConstantsAssumption
<1>2. <<>> \in Admins /\ DOMAIN <<>> = {}
  <2>1. <<>> \in [{} -> SUBSET Permissions] /\ {} \in SUBSET Users /\ DOMAIN <<>> = {} OBVIOUS
  <2> QED BY <2>1 DEF Admins
<1>3. chat \in Chat /\ DOMAIN chat.admins = {}
  <2>1. PICK group \in BOOLEAN, members \in SUBSET Users :
          chat = [there |-> TRUE, group |-> group, members |-> members, admins |-> <<>>]
    BY DEF Init
  <2> QED BY <1>2, <2>1 DEF Chat
<1>4. \A r \in Requests : req[r] = Idle /\ req[r].op = "idle" BY IdleType DEF Init
<1>5. /\ msg \in [Numbers -> Message]
      /\ \A n \in Numbers : ~msg[n].there /\ ~msg[n].deleted /\ msg[n].edits = 0
  BY <1>1, ConstantsAssumption DEF Init, Message
<1>6. /\ ask \in [Asks -> [status : {"new", "pending", "approved", "rejected", "dropped"},
                           by : Users \cup {Nobody}]]
      /\ \A a \in Asks : ask[a].status = "new"
  BY DEF Init
<1>7. TypeOK
  <2>1. req \in [Requests -> Request] BY <1>4, IdleType DEF Init
  <2>2. last \in Text BY ConstantsAssumption DEF Init, NoText, Text
  <2> QED BY <1>1, <1>3, <1>5, <1>6, <2>1, <2>2 DEF Init, TypeOK
<1>8. Group BY <1>3, <1>4 DEF Group, GroupOK
<1>9. Calls BY <1>4, <1>6 DEF Calls
<1>10. Wiped /\ Unsent BY <1>5 DEF Wiped, Unsent
<1>11. Visible = {} BY <1>5 DEF Visible
<1>12. Current(last) BY <1>11 DEF Current, NewestText, NoText, Newest, Init
<1>13. Previews BY <1>4, <1>12 DEF Previews, OfMessages
<1> QED BY <1>7, <1>8, <1>9, <1>10, <1>13 DEF Inv

LEMMA NextKeeps == Inv /\ [Next]_vars => Inv'
<1> SUFFICES ASSUME Inv, [Next]_vars PROVE Inv' OBVIOUS
<1>1. CASE UNCHANGED vars
  <2>1. UNCHANGED <<chat, msg, sent, last, keys, secret, caller, ask, req, stale, raced>>
    BY <1>1 DEF vars
  <2>2. TypeOK' BY <2>1 DEF Inv, TypeOK
  <2>3. Group' BY <2>1 DEF Inv, Group, GroupOK, Authorised, May
  <2>4. Calls' BY <2>1 DEF Inv, Calls, Listed
  <2>5. Wiped' /\ Unsent' /\ SameNewest BY <2>1, MessagesFrame DEF Inv
  <2>6. Previews' BY <2>1, <2>5, SameNewestKeeps DEF Inv, Previews, Between
  <2> QED BY <2>2, <2>3, <2>4, <2>5, <2>6 DEF Inv
<1>2. ASSUME NEW r \in Requests, NEW u \in Users,
             NEW m \in (SUBSET Users) \cup {Unchanged}, NEW a \in AdminLists \cup {Unchanged},
             Edit(r, u, m, a)
      PROVE  Inv'
  BY <1>2, EditKeeps
<1>3. ASSUME NEW r \in Requests, NEW u \in Users,
             \/ Join(r, u) \/ Leave(r, u) \/ Remove(r, u) \/ Send(r, u)
             \/ Register(r, u) \/ Disable(r, u) \/ StartCall(r, u) \/ EndCall(r, u)
      PROVE  Inv'
  BY <1>3, JoinKeeps, LeaveKeeps, MessagesBegin, KeysBegin
<1>4. ASSUME NEW r \in Requests, NEW u \in Users, NEW n \in Numbers,
             Erase(r, u, n) \/ Rewrite(r, u, n)
      PROVE  Inv'
  BY <1>4, EraseBegins, RewriteBegins
<1>5. ASSUME NEW r \in Requests,
             \/ EditSave(r) \/ JoinSave(r) \/ LeaveSave(r) \/ RemoveMessages(r) \/ RemoveChat(r)
             \/ SendCreate(r) \/ Preview(r) \/ EraseChecked(r) \/ EraseSave(r) \/ EraseFind(r)
      PROVE  Inv'
  BY <1>5, StoreMembersKeeps, RemoveKeeps, SendKeeps, PreviewKeeps, EraseKeeps, EraseStores, EraseFinds
<1>6. ASSUME NEW r \in Requests,
             \/ RewriteChecked(r) \/ RewriteSave(r) \/ RegisterSave(r) \/ DisableSave(r)
             \/ StartSave(r) \/ EndSave(r) \/ AskSave(r) \/ RespondSave(r) \/ Cut(r)
      PROVE  Inv'
  BY <1>6, RewriteKeeps, RewriteStores, KeysKeep, CallChanges, AskStores, RespondStores, CutKeeps
<1>7. ASSUME NEW r \in Requests, NEW a \in Asks, AskJoin(r, a) PROVE Inv'
  BY <1>7, AskBegins
<1>8. ASSUME NEW r \in Requests, NEW u \in Users, NEW a \in Asks, NEW yes \in BOOLEAN,
             Respond(r, u, a, yes)
      PROVE  Inv'
  BY <1>8, RespondBegins
<1> QED BY <1>1, <1>2, <1>3, <1>4, <1>5, <1>6, <1>7, <1>8 DEF Next

\* An edit is stored by its own request, as long as no other has raised the version.
LEMMA EditStores ==
    ASSUME Inv, Next, NEW r \in Requests, At(r, "edit", "save"), req'[r] = Idle, chat' # chat
    PROVE  ChangeAuthorised(req[r].user)
<1>1. TypeOK /\ req \in [Requests -> Request] /\ chat \in Chat BY DEF Inv, TypeOK
<1>2. \E q \in Requests : EditSave(q) \/ JoinSave(q) \/ LeaveSave(q) \/ RemoveChat(q)
  <2>1. ASSUME NEW q \in Requests, NEW u \in Users,
               NEW m \in (SUBSET Users) \cup {Unchanged}, NEW a \in AdminLists \cup {Unchanged},
               Edit(q, u, m, a)
        PROVE  chat' = chat
    BY <2>1 DEF Edit
  <2>2. ASSUME NEW q \in Requests, NEW u \in Users,
               \/ Join(q, u) \/ Leave(q, u) \/ Remove(q, u) \/ Send(q, u)
               \/ Register(q, u) \/ Disable(q, u) \/ StartCall(q, u) \/ EndCall(q, u)
        PROVE  chat' = chat
    BY <2>2 DEF Join, Leave, Remove, Send, Register, Disable, StartCall, EndCall
  <2>3. ASSUME NEW q \in Requests, NEW u \in Users, NEW n \in Numbers,
               Erase(q, u, n) \/ Rewrite(q, u, n)
        PROVE  chat' = chat
    BY <2>3 DEF Erase, Rewrite
  <2>4. ASSUME NEW q \in Requests, NEW a \in Asks, AskJoin(q, a) PROVE chat' = chat
    BY <2>4 DEF AskJoin
  <2>5. ASSUME NEW q \in Requests, NEW u \in Users, NEW a \in Asks, NEW yes \in BOOLEAN,
               Respond(q, u, a, yes)
        PROVE  chat' = chat
    BY <2>5 DEF Respond
  <2>6. ASSUME NEW q \in Requests,
               \/ RemoveMessages(q) \/ SendCreate(q) \/ Preview(q)
               \/ EraseChecked(q) \/ EraseSave(q) \/ EraseFind(q)
        PROVE  chat' = chat
    BY <2>6 DEF RemoveMessages, SendCreate, Preview, EraseChecked, EraseSave, EraseFind
  <2>7. ASSUME NEW q \in Requests,
               \/ RewriteChecked(q) \/ RewriteSave(q) \/ RegisterSave(q) \/ DisableSave(q)
               \/ StartSave(q) \/ EndSave(q) \/ AskSave(q) \/ RespondSave(q) \/ Cut(q)
        PROVE  chat' = chat
    BY <2>7 DEF RewriteChecked, RewriteSave, RegisterSave, DisableSave, StartSave, EndSave,
                AskSave, RespondSave, Cut
  <2> QED BY <2>1, <2>2, <2>3, <2>4, <2>5, <2>6, <2>7 DEF Next
<1>3. PICK q \in Requests : EditSave(q) \/ JoinSave(q) \/ LeaveSave(q) \/ RemoveChat(q) BY <1>2
<1>4. q = r
  <2> SUFFICES ASSUME q # r PROVE FALSE OBVIOUS
  <2>1. req[r] \in Request /\ req[r].op = "edit" BY <1>1 DEF At
  <2>2. req'[r] = req[r] \/ req'[r] = [req[r] EXCEPT !.fresh = FALSE]
    BY <1>1, <1>3 DEF EditSave, JoinSave, LeaveSave, RemoveChat, Done, DoneRaising
  <2>3. req'[r].op = "edit" BY <2>1, <2>2, SetStale
  <2> QED BY <2>3, IdleType
<1>5. EditSave(r) BY <1>3, <1>4 DEF JoinSave, LeaveSave, RemoveChat, At
<1>6. /\ req[r].fresh /\ chat' = [chat EXCEPT !.members = req[r].members, !.admins = req[r].admins]
  BY <1>5 DEF EditSave
<1>7. chat'.members = req[r].members /\ chat'.admins = req[r].admins BY <1>1, <1>6 DEF Chat
<1>8. Authorised(req[r], chat) BY <1>6 DEF Inv, Group, GroupOK, At
<1> QED BY <1>7, <1>8 DEF Authorised, ChangeAuthorised

-----------------------------------------------------------------------------
(* Theorems *)

\* The inductive invariant holds in every reachable state.
LEMMA Invariance == Spec => []Inv
<1>1. Init => Inv BY InitHolds
<1>2. Inv /\ [Next]_vars => Inv' BY NextKeeps
<1> QED BY <1>1, <1>2, PTL DEF Spec

\* Every field keeps its type, for any users, messages and requests under way.
THEOREM TypeCorrect == Spec => []TypeOK
<1>1. Inv => TypeOK BY DEF Inv
<1> QED BY <1>1, Invariance, PTL

\* Admins are members, whichever edits, joins and departures of the group overlap.
THEOREM AdminsCorrect == Spec => []AdminsAreMembers
<1>1. Inv => AdminsAreMembers BY DEF Inv, Group, AdminsAreMembers
<1> QED BY <1>1, Invariance, PTL

\* The preview is the newest message's, in its present words unless it has been edited since
\* they were taken, as long as sendings and deletions did not overlap.
THEOREM PreviewCorrect == Spec => []PreviewFollows
<1>1. ASSUME Inv PROVE PreviewFollows
  <2> SUFFICES ASSUME chat.there, "messages" \notin raced, ~Busy({"send", "erase", "remove"})
               PROVE  Current(last)
    BY DEF PreviewFollows
  <2>1. \A r \in Requests : ~Between(req[r]) BY DEF Busy, Between
  <2> QED BY <1>1, <2>1 DEF Inv, Previews
<1> QED BY <1>1, Invariance, PTL

\* The text of a deleted message is not shown in a reply that quotes it.
THEOREM QuotesCorrect == Spec => []DeletedNotQuoted
<1>1. Inv => DeletedNotQuoted BY DEF Inv, Wiped, DeletedNotQuoted, Quote
<1> QED BY <1>1, Invariance, PTL

\* Whoever is approved for a call has been approved by its creator.
THEOREM CallsCorrect == Spec => []ApprovedByCallCreator
<1>1. Inv => ApprovedByCallCreator BY DEF Inv, Calls, ApprovedByCallCreator
<1> QED BY <1>1, Invariance, PTL

\* Every edit that is stored is one that its author may make of the chat it changes.
THEOREM EditsCorrect == Spec => EditsAuthorised
<1>1. Inv /\ [Next]_vars =>
        [\A r \in Requests :
           At(r, "edit", "save") /\ req'[r] = Idle /\ chat' # chat => ChangeAuthorised(req[r].user)]_vars
  <2> SUFFICES ASSUME Inv, Next, NEW r \in Requests,
                      At(r, "edit", "save"), req'[r] = Idle, chat' # chat
               PROVE  ChangeAuthorised(req[r].user)
    OBVIOUS
  <2> QED BY EditStores
<1> QED BY <1>1, Invariance, PTL DEF Spec, EditsAuthorised
=============================================================================

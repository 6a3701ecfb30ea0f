-------------------------------- MODULE Chats --------------------------------
(***************************************************************************)
(* One chat (chats/chats.service.ts): who belongs to a group and who may   *)
(* change that, its messages and the preview of the last one, the keys and *)
(* the switch of end-to-end encryption in a private chat, and the requests *)
(* to join the chat's video call.  Each action is one awaited database     *)
(* call with the synchronous code around it; a request goes on from the    *)
(* document it loaded.  A save() writes the fields that the holder         *)
(* changed.  Replacing the array of members or admins also compares the    *)
(* version of the document and raises it; adding one member raises it      *)
(* without comparing; every other write leaves it alone.                   *)
(***************************************************************************)
EXTENDS Naturals, FiniteSets

CONSTANTS
    Users,
    Owner,        \* createdBy of the group
    Refusing,     \* users who do not want to be put into groups (disableGroupInvites)
    AdminLists,   \* lists of admins a client may submit: user |-> permissions
    MaxMembers,   \* 40
    MaxMessages,  \* messages sent to the chat (a bound)
    MaxEdits,     \* edits of one message (a bound)
    Asks,         \* identities of requests to join the call; each is used once
    Requests,     \* requests under way at the same time (a bound)
    Nobody,       \* no user
    Unchanged     \* a field that the submitted change leaves out

Permissions == {"add_admins", "add_members", "remove_members", "delete_others_messages"}

Admins == UNION {[S -> SUBSET Permissions] : S \in SUBSET Users}

ASSUME ConstantsAssumption ==
    /\ Owner \in Users /\ Refusing \subseteq Users /\ Nobody \notin Users
    /\ IsFiniteSet(Users) /\ MaxMembers \in Nat
    /\ MaxMessages \in Nat /\ MaxEdits \in Nat
    /\ AdminLists \subseteq Admins

VARIABLES
    chat,     \* the document, but for the fields below
    msg,      \* the messages
    sent,     \* how many messages have been created; they are numbered by creation
    last,     \* the preview (lastMessage): whose text it is, and after how many edits
    keys,     \* e2ePublicKeys: who has registered a key
    secret,   \* isE2EEnabled
    caller,   \* videoCallCreatorId, of a call that is on
    ask,      \* joinRequests
    req,      \* the requests under way
    stale,    \* messages edited since their text was taken for the preview (history)
    raced     \* what has been written by requests that overlapped (history)

vars == <<chat, msg, sent, last, keys, secret, caller, ask, req, stale, raced>>

Chat == [there : BOOLEAN, group : BOOLEAN, members : SUBSET Users, admins : Admins]
Numbers == 1 .. MaxMessages

\* text: the content is a ciphertext of what the sender wrote, or else the
\* placeholder of deleted messages; encrypted: isEncrypted; edits: how often the
\* sender has written it anew.
Message ==
    [there : BOOLEAN, sender : Users, deleted : BOOLEAN, text : BOOLEAN, encrypted : BOOLEAN,
     edits : 0 .. MaxEdits]

\* The text of message n after so many edits; n = 0 is the empty preview.
Text == [n : 0 .. MaxMessages, edits : 0 .. MaxEdits]
NoText == [n |-> 0, edits |-> 0]

Ops == {"idle", "edit", "join", "leave", "remove", "send", "rewrite", "erase",
        "register", "disable", "start", "end", "ask", "respond"}
Stages == {"load", "chat", "save", "create", "find", "preview", "drop"}
Topics == {"messages"}

\* members, admins: what an edit is going to store; n: the message that a request
\* is about; shown: the preview it is going to store; keys, secret: as loaded; yes:
\* the answer to a request to join, or `text` of the message as it was loaded;
\* fresh: no other save has raised the version of the chat since it was loaded.
Request ==
    [op : Ops, at : Stages, user : Users, members : SUBSET Users,
     admins : Admins \cup {Unchanged}, n : 0 .. MaxMessages, shown : Text, keys : SUBSET Users,
     secret : BOOLEAN,
     ask : Asks \cup {Nobody}, yes : BOOLEAN, fresh : BOOLEAN]

TypeOK ==
    /\ chat \in Chat
    /\ msg \in [Numbers -> Message]
    /\ sent \in 0 .. MaxMessages /\ last \in Text
    /\ keys \subseteq Users /\ secret \in BOOLEAN
    /\ caller \in Users \cup {Nobody}
    /\ ask \in [Asks -> [status : {"new", "pending", "approved", "rejected", "dropped"},
                         by : Users \cup {Nobody}]]
    /\ req \in [Requests -> Request]
    /\ stale \subseteq 0 .. MaxMessages /\ raced \subseteq Topics

Idle ==
    [op |-> "idle", at |-> "load", user |-> Owner, members |-> {}, admins |-> Unchanged,
     n |-> 0, shown |-> NoText, keys |-> {}, secret |-> FALSE, ask |-> Nobody, yes |-> FALSE, fresh |-> FALSE]

\* createChat: a group, or a private chat of two.
Init ==
    /\ \E group \in BOOLEAN, members \in SUBSET Users :
         /\ Owner \in members
         /\ group => members \cap Refusing \subseteq {Owner} /\ Cardinality(members) <= MaxMembers
         /\ ~group => Cardinality(members) = 2
         /\ chat = [there |-> TRUE, group |-> group, members |-> members, admins |-> <<>>]
    /\ msg = [n \in Numbers |-> [there |-> FALSE, sender |-> Owner, deleted |-> FALSE,
                                text |-> TRUE, encrypted |-> TRUE, edits |-> 0]]
    /\ sent = 0 /\ last = NoText
    /\ keys = {} /\ secret = FALSE
    /\ caller = Nobody
    /\ ask = [a \in Asks |-> [status |-> "new", by |-> Nobody]]
    /\ req = [r \in Requests |-> Idle]
    /\ stale = {} /\ raced = {}

-----------------------------------------------------------------------------
(* A definition whose name ends in _Bug is the definition of that name with a   *)
(* plausible mistake seeded in it; the checks confirm that a property notices.  *)

Busy(ops) == \E r \in Requests : req[r].op \in ops
Clash(op) ==
    {t \in Topics :
        op \in {"send", "erase", "remove"} /\ Busy({"send", "erase", "remove"})}

Begin(op, u, at) == [Idle EXCEPT !.op = op, !.user = u, !.at = at, !.fresh = TRUE]
Accept(r, request) ==
    /\ req[r].op = "idle"
    /\ req' = [req EXCEPT ![r] = request]
    /\ raced' = raced \cup Clash(request.op)
At(r, op, at) == req[r].op = op /\ req[r].at = at
Goto(r, at) == req' = [req EXCEPT ![r].at = at]
Done(r) == req' = [req EXCEPT ![r] = Idle]

\* The request ends, having raised the version: every other copy is outdated.
DoneRaising(r) ==
    req' = [q \in Requests |-> IF q = r THEN Idle ELSE [req[q] EXCEPT !.fresh = FALSE]]

\* getChat: only members find the chat.
Finds(u) == chat.there /\ u \in chat.members

\* hasPermission
May(u, permission, admins) ==
    \/ u = Owner
    \/ u \in DOMAIN admins /\ permission \in admins[u]
May_Any(u, admins) == u = Owner \/ u \in DOMAIN admins

\* An error in the middle of a request, or the end of the process.
Cut(r) ==
    /\ req[r].op # "idle"
    /\ raced' = IF At(r, "send", "preview") \/ At(r, "erase", "find") \/ At(r, "erase", "preview")
                   \/ At(r, "remove", "drop")
                THEN raced \cup {"messages"} ELSE raced
    /\ Done(r)
    /\ UNCHANGED <<chat, msg, sent, last, keys, secret, caller, ask, stale>>

-----------------------------------------------------------------------------
(* editChat *)

\* The members that an edit leads to: new admins become members, admins stay
\* members, and an owner or admin does not put himself out.
Known(admins) == IF admins = Unchanged THEN chat.members ELSE chat.members \cup DOMAIN admins
Kept_Bug(admins) == {}                                    \* admins may be put out
Kept(admins) == IF admins = Unchanged THEN DOMAIN chat.admins ELSE DOMAIN admins
Edited(u, members, admins) ==
    LET after == IF members = Unchanged THEN Known(admins) ELSE members \cup Kept(admins)
    IN after \cup (IF May_Any(u, chat.admins) THEN {u} ELSE {})

\* What the editor must be allowed to do, by the chat as it was loaded.
EditAllowed(u, members, admins) ==
    /\ admins # Unchanged => May(u, "add_admins", chat.admins)
    /\ members # Unchanged =>
         LET added == members \ Known(admins)
             removed == Known(admins) \ members
         IN /\ added # {} => May(u, "add_members", chat.admins) /\ added \cap Refusing = {}
            /\ removed \subseteq {u} \/ May(u, "remove_members", chat.admins)
    /\ Cardinality(Edited(u, members, admins)) <= MaxMembers

Edit(r, u, members, admins) ==
    /\ Finds(u) /\ chat.group /\ EditAllowed(u, members, admins)
    /\ Accept(r, [Begin("edit", u, "save") EXCEPT
                    !.members = Edited(u, members, admins),
                    !.admins = IF admins = Unchanged THEN chat.admins ELSE admins])
    /\ UNCHANGED <<chat, msg, sent, last, keys, secret, caller, ask, stale>>

\* Both lists are stored, at the version that was loaded or not at all.
EditSave_Bug(r) ==                                        \* the version is not compared
    /\ At(r, "edit", "save") /\ chat.there
    /\ chat' = [chat EXCEPT !.members = req[r].members, !.admins = req[r].admins]
    /\ DoneRaising(r)
    /\ UNCHANGED <<msg, sent, last, keys, secret, caller, ask, stale, raced>>
EditSave(r) ==
    /\ At(r, "edit", "save")
    /\ IF chat.there /\ req[r].fresh
       THEN /\ chat' = [chat EXCEPT !.members = req[r].members, !.admins = req[r].admins]
            /\ DoneRaising(r)
       ELSE Done(r) /\ UNCHANGED chat
    /\ UNCHANGED <<msg, sent, last, keys, secret, caller, ask, stale, raced>>

-----------------------------------------------------------------------------
(* joinGroupByLink, leaveChat, deleteChat *)

Join(r, u) ==
    /\ chat.there /\ chat.group /\ u \notin chat.members
    /\ Accept(r, Begin("join", u, "save"))
    /\ UNCHANGED <<chat, msg, sent, last, keys, secret, caller, ask, stale>>

\* The member is pushed, whatever the version is.
JoinSave(r) ==
    /\ At(r, "join", "save")
    /\ IF chat.there
       THEN chat' = [chat EXCEPT !.members = @ \cup {req[r].user}] /\ DoneRaising(r)
       ELSE Done(r) /\ UNCHANGED chat
    /\ UNCHANGED <<msg, sent, last, keys, secret, caller, ask, stale, raced>>

Leave(r, u) ==
    /\ Finds(u) /\ chat.group /\ u # Owner
    /\ Accept(r, [Begin("leave", u, "save") EXCEPT
                    !.members = chat.members \ {u},
                    !.admins = [a \in DOMAIN chat.admins \ {u} |-> chat.admins[a]]])
    /\ UNCHANGED <<chat, msg, sent, last, keys, secret, caller, ask, stale>>

LeaveSave(r) ==
    /\ At(r, "leave", "save")
    /\ IF chat.there /\ req[r].fresh
       THEN /\ chat' = [chat EXCEPT !.members = req[r].members, !.admins = req[r].admins]
            /\ DoneRaising(r)
       ELSE Done(r) /\ UNCHANGED chat
    /\ UNCHANGED <<msg, sent, last, keys, secret, caller, ask, stale, raced>>

Remove(r, u) ==
    /\ Finds(u)
    /\ chat.group => u = Owner
    /\ Accept(r, Begin("remove", u, "save"))
    /\ UNCHANGED <<chat, msg, sent, last, keys, secret, caller, ask, stale>>

RemoveMessages(r) ==
    /\ At(r, "remove", "save")
    /\ msg' = [n \in Numbers |-> [msg[n] EXCEPT !.there = FALSE]]
    /\ Goto(r, "drop")
    /\ UNCHANGED <<chat, sent, last, keys, secret, caller, ask, stale, raced>>

RemoveChat(r) ==
    /\ At(r, "remove", "drop")
    /\ chat' = [chat EXCEPT !.there = FALSE]
    /\ Done(r)
    /\ UNCHANGED <<msg, sent, last, keys, secret, caller, ask, stale, raced>>

-----------------------------------------------------------------------------
(* sendMessage, editMessage, deleteMessage *)

Send(r, u) ==
    /\ Finds(u) /\ sent < MaxMessages
    /\ Accept(r, Begin("send", u, "create"))
    /\ UNCHANGED <<chat, msg, sent, last, keys, secret, caller, ask, stale>>

SendCreate(r) ==
    /\ At(r, "send", "create") /\ sent < MaxMessages
    /\ sent' = sent + 1
    /\ msg' = [msg EXCEPT ![sent + 1].there = TRUE, ![sent + 1].sender = req[r].user]
    /\ req' = [req EXCEPT ![r].at = "preview", ![r].shown = [n |-> sent + 1, edits |-> 0]]
    /\ UNCHANGED <<chat, last, keys, secret, caller, ask, stale, raced>>

\* The end of a send and of a deletion: the preview is stored.
Preview(r) ==
    /\ req[r].op \in {"send", "erase"} /\ req[r].at = "preview"
    /\ last' = IF chat.there THEN req[r].shown ELSE last
    /\ Done(r)
    /\ UNCHANGED <<chat, msg, sent, keys, secret, caller, ask, stale, raced>>

\* A sender deletes his own message, an admin with the permission any.
Erase(r, u, n) ==
    /\ msg[n].there
    /\ Accept(r, [Begin("erase", u, IF u = msg[n].sender THEN "save" ELSE "chat")
                    EXCEPT !.n = n, !.yes = msg[n].text])
    /\ UNCHANGED <<chat, msg, sent, last, keys, secret, caller, ask, stale>>

EraseChecked(r) ==
    /\ At(r, "erase", "chat")
    /\ IF Finds(req[r].user) /\ May(req[r].user, "delete_others_messages", chat.admins)
       THEN Goto(r, "save") ELSE Done(r)
    /\ UNCHANGED <<chat, msg, sent, last, keys, secret, caller, ask, stale, raced>>

EraseSave_Bug(r) ==                                       \* the preview is left as it is
    /\ At(r, "erase", "save")
    /\ msg' = [msg EXCEPT ![req[r].n].deleted = TRUE]
    /\ Done(r)
    /\ UNCHANGED <<chat, sent, last, keys, secret, caller, ask, stale, raced>>
\* Content that was the placeholder when it was loaded is not written again.
EraseSave(r) ==
    /\ At(r, "erase", "save")
    /\ IF msg[req[r].n].there
       THEN /\ msg' = [msg EXCEPT ![req[r].n] =
                         [msg[req[r].n] EXCEPT !.deleted = TRUE, !.encrypted = FALSE,
                                               !.text = msg[req[r].n].text /\ ~req[r].yes]]
            /\ Goto(r, "find")
       ELSE Done(r) /\ UNCHANGED msg
    /\ UNCHANGED <<chat, sent, last, keys, secret, caller, ask, stale, raced>>

Visible == {n \in Numbers : msg[n].there /\ ~msg[n].deleted}
Newest == IF Visible = {} THEN 0 ELSE CHOOSE n \in Visible : \A m \in Visible : m <= n
NewestText == IF Newest = 0 THEN NoText ELSE [n |-> Newest, edits |-> msg[Newest].edits]

EraseFind(r) ==
    /\ At(r, "erase", "find")
    /\ req' = [req EXCEPT ![r].at = "preview", ![r].shown = NewestText]
    /\ stale' = stale \ {Newest}
    /\ UNCHANGED <<chat, msg, sent, last, keys, secret, caller, ask, raced>>

Rewrite(r, u, n) ==
    /\ msg[n].there /\ msg[n].sender = u /\ ~msg[n].deleted
    /\ Accept(r, [Begin("rewrite", u, "chat") EXCEPT !.n = n])
    /\ UNCHANGED <<chat, msg, sent, last, keys, secret, caller, ask, stale>>

RewriteChecked(r) ==
    /\ At(r, "rewrite", "chat")
    /\ IF Finds(req[r].user) THEN Goto(r, "save") ELSE Done(r)
    /\ UNCHANGED <<chat, msg, sent, last, keys, secret, caller, ask, stale, raced>>

\* isEncrypted was true already: it is not a change and is not written.  The
\* preview is left as it is.
RewriteSave(r) ==
    /\ At(r, "rewrite", "save")
    /\ LET n == req[r].n
       IN IF msg[n].there
          THEN /\ msg[n].edits < MaxEdits
               /\ msg' = [msg EXCEPT ![n] = [msg[n] EXCEPT !.text = TRUE, !.edits = @ + 1]]
               /\ stale' = stale \cup {n}
          ELSE UNCHANGED <<msg, stale>>
    /\ Done(r)
    /\ UNCHANGED <<chat, sent, last, keys, secret, caller, ask, raced>>

\* decryptMessage, of the message that a reply quotes.
Quote_Bug(n) == IF msg[n].text THEN "text" ELSE "placeholder"     \* no flag is looked at
Quote(n) ==
    IF msg[n].encrypted THEN IF msg[n].deleted THEN "placeholder" ELSE "text"
    ELSE IF msg[n].text THEN "ciphertext" ELSE "placeholder"

-----------------------------------------------------------------------------
(* registerE2EPublicKey, disableE2E *)

Register(r, u) ==
    /\ Finds(u) /\ ~chat.group
    /\ Accept(r, [Begin("register", u, "save") EXCEPT !.keys = keys \cup {u}, !.secret = secret])
    /\ UNCHANGED <<chat, msg, sent, last, keys, secret, caller, ask, stale>>

\* The keys are stored as they were loaded, with the new one; the switch is
\* written if it was off and all keys are there.
RegisterSave(r) ==
    /\ At(r, "register", "save")
    /\ keys' = IF chat.there THEN req[r].keys ELSE keys
    /\ secret' = (secret \/ (chat.there /\ chat.members \subseteq req[r].keys /\ ~req[r].secret))
    /\ Done(r)
    /\ UNCHANGED <<chat, msg, sent, last, caller, ask, stale, raced>>

Disable(r, u) ==
    /\ Finds(u) /\ ~chat.group
    /\ Accept(r, [Begin("disable", u, "save") EXCEPT !.secret = secret])
    /\ UNCHANGED <<chat, msg, sent, last, keys, secret, caller, ask, stale>>

DisableSave(r) ==
    /\ At(r, "disable", "save")
    /\ keys' = IF chat.there THEN {} ELSE keys
    /\ secret' = (secret /\ ~(chat.there /\ req[r].secret))
    /\ Done(r)
    /\ UNCHANGED <<chat, msg, sent, last, caller, ask, stale, raced>>

-----------------------------------------------------------------------------
(* startVideoCall, endVideoCall, requestJoin, respondToJoinRequest *)

Dropped == [a \in Asks |-> IF ask[a].status = "new" THEN ask[a] ELSE [status |-> "dropped", by |-> Nobody]]
Listed(a) == ask[a].status \in {"pending", "approved", "rejected"}

StartCall(r, u) ==
    /\ Finds(u)
    /\ Accept(r, Begin("start", u, "save"))
    /\ UNCHANGED <<chat, msg, sent, last, keys, secret, caller, ask, stale>>

StartSave_Bug(r) ==                                       \* the old requests stay
    /\ At(r, "start", "save")
    /\ IF chat.there THEN caller' = req[r].user ELSE UNCHANGED caller
    /\ Done(r)
    /\ UNCHANGED <<chat, msg, sent, last, keys, secret, ask, stale, raced>>
StartSave(r) ==
    /\ At(r, "start", "save")
    /\ IF chat.there THEN caller' = req[r].user /\ ask' = Dropped ELSE UNCHANGED <<caller, ask>>
    /\ Done(r)
    /\ UNCHANGED <<chat, msg, sent, last, keys, secret, stale, raced>>

EndCall(r, u) ==
    /\ chat.there /\ caller = u
    /\ Accept(r, Begin("end", u, "save"))
    /\ UNCHANGED <<chat, msg, sent, last, keys, secret, caller, ask, stale>>

\* Whoever's call is on by now is ended.
EndSave(r) ==
    /\ At(r, "end", "save")
    /\ IF chat.there THEN caller' = Nobody /\ ask' = Dropped ELSE UNCHANGED <<caller, ask>>
    /\ Done(r)
    /\ UNCHANGED <<chat, msg, sent, last, keys, secret, stale, raced>>

AskJoin(r, a) ==
    /\ chat.there /\ caller # Nobody /\ ask[a].status = "new" /\ \A q \in Requests : req[q].ask # a
    /\ Accept(r, [Begin("ask", Owner, "save") EXCEPT !.ask = a])
    /\ UNCHANGED <<chat, msg, sent, last, keys, secret, caller, ask, stale>>

AskSave(r) ==
    /\ At(r, "ask", "save")
    /\ ask' = IF chat.there THEN [ask EXCEPT ![req[r].ask].status = "pending"] ELSE ask
    /\ Done(r)
    /\ UNCHANGED <<chat, msg, sent, last, keys, secret, caller, stale, raced>>

Respond(r, u, a, yes) ==
    /\ chat.there /\ caller = u /\ Listed(a)
    /\ Accept(r, [Begin("respond", u, "save") EXCEPT !.ask = a, !.yes = yes])
    /\ UNCHANGED <<chat, msg, sent, last, keys, secret, caller, ask, stale>>

\* Only a request that is on the list still is found and answered.
RespondSave(r) ==
    /\ At(r, "respond", "save")
    /\ LET a == req[r].ask
       IN ask' = IF ~chat.there \/ ~Listed(a) THEN ask
                 ELSE [ask EXCEPT ![a] = [status |-> IF req[r].yes THEN "approved" ELSE "rejected",
                                          by |-> req[r].user]]
    /\ Done(r)
    /\ UNCHANGED <<chat, msg, sent, last, keys, secret, caller, stale, raced>>

-----------------------------------------------------------------------------
Next ==
    \/ \E r \in Requests, u \in Users :
         \E members \in (SUBSET Users) \cup {Unchanged}, admins \in AdminLists \cup {Unchanged} :
            Edit(r, u, members, admins)
    \/ \E r \in Requests, u \in Users : Join(r, u) \/ Leave(r, u) \/ Remove(r, u)
    \/ \E r \in Requests : EditSave(r) \/ JoinSave(r) \/ LeaveSave(r)
    \/ \E r \in Requests : RemoveMessages(r) \/ RemoveChat(r)
    \/ \E r \in Requests, u \in Users : Send(r, u) \/ \E n \in Numbers : Erase(r, u, n) \/ Rewrite(r, u, n)
    \/ \E r \in Requests : SendCreate(r) \/ Preview(r)
    \/ \E r \in Requests : EraseChecked(r) \/ EraseSave(r) \/ EraseFind(r)
    \/ \E r \in Requests : RewriteChecked(r) \/ RewriteSave(r)
    \/ \E r \in Requests, u \in Users : Register(r, u) \/ Disable(r, u)
    \/ \E r \in Requests : RegisterSave(r) \/ DisableSave(r)
    \/ \E r \in Requests, u \in Users : StartCall(r, u) \/ EndCall(r, u)
    \/ \E r \in Requests, a \in Asks : AskJoin(r, a)
    \/ \E r \in Requests, u \in Users, a \in Asks, yes \in BOOLEAN : Respond(r, u, a, yes)
    \/ \E r \in Requests : StartSave(r) \/ EndSave(r) \/ AskSave(r) \/ RespondSave(r)
    \/ \E r \in Requests : Cut(r)

Spec == Init /\ [][Next]_vars

-----------------------------------------------------------------------------
(* Properties *)

\* Whoever is an admin of a group is a member of it, whichever edits, joins and
\* departures overlap: the two lists are always stored together and never over
\* a version that was not loaded.
AdminsAreMembers == chat.there => DOMAIN chat.admins \subseteq chat.members

\* What an edit changes, its author may change by the chat that it changes, not
\* only by the one it was decided on: a permission withdrawn, or a member put
\* out, while the edit waited is respected.
ChangeAuthorised(u) ==
    LET added == chat'.members \ chat.members
        removed == chat.members \ chat'.members
    IN /\ u \in chat.members
       /\ chat'.admins # chat.admins => May(u, "add_admins", chat.admins)
       /\ added \subseteq DOMAIN chat'.admins \/ May(u, "add_members", chat.admins)
       /\ removed \subseteq {u} \/ May(u, "remove_members", chat.admins)
EditsAuthorised ==
    [][\A r \in Requests :
         At(r, "edit", "save") /\ req'[r] = Idle /\ chat' # chat => ChangeAuthorised(req[r].user)]_vars

\* A preview is the newest message's, in its present words or in outdated ones.
Outdated == Newest \in stale
Current(text) == text.n = Newest /\ (Outdated \/ text = NewestText)

\* The preview of the chat is the text of its newest message that is not deleted,
\* and that text is current unless the message has been edited since it was taken:
\* an edit never touches the preview, which goes on showing what the sender has
\* taken back until a message is sent or deleted.  Nothing is promised once a
\* sending and a deletion, or two of them, overlapped or were cut short: the
\* preview is stored in a call of its own, from what was found before.
PreviewFollows ==
    chat.there /\ "messages" \notin raced /\ ~Busy({"send", "erase", "remove"}) => Current(last)

\* What the sender of a deleted message wrote is never shown again, though an
\* edit that was under way stores it anew: replies that quote it show the
\* placeholder, or a ciphertext.
DeletedNotQuoted == \A n \in Numbers : msg[n].there /\ msg[n].deleted => Quote(n) # "text"

\* Whoever has been approved for the call that is on, its creator has approved:
\* answers that are late meet the list of another call, or none.
ApprovedByCallCreator ==
    chat.there => \A a \in Asks : ask[a].status = "approved" => ask[a].by = caller
=============================================================================

------------------------------ MODULE Flashcards ------------------------------
(***************************************************************************)
(* Flashcards (arena/arena.service.ts): one deck and one folder, both of   *)
(* one creator, the people who join and leave them, and what each learner  *)
(* has reached by the SuperMemo-2 rule.  Each action is one awaited        *)
(* database call with the synchronous code around it.  A save() writes the *)
(* fields that the holder changed.  Storing a whole array also compares    *)
(* the version of the document and raises it, pushing to one raises it     *)
(* without comparing, and updateMany leaves it alone.  All cards of a deck *)
(* behave alike, so one stands for them; its name is the edition of the    *)
(* deck, because every update gives all cards new ids.  The names that     *)
(* every specification has begin with Cards here, so that a module can     *)
(* extend this one together with ArenaBattle.                              *)
(***************************************************************************)
EXTENDS Naturals, Integers, FiniteSets

CONSTANTS
    Users,
    Creator,      \* who created the deck and the folder
    Slugs,        \* short names that links are made of
    NoSlug,       \* a deck from before there were slugs
    MaxEdition,   \* updates of the deck (a bound)
    MaxReviews,   \* reviews accepted (a bound)
    Requests      \* requests under way at the same time (a bound)

ASSUME CardsAssumption ==
    /\ Creator \in Users /\ NoSlug \notin Slugs
    /\ MaxEdition \in Nat \ {0} /\ MaxReviews \in Nat

VARIABLES
    deck,      \* the document, but for its slug
    slug,      \* urlSlug of the deck
    folder,    \* the document of the folder
    progress,  \* the rows of FlashcardProgress, by user and edition
    reviews,   \* reviews accepted (for the bound)
    req,       \* the requests under way
    raced      \* what has been written by requests that overlapped (history)

cardsVars == <<deck, slug, folder, progress, reviews, req, raced>>

\* How often each user is in the array of members.
Members == [Users -> Nat]
States == {"new", "there", "gone"}
Deck == [state : States, inFolder : BOOLEAN, edition : 1 .. MaxEdition, members : Members]
Folder == [state : States, members : Members]
Editions == 1 .. MaxEdition

\* ease: easeFactor in hundredths.
Row == [there : BOOLEAN, ease : Nat, interval : Nat, repetitions : Nat]
NoRow == [there |-> FALSE, ease |-> 250, interval |-> 0, repetitions |-> 0]

Ops == {"idle", "create", "update", "delete", "createFolder", "deleteFolder", "joinDeck",
        "leaveDeck", "joinFolder", "leaveFolder", "review", "view"}
Stages == {"folder", "slug", "save", "find", "cleanup", "drop"}

\* inFolder: where the deck is going to be; was: where it was when it was loaded,
\* or whether the user was a member then; bare: it was loaded without a slug;
\* slug: the one the holder made; members: the array to store; row, next: the row
\* as loaded and to store; fresh: no save has raised the version of the document
\* since it was loaded.
Request ==
    [op : Ops, at : Stages, user : Users, inFolder : BOOLEAN, was : BOOLEAN, bare : BOOLEAN, slug : Slugs \cup {NoSlug},
     edition : Editions, members : Members, row : Row, next : Row, fresh : BOOLEAN]

Topics == {"members", "progress"}
CardsTypeOK ==
    /\ deck \in Deck /\ slug \in Slugs \cup {NoSlug}
    /\ folder \in Folder
    /\ progress \in [Users -> [Editions -> Row]]
    /\ reviews \in 0 .. MaxReviews
    /\ req \in [Requests -> Request]
    /\ raced \subseteq Topics

Nobody == [u \in Users |-> 0]
Idle ==
    [op |-> "idle", at |-> "find", user |-> Creator, inFolder |-> FALSE, was |-> FALSE, bare |-> FALSE, slug |-> NoSlug,
     edition |-> 1, members |-> Nobody, row |-> NoRow, next |-> NoRow, fresh |-> FALSE]

\* The deck may be an old one, which has no slug.
CardsInit ==
    /\ \E state \in {"new", "there"} :
         /\ deck = [state |-> state, inFolder |-> FALSE, edition |-> 1, members |-> Nobody]
         /\ slug \in IF state = "new" THEN {NoSlug} ELSE Slugs \cup {NoSlug}
    /\ folder = [state |-> "new", members |-> Nobody]
    /\ progress = [u \in Users |-> [e \in Editions |-> NoRow]]
    /\ reviews = 0
    /\ req = [r \in Requests |-> Idle]
    /\ raced = {}

-----------------------------------------------------------------------------
(* A definition whose name ends in _Bug is the definition of that name with a   *)
(* plausible mistake seeded in it; the checks confirm that a property notices.  *)

Busy(ops) == \E r \in Requests : req[r].op \in ops
BusyOf(u, ops) == \E r \in Requests : req[r].op \in ops /\ req[r].user = u

\* What is raced for when op is accepted.  Only the pairs count that the
\* versions of the documents do not keep apart.
Clash(op, u) ==
    {t \in Topics :
        \/ /\ t = "members"
           /\ \/ op = "leaveDeck" /\ Busy({"joinFolder", "leaveFolder"})
              \/ op \in {"joinFolder", "leaveFolder"} /\ Busy({"leaveDeck"})
              \/ op \in {"joinDeck", "joinFolder"} /\ BusyOf(u, {"joinDeck", "joinFolder"})
        \/ /\ t = "progress"
           /\ \/ op = "review" /\ (Busy({"delete"}) \/ BusyOf(u, {"review"}))
              \/ op = "delete" /\ Busy({"review"})}

Begin(op, u, at) == [Idle EXCEPT !.op = op, !.user = u, !.at = at, !.fresh = TRUE]
Accept(r, request) ==
    /\ req[r].op = "idle"
    /\ req' = [req EXCEPT ![r] = request]
    /\ raced' = raced \cup Clash(request.op, request.user)
At(r, op, at) == req[r].op = op /\ req[r].at = at
Goto(r, at) == req' = [req EXCEPT ![r].at = at]
Done(r) == req' = [req EXCEPT ![r] = Idle]

\* The request goes on, and the copies of the same document are outdated.
Raising(r, ops, request) ==
    req' = [q \in Requests |->
              IF q = r THEN request
              ELSE IF req[q].op \in ops THEN [req[q] EXCEPT !.fresh = FALSE] ELSE req[q]]
OfDeck == {"update", "joinDeck", "leaveDeck"}
OfFolder == {"joinFolder", "leaveFolder"}

There == deck.state = "there"
With(members, u) == [members EXCEPT ![u] = @ + 1]
Without(members, u) == [members EXCEPT ![u] = 0]

\* An error in the middle of a request, or the end of the process.
Cut(r) ==
    /\ req[r].op # "idle"
    /\ Done(r)
    /\ UNCHANGED <<deck, slug, folder, progress, reviews, raced>>

-----------------------------------------------------------------------------
(* createFlashcardDeck, updateFlashcardDeck, deleteFlashcardDeck *)

\* ensureOwnedFlashcardFolder
Owned(inFolder) == inFolder => folder.state = "there"

CreateDeck(r, inFolder) ==
    /\ deck.state = "new" /\ Owned(inFolder)
    /\ Accept(r, [Begin("create", Creator, "save") EXCEPT !.inFolder = inFolder])
    /\ UNCHANGED <<deck, slug, folder, progress, reviews>>

CreateDeckSave(r) ==
    /\ At(r, "create", "save") /\ deck.state = "new"
    /\ deck' = [deck EXCEPT !.state = "there", !.inFolder = req[r].inFolder]
    /\ slug' \in Slugs
    /\ Done(r)
    /\ UNCHANGED <<folder, progress, reviews, raced>>

UpdateDeck(r, inFolder) ==
    /\ There /\ deck.edition < MaxEdition
    /\ Accept(r, [Begin("update", Creator, "folder") EXCEPT
                    !.inFolder = inFolder, !.was = deck.inFolder, !.bare = slug = NoSlug])
    /\ UNCHANGED <<deck, slug, folder, progress, reviews>>

UpdateDeckFolder(r) ==
    /\ At(r, "update", "folder")
    /\ IF Owned(req[r].inFolder)
       THEN Goto(r, IF req[r].bare THEN "slug" ELSE "save") ELSE Done(r)
    /\ UNCHANGED <<deck, slug, folder, progress, reviews, raced>>

\* ensureFlashcardDeckSlug: the deck gets the new slug if it has none yet; the
\* holder of the document has the new slug in any case.
EnsureSlug(s) == IF There /\ slug = NoSlug THEN s ELSE slug

UpdateDeckSlug(r) ==
    /\ At(r, "update", "slug")
    /\ \E s \in Slugs :
         /\ slug' = EnsureSlug(s)
         /\ req' = [req EXCEPT ![r].at = "save", ![r].slug = s]
    /\ UNCHANGED <<deck, folder, progress, reviews, raced>>

\* The slug is stored once more if the holder has made it, and so is the folder
\* if it has changed.
Placed(r) == IF req[r].inFolder = req[r].was THEN deck.inFolder ELSE req[r].inFolder
UpdateDeckSave(r) ==
    /\ At(r, "update", "save")
    /\ IF There /\ req[r].fresh /\ deck.edition < MaxEdition
       THEN /\ deck' = [deck EXCEPT !.inFolder = Placed(r), !.edition = @ + 1]
            /\ slug' = IF req[r].bare THEN req[r].slug ELSE slug
            /\ Raising(r, OfDeck, Idle)
       ELSE Done(r) /\ UNCHANGED <<deck, slug>>
    /\ UNCHANGED <<folder, progress, reviews, raced>>

DeleteDeck(r) ==
    /\ There
    /\ Accept(r, Begin("delete", Creator, "cleanup"))
    /\ UNCHANGED <<deck, slug, folder, progress, reviews>>

DeleteDeckProgress_Bug(r) ==                              \* only the current cards
    /\ At(r, "delete", "cleanup")
    /\ progress' = [u \in Users |-> [progress[u] EXCEPT ![deck.edition] = NoRow]]
    /\ Goto(r, "drop")
    /\ UNCHANGED <<deck, slug, folder, reviews, raced>>
DeleteDeckProgress(r) ==
    /\ At(r, "delete", "cleanup")
    /\ progress' = [u \in Users |-> [e \in Editions |-> NoRow]]
    /\ Goto(r, "drop")
    /\ UNCHANGED <<deck, slug, folder, reviews, raced>>

DeleteDeckDocument(r) ==
    /\ At(r, "delete", "drop")
    /\ deck' = [deck EXCEPT !.state = "gone"]
    /\ Done(r)
    /\ UNCHANGED <<slug, folder, progress, reviews, raced>>

\* Every way of reading the deck gives an old one a slug.
ViewDeck(r) ==
    /\ There /\ slug = NoSlug
    /\ Accept(r, Begin("view", Creator, "slug"))
    /\ UNCHANGED <<deck, slug, folder, progress, reviews>>

ViewDeckSlug(r) ==
    /\ At(r, "view", "slug")
    /\ \E s \in Slugs : slug' = EnsureSlug(s)
    /\ Done(r)
    /\ UNCHANGED <<deck, folder, progress, reviews, raced>>

-----------------------------------------------------------------------------
(* createFlashcardFolder, deleteFlashcardFolder *)

CreateFolder(r) ==
    /\ folder.state = "new"
    /\ Accept(r, Begin("createFolder", Creator, "save"))
    /\ UNCHANGED <<deck, slug, folder, progress, reviews>>

CreateFolderSave(r) ==
    /\ At(r, "createFolder", "save") /\ folder.state = "new"
    /\ folder' = [folder EXCEPT !.state = "there"]
    /\ Done(r)
    /\ UNCHANGED <<deck, slug, progress, reviews, raced>>

DeleteFolder(r) ==
    /\ folder.state = "there"
    /\ Accept(r, Begin("deleteFolder", Creator, "cleanup"))
    /\ UNCHANGED <<deck, slug, folder, progress, reviews>>

DeleteFolderDecks(r) ==
    /\ At(r, "deleteFolder", "cleanup")
    /\ deck' = [deck EXCEPT !.inFolder = FALSE]
    /\ Goto(r, "drop")
    /\ UNCHANGED <<slug, folder, progress, reviews, raced>>

DeleteFolderDocument(r) ==
    /\ At(r, "deleteFolder", "drop")
    /\ folder' = [folder EXCEPT !.state = "gone"]
    /\ Done(r)
    /\ UNCHANGED <<deck, slug, progress, reviews, raced>>

-----------------------------------------------------------------------------
(* joinFlashcardDeck, leaveFlashcardDeck *)

JoinDeck(r, u) ==
    /\ There /\ u # Creator /\ deck.members[u] = 0
    /\ Accept(r, Begin("joinDeck", u, "save"))
    /\ UNCHANGED <<deck, slug, folder, progress, reviews>>

JoinDeckSave(r) ==
    /\ At(r, "joinDeck", "save")
    /\ IF There
       THEN /\ deck' = [deck EXCEPT !.members = With(deck.members, req[r].user)]
            /\ Raising(r, OfDeck, Idle)
       ELSE Done(r) /\ UNCHANGED deck
    /\ UNCHANGED <<slug, folder, progress, reviews, raced>>

LeaveDeck(r, u) ==
    /\ There /\ u # Creator
    /\ Accept(r, [Begin("leaveDeck", u, "cleanup") EXCEPT !.members = Without(deck.members, u),
                                                          !.was = deck.members[u] > 0])
    /\ UNCHANGED <<deck, slug, folder, progress, reviews>>

LeaveDeckProgress(r) ==
    /\ At(r, "leaveDeck", "cleanup")
    /\ progress' = [progress EXCEPT ![req[r].user] = [e \in Editions |-> NoRow]]
    /\ Goto(r, "save")
    /\ UNCHANGED <<deck, slug, folder, reviews, raced>>

\* Whoever was no member changes nothing.
LeaveDeckSave_Bug(r) ==                                   \* the version is not compared
    /\ At(r, "leaveDeck", "save")
    /\ IF There /\ req[r].was
       THEN /\ deck' = [deck EXCEPT !.members = req[r].members]
            /\ Raising(r, OfDeck, Idle)
       ELSE Done(r) /\ UNCHANGED deck
    /\ UNCHANGED <<slug, folder, progress, reviews, raced>>
LeaveDeckSave(r) ==
    /\ At(r, "leaveDeck", "save")
    /\ IF There /\ req[r].was /\ req[r].fresh
       THEN /\ deck' = [deck EXCEPT !.members = req[r].members]
            /\ Raising(r, OfDeck, Idle)
       ELSE Done(r) /\ UNCHANGED deck
    /\ UNCHANGED <<slug, folder, progress, reviews, raced>>

-----------------------------------------------------------------------------
(* joinFlashcardFolder, leaveFlashcardFolder *)

JoinFolder(r, u) ==
    /\ folder.state = "there"
    /\ Accept(r, Begin("joinFolder", u,
                       IF u = Creator \/ folder.members[u] > 0 THEN "cleanup" ELSE "save"))
    /\ UNCHANGED <<deck, slug, folder, progress, reviews>>

JoinFolderSave(r) ==
    /\ At(r, "joinFolder", "save")
    /\ IF folder.state = "there"
       THEN /\ folder' = [folder EXCEPT !.members = With(folder.members, req[r].user)]
            /\ Raising(r, OfFolder, [req[r] EXCEPT !.at = "cleanup"])
       ELSE Done(r) /\ UNCHANGED folder
    /\ UNCHANGED <<deck, slug, progress, reviews, raced>>

\* Whoever joins the folder joins the decks in it, where he is not a member yet.
JoinFolderDecks(r) ==
    /\ At(r, "joinFolder", "cleanup")
    /\ LET u == req[r].user
       IN deck' = IF There /\ deck.inFolder /\ u # Creator /\ deck.members[u] = 0
                  THEN [deck EXCEPT !.members = With(deck.members, u)] ELSE deck
    /\ Done(r)
    /\ UNCHANGED <<slug, folder, progress, reviews, raced>>

LeaveFolder(r, u) ==
    /\ folder.state = "there" /\ u # Creator
    /\ Accept(r, [Begin("leaveFolder", u, "save") EXCEPT !.members = Without(folder.members, u),
                                                         !.was = folder.members[u] > 0])
    /\ UNCHANGED <<deck, slug, folder, progress, reviews>>

LeaveFolderSave(r) ==
    /\ At(r, "leaveFolder", "save")
    /\ \/ /\ folder.state = "there" /\ req[r].was /\ req[r].fresh
          /\ folder' = [folder EXCEPT !.members = req[r].members]
          /\ Raising(r, OfFolder, [req[r] EXCEPT !.at = "find"])
       \/ folder.state = "there" /\ ~req[r].was /\ Goto(r, "find") /\ UNCHANGED folder
       \/ (folder.state = "there" => req[r].was /\ ~req[r].fresh) /\ Done(r) /\ UNCHANGED folder
    /\ UNCHANGED <<deck, slug, progress, reviews, raced>>

LeaveFolderFind(r) ==
    /\ At(r, "leaveFolder", "find")
    /\ IF There /\ deck.inFolder THEN Goto(r, "cleanup") ELSE Done(r)
    /\ UNCHANGED <<deck, slug, folder, progress, reviews, raced>>

LeaveFolderDecks(r) ==
    /\ At(r, "leaveFolder", "cleanup")
    /\ deck' = IF There THEN [deck EXCEPT !.members = Without(deck.members, req[r].user)] ELSE deck
    /\ Goto(r, "drop")
    /\ UNCHANGED <<slug, folder, progress, reviews, raced>>

LeaveFolderProgress(r) ==
    /\ At(r, "leaveFolder", "drop")
    /\ progress' = [progress EXCEPT ![req[r].user] = [e \in Editions |-> NoRow]]
    /\ Done(r)
    /\ UNCHANGED <<deck, slug, folder, reviews, raced>>

-----------------------------------------------------------------------------
(* reviewFlashcard *)

\* SuperMemo-2, for a quality of 0, 2, 4 or 5; the ease never falls below 1.3.
Eased(ease, quality) ==
    LET change == CASE quality = 0 -> -80 [] quality = 2 -> -32 [] quality = 4 -> 0 [] quality = 5 -> 10
    IN IF ease + change < 130 THEN 130 ELSE ease + change

Passed(quality) == quality >= 3
Interval(row) ==
    CASE row.repetitions = 0 -> 1
      [] row.repetitions = 1 -> 6
      [] OTHER -> (row.interval * row.ease + 50) \div 100
Reviewed(row, quality) ==
    [there |-> TRUE, ease |-> Eased(row.ease, quality),
     interval |-> IF Passed(quality) THEN Interval(row) ELSE 1,
     repetitions |-> IF Passed(quality) THEN row.repetitions + 1 ELSE 0]

\* Anybody who has the deck may review its cards.
Review(r, u) ==
    /\ There /\ reviews < MaxReviews
    /\ reviews' = reviews + 1
    /\ Accept(r, [Begin("review", u, "find") EXCEPT !.edition = deck.edition])
    /\ UNCHANGED <<deck, slug, folder, progress>>

ReviewFind(r, quality) ==
    /\ At(r, "review", "find")
    /\ LET row == progress[req[r].user][req[r].edition]
       IN req' = [req EXCEPT ![r].at = "save", ![r].row = row, ![r].next = Reviewed(row, quality)]
    /\ UNCHANGED <<deck, slug, folder, progress, reviews, raced>>

\* A new row is refused if there is one by now; of an old one the fields are
\* written that the review changed, if it is still there.
Merged(row, loaded, next) ==
    [there |-> TRUE,
     ease |-> IF next.ease = loaded.ease THEN row.ease ELSE next.ease,
     interval |-> IF next.interval = loaded.interval THEN row.interval ELSE next.interval,
     repetitions |-> IF next.repetitions = loaded.repetitions THEN row.repetitions ELSE next.repetitions]
ReviewSave(r) ==
    /\ At(r, "review", "save")
    /\ LET u == req[r].user  e == req[r].edition  row == progress[u][e]
       IN progress' =
            IF row.there # req[r].row.there THEN progress
            ELSE [progress EXCEPT ![u][e] =
                    IF row.there THEN Merged(row, req[r].row, req[r].next) ELSE req[r].next]
    /\ Done(r)
    /\ UNCHANGED <<deck, slug, folder, reviews, raced>>

-----------------------------------------------------------------------------
CardsNext ==
    \/ \E r \in Requests, inFolder \in BOOLEAN : CreateDeck(r, inFolder) \/ UpdateDeck(r, inFolder)
    \/ \E r \in Requests : CreateDeckSave(r) \/ UpdateDeckFolder(r) \/ UpdateDeckSlug(r) \/ UpdateDeckSave(r)
    \/ \E r \in Requests : DeleteDeck(r) \/ DeleteDeckProgress(r) \/ DeleteDeckDocument(r)
    \/ \E r \in Requests : ViewDeck(r) \/ ViewDeckSlug(r)
    \/ \E r \in Requests : CreateFolder(r) \/ CreateFolderSave(r)
    \/ \E r \in Requests : DeleteFolder(r) \/ DeleteFolderDecks(r) \/ DeleteFolderDocument(r)
    \/ \E r \in Requests, u \in Users : JoinDeck(r, u) \/ LeaveDeck(r, u) \/ JoinFolder(r, u) \/ LeaveFolder(r, u)
    \/ \E r \in Requests : JoinDeckSave(r) \/ LeaveDeckProgress(r) \/ LeaveDeckSave(r)
    \/ \E r \in Requests : JoinFolderSave(r) \/ JoinFolderDecks(r)
    \/ \E r \in Requests : LeaveFolderSave(r) \/ LeaveFolderFind(r) \/ LeaveFolderDecks(r) \/ LeaveFolderProgress(r)
    \/ \E r \in Requests, u \in Users : Review(r, u)
    \/ \E r \in Requests, quality \in {0, 2, 4, 5} : ReviewFind(r, quality)
    \/ \E r \in Requests : ReviewSave(r)
    \/ \E r \in Requests : Cut(r)

CardsSpec == CardsInit /\ [][CardsNext]_cardsVars

-----------------------------------------------------------------------------
(* Properties *)

\* Whether u joins or leaves by a request of his own in this step.
Joins(u, ops) == \E r \in Requests : req[r].user = u /\ req[r].op \in ops /\ req'[r] # req[r]

\* Nobody becomes a member, or stops being one, but by a request of his own to
\* join or leave, whatever other requests store their copies meanwhile.  Excepted
\* are a deck that somebody left while another joined or left its folder, which
\* updates the deck without raising its version, and one who joins twice at a time.
MembershipOwn ==
    [][\A u \in Users :
         /\ "members" \notin raced' /\ deck'.members[u] # deck.members[u] =>
              \/ deck'.members[u] = 1 /\ Joins(u, {"joinDeck", "joinFolder"})
              \/ deck'.members[u] = 0 /\ Joins(u, {"leaveDeck", "leaveFolder"})
         /\ "members" \notin raced' /\ folder'.members[u] # folder.members[u] =>
              \/ folder'.members[u] = 1 /\ Joins(u, {"joinFolder"})
              \/ folder'.members[u] = 0 /\ Joins(u, {"leaveFolder"})]_cardsVars

\* A deleted deck leaves no progress behind, also not that of cards of earlier
\* editions or of people who never joined, unless a review was under way.
NothingLearnedLeft ==
    deck.state = "gone" /\ "progress" \notin raced => \A u \in Users, e \in Editions : ~progress[u][e].there

=============================================================================

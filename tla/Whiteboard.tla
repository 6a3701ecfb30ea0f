----------------------------- MODULE Whiteboard -----------------------------
(***************************************************************************)
(* The whiteboard of one meeting room: who controls it, its tabs, the      *)
(* pages of its PDF tabs and its library of PDF files                      *)
(* (video/video.gateway.ts).  What is drawn on one page is DrawingHistory's*)
(* concern; here a drawing handler only reaches a page, or does not.  The  *)
(* handlers are synchronous but for the two that add a PDF, which await    *)
(* the tier of the user, and create-room, which awaits the lesson of the   *)
(* room.  Guests keep the room open, so it is never deleted.               *)
(***************************************************************************)
EXTENDS Naturals, FiniteSets, FiniteSetsExt

CONSTANTS
    Sockets,        \* of the one user who created the room
    NoSock,
    TabIds,         \* ids of PDF tabs and of library items, made by the client
    Board,          \* WHITEBOARD_BOARD_TAB_ID
    Files,          \* uploaded PDF files (fileUrl)
    SizeOf,         \* their sizes
    PageNumbers,
    Tiers,          \* premium states of the user
    PdfTabLimit,    \* APP_LIMITS.whiteboardPdfTabs
    BytesLimit,     \* APP_LIMITS.whiteboardPdfLibraryBytes
    MaxTabs,        \* WHITEBOARD_MAX_TABS
    MaxPages,       \* WHITEBOARD_MAX_PAGE_STATES
    MaxItems,       \* WHITEBOARD_MAX_LIBRARY_ITEMS
    Requests        \* adds under way at the same time (a bound)

ASSUME ConstantsAssumption ==
    /\ NoSock \notin Sockets /\ Tiers # {}
    /\ Board \notin TabIds      \* clients keep the id of the board tab to it
    /\ IsFiniteSet(TabIds) /\ IsFiniteSet(Files) /\ IsFiniteSet(PageNumbers)
    /\ PageNumbers \subseteq Nat \ {0}
    /\ SizeOf \in [Files -> Nat]
    /\ PdfTabLimit \in [Tiers -> Nat] /\ BytesLimit \in [Tiers -> Nat]
    /\ MaxTabs \in Nat \ {0} /\ MaxPages \in Nat \ {0} /\ MaxItems \in Nat \ {0}

VARIABLES
    host,       \* room.creatorSocketId
    seated,     \* the sockets of the creator that room.peers has
    joining,    \* sockets yet to be seated: create-room awaits the lesson, or they knock
    wb,         \* room.whiteboard
    adds        \* the pdf-add and library-add requests under way

vars == <<host, seated, joining, wb, adds>>

Item == [id : TabIds, file : Files]
\* pages: the page states of each open PDF tab
WhiteboardState ==
    [active : BOOLEAN, owner : Sockets \cup {NoSock}, tab : TabIds \cup {Board},
     pages : UNION {[T -> SUBSET PageNumbers] : T \in SUBSET TabIds},
     library : SUBSET Item]
NoAdd == [op |-> "none"]
Add == {NoAdd} \cup [op : {"tab", "library"}, sock : Sockets, item : Item]

TypeOK ==
    /\ host \in Sockets \cup {NoSock}
    /\ seated \subseteq Sockets /\ joining \subseteq Sockets
    /\ wb \in WhiteboardState
    /\ adds \in [Requests -> Add]

\* createDefaultWhiteboardState
Blank ==
    [active |-> FALSE, owner |-> NoSock, tab |-> Board,
     pages |-> [t \in {} |-> {}], library |-> {}]

Init ==
    /\ host \in Sockets /\ seated = {host} /\ joining = {}
    /\ wb = Blank
    /\ adds = [r \in Requests |-> NoAdd]

-----------------------------------------------------------------------------
(* A definition whose name ends in _Bug is the definition of that name with a   *)
(* plausible mistake seeded in it; the checks confirm that a property notices.  *)

PdfTabs == DOMAIN wb.pages

\* getWhiteboardTab(...) || getWhiteboardBoardTab: a tab that is not there is the board.
TabOf(t) == IF t \in PdfTabs THEN t ELSE Board

\* canManageWhiteboard
CanManage_Bug(s) == s \in seated /\ host \in {s, NoSock}    \* an empty chair is anyone's
CanManage(s) == host = s /\ s \in seated

\* replaceExistingPeerSocket, the whiteboard's part: it is its user's on any socket.
Inherited(s) == IF wb.owner = NoSock THEN wb ELSE [wb EXCEPT !.owner = s]

-----------------------------------------------------------------------------
(* Who controls the room *)

\* create-room for the room that exists: control first, the seat after the await.
CreateRoom(s) ==
    /\ host' = s
    /\ joining' = joining \cup {s}
    /\ IF seated \ {s} = {}
       THEN UNCHANGED <<seated, wb>>
       ELSE \E old \in seated \ {s} : seated' = seated \ {old} /\ wb' = Inherited(s)
    /\ UNCHANGED adds

Seat(s) ==
    /\ s \in joining
    /\ joining' = joining \ {s}
    /\ seated' = seated \cup {s}
    /\ UNCHANGED <<host, wb, adds>>

\* join-room: control moves only with the seat it is tied to; the new socket may be
\* turned away (a full room) or have to knock (a private one).
JoinRoom(s) ==
    /\ s \notin seated
    /\ \E old \in IF seated = {} THEN {NoSock} ELSE seated :
         /\ \/ seated' = seated \ {old} /\ joining' \in {joining, joining \cup {s}}
            \/ seated' = (seated \ {old}) \cup {s} /\ UNCHANGED joining
         /\ host' = IF old # NoSock /\ host = old THEN s ELSE host
         /\ wb' = IF old = NoSock THEN wb ELSE Inherited(s)
    /\ UNCHANGED adds

\* removePeerFromRoom (leave-room, or the end of the grace of a lost connection)
Leave(s) ==
    /\ s \in seated
    /\ seated' = seated \ {s}
    /\ IF host = s THEN host' = NoSock /\ wb' = Blank ELSE UNCHANGED <<host, wb>>
    /\ UNCHANGED <<joining, adds>>

-----------------------------------------------------------------------------
(* The host's handlers *)

Control == UNCHANGED <<host, seated, joining, adds>>

Start(s) ==
    /\ CanManage(s)
    /\ wb' = [wb EXCEPT !.active = TRUE, !.owner = s]
    /\ Control

Stop(s) ==
    /\ CanManage(s)
    /\ wb' = [wb EXCEPT !.active = FALSE, !.owner = s]
    /\ Control

\* Open while the whiteboard is stopped, too; leaves the tab shown alone.
Clear(s, t, p) ==
    /\ CanManage(s)
    /\ TabOf(t) # Board => p \in wb.pages[t]
    /\ wb' = [wb EXCEPT !.owner = s]
    /\ Control

TabActivate(s, t) ==
    /\ CanManage(s)
    /\ t \in {Board} \cup PdfTabs
    /\ wb' = [wb EXCEPT !.active = TRUE, !.tab = t, !.owner = s]
    /\ Control

TabRemove(s, t) ==
    /\ CanManage(s)
    /\ t \in PdfTabs
    /\ wb' = [wb EXCEPT !.pages = [u \in PdfTabs \ {t} |-> wb.pages[u]],
                        !.tab = IF @ = t THEN Board ELSE @,
                        !.owner = s]
    /\ Control

PdfViewport(s, t) ==
    /\ CanManage(s) /\ wb.active
    /\ t \in PdfTabs
    /\ wb' = [wb EXCEPT !.tab = t, !.owner = s]
    /\ Control

BoardZoom(s, t) ==
    /\ CanManage(s) /\ wb.active
    /\ TabOf(t) = Board
    /\ wb' = [wb EXCEPT !.tab = Board, !.owner = s]
    /\ Control

\* getWhiteboardPdfPage(..., true): beyond the cap the lowest pages go, which may be
\* the page that was just made.
Paged(pages, p) ==
    LET all == pages \cup {p} IN
    IF Cardinality(all) <= MaxPages THEN all ELSE all \ {Min(all)}

\* whiteboard-stroke-start.  The lock of the tab is taken and released within the
\* handler, which nothing interrupts.
StrokeStart(s, t, p) ==
    /\ CanManage(s) /\ wb.active
    /\ wb' = [wb EXCEPT !.tab = TabOf(t), !.owner = s,
                        !.pages = [u \in PdfTabs |-> IF u = t THEN Paged(@[u], p) ELSE @[u]]]
    /\ Control

\* -stroke-append, -stroke-remove, -stroke-update, -undo and -redo of what is there
StrokeChange(s, t, p) ==
    /\ CanManage(s) /\ wb.active
    /\ TabOf(t) # Board => p \in wb.pages[t]
    /\ wb' = [wb EXCEPT !.tab = TabOf(t), !.owner = s]
    /\ Control

-----------------------------------------------------------------------------
(* Adding a PDF *)

\* Up to the await of getSocketPremiumStatus
AskTier(r, s, op, item) ==
    /\ adds[r].op = "none"
    /\ CanManage(s)
    /\ adds' = [adds EXCEPT ![r] = [op |-> op, sock |-> s, item |-> item]]
    /\ UNCHANGED <<host, seated, joining, wb>>

Others(item) == {i \in wb.library : i.id # item.id /\ i.file # item.file}

Bytes(items) == MapThenSumSet(LAMBDA i : SizeOf[i.file], items)

LibraryAccepts_Bug(item, tier) ==                           \* the new file is not counted
    Bytes(Others(item)) <= BytesLimit[tier]
LibraryAccepts(item, tier) ==
    Bytes(Others(item) \cup {item}) <= BytesLimit[tier]

\* upsertWhiteboardPdfLibraryItem: the newest are kept, by the times clients gave
Kept(item) ==
    LET all == Others(item) \cup {item} IN
    IF Cardinality(all) <= MaxItems THEN {all} ELSE kSubset(MaxItems, all)

Answer(r) ==
    /\ adds' = [adds EXCEPT ![r] = NoAdd]
    /\ UNCHANGED <<host, seated, joining>>

\* The rest of pdf-add, on the whiteboard as it is by then.  Nobody asks again
\* whether the socket still controls it.
TabFits(t, tier) ==
    LET n == Cardinality(PdfTabs \ {t}) IN n < PdfTabLimit[tier] /\ n < MaxTabs - 1

PdfAdd(r, tier) ==
    LET item == adds[r].item IN
    /\ adds[r].op = "tab"
    /\ TabFits(item.id, tier) /\ LibraryAccepts(item, tier)
    /\ \E kept \in Kept(item) :
         wb' = [active |-> TRUE, owner |-> adds[r].sock, tab |-> item.id,
                pages |-> [u \in PdfTabs \cup {item.id} |->
                             IF u = item.id THEN {} ELSE wb.pages[u]],
                library |-> kept]
    /\ Answer(r)

LibraryAdd(r, tier) ==
    LET item == adds[r].item IN
    /\ adds[r].op = "library"
    /\ LibraryAccepts(item, tier)
    /\ \E kept \in Kept(item) :
         wb' = [wb EXCEPT !.library = kept, !.owner = adds[r].sock]
    /\ Answer(r)

Refuse(r, tier) ==
    LET item == adds[r].item IN
    /\ adds[r].op # "none"
    /\ ~LibraryAccepts(item, tier) \/ (adds[r].op = "tab" /\ ~TabFits(item.id, tier))
    /\ Answer(r) /\ UNCHANGED wb

-----------------------------------------------------------------------------
Next ==
    \/ \E s \in Sockets :
         \/ CreateRoom(s) \/ Seat(s) \/ JoinRoom(s) \/ Leave(s)
         \/ Start(s) \/ Stop(s)
         \/ \E t \in TabIds \cup {Board} :
              \/ TabActivate(s, t) \/ TabRemove(s, t) \/ PdfViewport(s, t) \/ BoardZoom(s, t)
              \/ \E p \in PageNumbers :
                   Clear(s, t, p) \/ StrokeStart(s, t, p) \/ StrokeChange(s, t, p)
         \/ \E r \in Requests, op \in {"tab", "library"}, item \in Item : AskTier(r, s, op, item)
    \/ \E r \in Requests, tier \in Tiers :
         PdfAdd(r, tier) \/ LibraryAdd(r, tier) \/ Refuse(r, tier)

Spec == Init /\ [][Next]_vars

-----------------------------------------------------------------------------
(* Properties *)

TabsFit == \E tier \in Tiers : Cardinality(PdfTabs) <= PdfTabLimit[tier]
PagesFit == \A t \in PdfTabs : Cardinality(wb.pages[t]) <= MaxPages
ItemsDiffer == \A i, j \in wb.library : i.id = j.id \/ i.file = j.file => i = j
LibraryFits == \E tier \in Tiers : Bytes(wb.library) <= BytesLimit[tier]

\* However many adds overlap and whatever the tier each of them was told, the room
\* never has more PDF tabs or bytes of files than a tier buys, nor a tab more page
\* states than are kept, nor two library items of one id or one file.
LimitsHold == TabsFit /\ PagesFit /\ ItemsDiffer /\ LibraryFits

\* The tab everyone is shown is one of the whiteboard's, although tabs are added by
\* requests that were suspended while others were removed or the board was reset.
ActiveTabThere == wb.tab \in {Board} \cup PdfTabs

\* Once the creator is gone the whiteboard is left alone, but for the name its owner
\* goes by: only an add that was under way at the time still changes it.
UntouchedWithoutHost ==
    [][host = NoSock /\ [wb' EXCEPT !.owner = wb.owner] # wb
         => \E r \in Requests : adds[r].op # "none" /\ adds'[r].op = "none"]_vars
=============================================================================

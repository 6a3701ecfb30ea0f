----------------------------- MODULE Publication -----------------------------
(***************************************************************************)
(* One post (posts/posts.service.ts) or one article                        *)
(* (articles/articles.service.ts): its publication, its edits with the     *)
(* cleaning of the images they drop, its likes and views, its comments and *)
(* its deletion.  The two services have the same handlers with the same    *)
(* steps but for the places where `kind` is asked.  A handler is a chain   *)
(* of awaited database and storage calls; each action is one of them, so   *)
(* other requests run in between.  A save() writes the fields that the     *)
(* holder changed; replacing the array of a post's images also compares    *)
(* the version of the document, which every such save raises.              *)
(***************************************************************************)
EXTENDS Integers, FiniteSets

CONSTANTS
    Users,        \* who likes, views and comments
    Author,       \* who owns the publication
    Comments,     \* identities of comments; each is used once
    Images,       \* images that clients have uploaded
    Requests,     \* requests under way at the same time (a bound)
    CommentLimit, \* comments one user may have here (getTierLimit)
    NoComment     \* a comment that is not a reply; a request about no comment

ASSUME ConstantsAssumption ==
    /\ Author \in Users /\ NoComment \notin Comments /\ CommentLimit \in Nat
    /\ IsFiniteSet(Users) /\ IsFiniteSet(Comments) /\ IsFiniteSet(Requests)

VARIABLES
    kind,         \* "post" or "article"
    doc,          \* the document
    text,         \* the markdown object of an article: is it there, its images
    liked,        \* users whose engagement row says liked
    viewed,       \* users whose engagement row says viewed
    row,          \* the comment rows
    stored,       \* image objects in storage
    req,          \* the requests under way
    held,         \* uploads that no publication has used (history)
    stray,        \* images that were asked for to be deleted, or were submitted
                  \*   when neither shown nor held (history)
    raced         \* what has been written by requests that overlapped (history)

vars == <<kind, doc, text, liked, viewed, row, stored, req, held, stray, raced>>

\* images: those of a post; the cover of an article.
Document == [stage : {"none", "live", "deleted"}, likes : Int, views : Int,
             comments : Int, images : SUBSET Images]
Row == [stage : {"new", "there", "gone"}, user : Users, parent : Comments \cup {NoComment}]

Ops == {"idle", "create", "update", "delete", "like", "view", "comment", "uncomment"}
Stages == {"load", "find", "count", "write", "total", "read", "put", "save", "wipe", "clean"}

\* next: the value of `liked` to write; parent, comment: what the request is
\* about; n, seen: deletedCount and the commentsCount it is taken from;
\* images, body: the payload; old: assets that may have to be deleted; fresh: no
\* other save has raised the version of the document since it was loaded.
Request ==
    [op : Ops, at : Stages, user : Users, next : BOOLEAN,
     comment : Comments \cup {NoComment}, parent : Comments \cup {NoComment},
     n : Nat, seen : Int, copy : Document, images : SUBSET Images,
     body : SUBSET Images, old : SUBSET Images, fresh : BOOLEAN]

Topics == {"engagement", "comments", "images"}

TypeOK ==
    /\ kind \in {"post", "article"}
    /\ doc \in Document
    /\ text \in [there : BOOLEAN, images : SUBSET Images]
    /\ liked \subseteq Users /\ viewed \subseteq Users
    /\ row \in [Comments -> Row]
    /\ stored \subseteq Images /\ held \subseteq Images /\ stray \subseteq Images
    /\ req \in [Requests -> Request]
    /\ raced \subseteq Topics

Blank == [stage |-> "none", likes |-> 0, views |-> 0, comments |-> 0, images |-> {}]
Idle ==
    [op |-> "idle", at |-> "load", user |-> Author, next |-> FALSE,
     comment |-> NoComment, parent |-> NoComment, n |-> 0, seen |-> 0,
     copy |-> Blank, images |-> {}, body |-> {}, old |-> {}, fresh |-> FALSE]

Init ==
    /\ kind \in {"post", "article"}
    /\ doc = Blank
    /\ text = [there |-> FALSE, images |-> {}]
    /\ liked = {} /\ viewed = {}
    /\ row = [c \in Comments |-> [stage |-> "new", user |-> Author, parent |-> NoComment]]
    /\ stored = Images /\ held = Images /\ stray = {}
    /\ req = [r \in Requests |-> Idle]
    /\ raced = {}
-----------------------------------------------------------------------------
(* A definition whose name ends in _Bug is the definition of that name with a   *)
(* plausible mistake seeded in it; the checks confirm that a property notices.  *)

Live == doc.stage = "live"
Shown == doc.images \cup text.images
There == {c \in Comments : row[c].stage = "there"}
Busy(ops) == \E r \in Requests : req[r].op \in ops

\* What a request of u may spoil because another one is under way.
Clash(op, u) ==
    {t \in Topics :
        \/ /\ t = "engagement" /\ op \in {"like", "view"}
           /\ \E r \in Requests : req[r].op = op /\ req[r].user = u
        \/ t = "comments" /\ op = "comment" /\ Busy({"uncomment"})
        \/ t = "comments" /\ op = "uncomment" /\ Busy({"comment", "uncomment"})
        \/ t = "images" /\ op \in {"create", "update"} /\ Busy({"create", "update"})}

\* The handler has loaded the document and goes on at the given stage.
Begin(op, u, at) == [Idle EXCEPT !.op = op, !.user = u, !.at = at,
                             !.seen = IF op = "uncomment" THEN doc.comments ELSE 0]
Holding(op, at) ==
    [Begin(op, Author, at) EXCEPT !.copy = doc, !.old = doc.images, !.fresh = TRUE]

Accept(r, request) ==
    /\ req[r].op = "idle"
    /\ req' = [req EXCEPT ![r] = request]
    /\ raced' = raced \cup Clash(request.op, request.user)

At(r, op, at) == req[r].op = op /\ req[r].at = at
Goto(r, at) == req' = [req EXCEPT ![r].at = at]
Done(r) == req' = [req EXCEPT ![r] = Idle]

\* An error in the middle of a request, or the end of the process: what has
\* been written stays.
Cut(r) ==
    /\ req[r].op # "idle"
    /\ raced' = raced \cup
         (IF req[r].at # "total" THEN {}
          ELSE IF req[r].op \in {"like", "view"} THEN {"engagement"} ELSE {"comments"})
         \cup (IF req[r].op = "uncomment" /\ req[r].at = "read" THEN {"comments"} ELSE {})
    /\ Done(r)
    /\ UNCHANGED <<kind, doc, text, liked, viewed, row, stored, held, stray>>

-----------------------------------------------------------------------------
(* likePost, likeArticle, viewPost, viewArticle *)

React(r, op, u) ==
    /\ Live
    /\ Accept(r, Begin(op, u, "find"))
    /\ UNCHANGED <<kind, doc, text, liked, viewed, row, stored, held, stray>>

\* A like is turned round; a view that is there already ends the request.
ReactFind_Bug(r) ==                                       \* no look at the row
    /\ req[r].op \in {"like", "view"} /\ req[r].at = "find"
    /\ req' = [req EXCEPT ![r].at = "write", ![r].next = TRUE]
    /\ UNCHANGED <<kind, doc, text, liked, viewed, row, stored, held, raced, stray>>
ReactFind(r) ==
    /\ req[r].op \in {"like", "view"} /\ req[r].at = "find"
    /\ IF req[r].op = "view" /\ req[r].user \in viewed THEN Done(r)
       ELSE req' = [req EXCEPT ![r].at = "write",
                               ![r].next = req[r].op = "view" \/ req[r].user \notin liked]
    /\ UNCHANGED <<kind, doc, text, liked, viewed, row, stored, held, raced, stray>>

ReactWrite(r) ==
    /\ req[r].op \in {"like", "view"} /\ req[r].at = "write"
    /\ liked' = IF req[r].op = "view" THEN liked
                ELSE IF req[r].next THEN liked \cup {req[r].user} ELSE liked \ {req[r].user}
    /\ viewed' = IF req[r].op = "view" THEN viewed \cup {req[r].user} ELSE viewed
    /\ Goto(r, "total")
    /\ UNCHANGED <<kind, doc, text, row, stored, held, raced, stray>>

ReactTotal(r) ==
    /\ req[r].op \in {"like", "view"} /\ req[r].at = "total"
    /\ doc' = IF req[r].op = "view" THEN [doc EXCEPT !.views = @ + 1]
              ELSE [doc EXCEPT !.likes = IF req[r].next THEN @ + 1 ELSE @ - 1]
    /\ Done(r)
    /\ UNCHANGED <<kind, text, liked, viewed, row, stored, held, raced, stray>>

-----------------------------------------------------------------------------
(* addComment, addReply *)

Comment(r, u, parent) ==
    /\ Live
    /\ Accept(r, [Begin("comment", u, "find") EXCEPT !.parent = parent])
    /\ UNCHANGED <<kind, doc, text, liked, viewed, row, stored, held, stray>>

\* A reply needs a comment that is there and is not a reply; then the user's
\* comments are counted.
CommentFind(r) ==
    /\ At(r, "comment", "find")
    /\ LET p == req[r].parent
           own == {c \in There : row[c].user = req[r].user}
           ok == /\ p # NoComment => p \in There /\ row[p].parent = NoComment
                 /\ Cardinality(own) < CommentLimit
       IN IF ok THEN Goto(r, "write") ELSE Done(r)
    /\ UNCHANGED <<kind, doc, text, liked, viewed, row, stored, held, raced, stray>>

CommentWrite(r, c) ==
    /\ At(r, "comment", "write") /\ row[c].stage = "new"
    /\ row' = [row EXCEPT ![c] = [stage |-> "there", user |-> req[r].user, parent |-> req[r].parent]]
    /\ Goto(r, "total")
    /\ UNCHANGED <<kind, doc, text, liked, viewed, stored, held, raced, stray>>

CommentTotal(r) ==
    /\ At(r, "comment", "total")
    /\ doc' = [doc EXCEPT !.comments = @ + 1]
    /\ Done(r)
    /\ UNCHANGED <<kind, text, liked, viewed, row, stored, held, raced, stray>>

-----------------------------------------------------------------------------
(* deleteComment *)

Uncomment(r, u, c) ==
    /\ Live
    /\ Accept(r, [Begin("uncomment", u, "find") EXCEPT !.comment = c])
    /\ UNCHANGED <<kind, doc, text, liked, viewed, row, stored, held, stray>>

UncommentFind(r) ==
    /\ At(r, "uncomment", "find")
    /\ LET c == req[r].comment
       IN IF c \notin There \/ row[c].user # req[r].user THEN Done(r)
          ELSE IF row[c].parent = NoComment THEN Goto(r, "count")
          ELSE req' = [req EXCEPT ![r].at = "write", ![r].n = 1, ![r].parent = row[c].parent]
    /\ UNCHANGED <<kind, doc, text, liked, viewed, row, stored, held, raced, stray>>

Gone(c) == IF row[c].stage = "there" THEN [row[c] EXCEPT !.stage = "gone"] ELSE row[c]
Replies(c) == {d \in There : row[d].parent = c}

UncommentCount_Bug(r) ==                                  \* the replies are not counted
    /\ At(r, "uncomment", "count")
    /\ req' = [req EXCEPT ![r].at = "write", ![r].n = 1]
    /\ UNCHANGED <<kind, doc, text, liked, viewed, row, stored, held, raced, stray>>
UncommentCount(r) ==
    /\ At(r, "uncomment", "count")
    /\ req' = [req EXCEPT ![r].at = "write", ![r].n = 1 + Cardinality(Replies(req[r].comment))]
    /\ UNCHANGED <<kind, doc, text, liked, viewed, row, stored, held, raced, stray>>

\* A post's total is taken from the document as it was loaded, an article's is
\* read again.
UncommentWrite(r) ==
    /\ At(r, "uncomment", "write")
    /\ LET c == req[r].comment
           gone == {c} \cup (IF req[r].parent = NoComment THEN Replies(c) ELSE {})
       IN row' = [d \in Comments |-> IF d \in gone THEN Gone(d) ELSE row[d]]
    /\ Goto(r, IF kind = "post" THEN "total" ELSE "read")
    /\ UNCHANGED <<kind, doc, text, liked, viewed, stored, held, raced, stray>>

UncommentRead(r) ==
    /\ At(r, "uncomment", "read")
    /\ req' = [req EXCEPT ![r].at = "total", ![r].seen = doc.comments]
    /\ UNCHANGED <<kind, doc, text, liked, viewed, row, stored, held, raced, stray>>

UncommentTotal(r) ==
    /\ At(r, "uncomment", "total")
    /\ LET left == req[r].seen - req[r].n
       IN doc' = [doc EXCEPT !.comments = IF left < 0 THEN 0 ELSE left]
    /\ Done(r)
    /\ UNCHANGED <<kind, text, liked, viewed, row, stored, held, raced, stray>>

-----------------------------------------------------------------------------
(* createPost, updatePost, deleteUploadedImage *)

\* A client submits the addresses of any images: whether they are stored, or another
\* request is about to delete them, is not asked.
Submit(images) == stray' = stray \cup (images \ (Shown \cup held))

CreatePost(images) ==
    /\ kind = "post" /\ doc.stage = "none" /\ Submit(images)
    /\ doc' = [Blank EXCEPT !.stage = "live", !.images = images]
    /\ held' = held \ images
    /\ UNCHANGED <<kind, text, liked, viewed, row, stored, req, raced>>

UpdatePost(r, images) ==
    /\ kind = "post" /\ Live /\ Submit(images)
    /\ Accept(r, [Holding("update", "save") EXCEPT !.images = images])
    /\ UNCHANGED <<kind, doc, text, liked, viewed, row, stored, held>>

\* Images that are the same as those loaded are not written.  Others are, at the
\* version that was loaded or not at all, and the copies that other requests
\* hold become outdated.
SavePost_Bug(r) ==                                        \* the version is not compared
    /\ kind = "post" /\ At(r, "update", "save")
    /\ doc' = [doc EXCEPT !.images = req[r].images]
    /\ held' = held \ req[r].images
    /\ Goto(r, "clean")
    /\ UNCHANGED <<kind, text, liked, viewed, row, stored, raced, stray>>
SaveWholePost_Bug(r) ==                                   \* the whole copy is stored
    /\ kind = "post" /\ At(r, "update", "save")
    /\ doc' = [req[r].copy EXCEPT !.images = req[r].images]
    /\ held' = held \ req[r].images
    /\ Goto(r, "clean")
    /\ UNCHANGED <<kind, text, liked, viewed, row, stored, raced, stray>>
SavePost(r) ==
    /\ kind = "post" /\ At(r, "update", "save")
    /\ \/ /\ req[r].images = req[r].copy.images
          /\ Goto(r, "clean") /\ UNCHANGED <<doc, held>>
       \/ /\ req[r].images # req[r].copy.images /\ ~req[r].fresh
          /\ Done(r) /\ UNCHANGED <<doc, held>>
       \/ /\ req[r].images # req[r].copy.images /\ req[r].fresh
          /\ doc' = [doc EXCEPT !.images = req[r].images]
          /\ held' = held \ req[r].images
          /\ req' = [q \in Requests |-> IF q = r THEN [req[r] EXCEPT !.at = "clean"]
                                        ELSE [req[q] EXCEPT !.fresh = FALSE]]
    /\ UNCHANGED <<kind, text, liked, viewed, row, stored, raced, stray>>

CleanUpdate(r) ==
    /\ At(r, "update", "clean")
    /\ stored' = stored \ (req[r].old \ (req[r].images \cup req[r].body))
    /\ Done(r)
    /\ UNCHANGED <<kind, doc, text, liked, viewed, row, held, raced, stray>>

\* A client has an image deleted: whose it is and who shows it is not asked.
DeleteUpload(i) ==
    /\ stored' = stored \ {i}
    /\ held' = held \ {i} /\ stray' = stray \cup {i}
    /\ UNCHANGED <<kind, doc, text, liked, viewed, row, req, raced>>

-----------------------------------------------------------------------------
(* createArticle, updateArticle: the document holds the cover, the markdown   *)
(* has one address and is overwritten there, and no version is compared.      *)

Cover(images) == Cardinality(images) <= 1

\* The document is there before its markdown.
CreateArticle(r, images, body) ==
    /\ kind = "article" /\ doc.stage = "none" /\ Cover(images) /\ Submit(images \cup body)
    /\ doc' = [Blank EXCEPT !.stage = "live", !.images = images]
    /\ held' = held \ images
    /\ Accept(r, [Begin("create", Author, "put") EXCEPT !.body = body])
    /\ UNCHANGED <<kind, text, liked, viewed, row, stored>>

UpdateArticle(r, images, body) ==
    /\ kind = "article" /\ Live /\ Cover(images) /\ Submit(images \cup body)
    /\ Accept(r, [Holding("update", "read") EXCEPT !.images = images, !.body = body])
    /\ UNCHANGED <<kind, doc, text, liked, viewed, row, stored, held>>

\* The markdown that is to be replaced, or deleted, tells which images it uses.
ReadText(r) ==
    /\ req[r].op \in {"update", "delete"} /\ req[r].at = "read"
    /\ req' = [req EXCEPT ![r].at = IF req[r].op = "update" THEN "put" ELSE "save",
                          ![r].old = @ \cup text.images]
    /\ UNCHANGED <<kind, doc, text, liked, viewed, row, stored, held, raced, stray>>

PutText(r) ==
    /\ req[r].op \in {"create", "update"} /\ req[r].at = "put"
    /\ text' = [there |-> TRUE, images |-> req[r].body]
    /\ held' = held \ req[r].body
    /\ IF req[r].op = "create" THEN Done(r) ELSE Goto(r, "save")
    /\ UNCHANGED <<kind, doc, liked, viewed, row, stored, raced, stray>>

SaveArticle(r) ==
    /\ kind = "article" /\ At(r, "update", "save")
    /\ doc' = IF req[r].images = req[r].copy.images THEN doc
              ELSE [doc EXCEPT !.images = req[r].images]
    /\ held' = held \ req[r].images
    /\ Goto(r, "clean")
    /\ UNCHANGED <<kind, text, liked, viewed, row, stored, raced, stray>>

-----------------------------------------------------------------------------
(* deletePost, deleteArticle *)

\* A post that is deleted already may be deleted again.
DeletePost(r) ==
    /\ kind = "post" /\ doc.stage # "none"
    /\ Accept(r, Holding("delete", "save"))
    /\ UNCHANGED <<kind, doc, text, liked, viewed, row, stored, held, stray>>

DeleteArticle(r) ==
    /\ kind = "article" /\ Live
    /\ Accept(r, Holding("delete", "read"))
    /\ UNCHANGED <<kind, doc, text, liked, viewed, row, stored, held, stray>>

\* A total that was zero in the copy is not a change and is not written.
SaveDelete(r) ==
    /\ At(r, "delete", "save")
    /\ LET zero(new, old) == IF old = 0 THEN new ELSE 0
       IN doc' = [doc EXCEPT !.stage = "deleted",
                             !.likes = zero(doc.likes, req[r].copy.likes),
                             !.views = zero(doc.views, req[r].copy.views),
                             !.comments = zero(doc.comments, req[r].copy.comments)]
    /\ Goto(r, IF kind = "post" THEN "clean" ELSE "wipe")
    /\ UNCHANGED <<kind, text, liked, viewed, row, stored, held, raced, stray>>

CleanDelete(r) ==
    /\ At(r, "delete", "clean")
    /\ stored' = stored \ req[r].old
    /\ text' = [there |-> FALSE, images |-> {}]
    /\ IF kind = "post" THEN Goto(r, "wipe") ELSE Done(r)
    /\ UNCHANGED <<kind, doc, liked, viewed, row, held, raced, stray>>

Wipe(r) ==
    /\ At(r, "delete", "wipe")
    /\ row' = [c \in Comments |-> Gone(c)]
    /\ liked' = {} /\ viewed' = {}
    /\ IF kind = "post" THEN Done(r) ELSE Goto(r, "clean")
    /\ UNCHANGED <<kind, doc, text, stored, held, raced, stray>>

-----------------------------------------------------------------------------
Next ==
    \/ \E r \in Requests, u \in Users : \E op \in {"like", "view"} : React(r, op, u)
    \/ \E r \in Requests : ReactFind(r) \/ ReactWrite(r) \/ ReactTotal(r)
    \/ \E r \in Requests, u \in Users, p \in Comments \cup {NoComment} : Comment(r, u, p)
    \/ \E r \in Requests : CommentFind(r) \/ CommentTotal(r)
    \/ \E r \in Requests, c \in Comments : CommentWrite(r, c)
    \/ \E r \in Requests, u \in Users, c \in Comments : Uncomment(r, u, c)
    \/ \E r \in Requests : UncommentFind(r) \/ UncommentCount(r) \/ UncommentWrite(r)
    \/ \E r \in Requests : UncommentRead(r) \/ UncommentTotal(r)
    \/ \E images \in SUBSET Images : CreatePost(images)
    \/ \E r \in Requests, images \in SUBSET Images : UpdatePost(r, images)
    \/ \E r \in Requests : SavePost(r) \/ CleanUpdate(r)
    \/ \E i \in Images : DeleteUpload(i)
    \/ \E r \in Requests, images, body \in SUBSET Images : CreateArticle(r, images, body)
    \/ \E r \in Requests, images, body \in SUBSET Images : UpdateArticle(r, images, body)
    \/ \E r \in Requests : ReadText(r) \/ PutText(r) \/ SaveArticle(r)
    \/ \E r \in Requests : DeletePost(r) \/ DeleteArticle(r)
    \/ \E r \in Requests : SaveDelete(r) \/ CleanDelete(r) \/ Wipe(r)
    \/ \E r \in Requests : Cut(r)

Spec == Init /\ [][Next]_vars

-----------------------------------------------------------------------------
(* What readers are shown *)

\* formatPost, formatArticle with the reader's own engagement row.
Answer(u) ==
    [likes |-> doc.likes, liked |-> u \in liked, views |-> doc.views,
     previouslySeen |-> u \in viewed, comments |-> doc.comments]

\* getComments: the comments that are no replies, and the replies to these.
Listed ==
    LET top == {c \in There : row[c].parent = NoComment}
    IN top \cup UNION {Replies(c) : c \in top}

-----------------------------------------------------------------------------
(* Properties *)

\* The likes and views shown are the numbers of users shown as having liked and
\* seen the publication, whichever requests of different users overlap.  Only a
\* user who overtakes himself, or a request cut between its two writes, can part
\* them: the row is read, then written, then counted, in three calls.
EngagementCounted ==
    Live /\ "engagement" \notin raced /\ ~Busy({"like", "view"}) =>
        \A u \in Users :
            /\ Answer(u).likes = Cardinality({v \in Users : Answer(v).liked})
            /\ Answer(u).views = Cardinality({v \in Users : Answer(v).previouslySeen})

\* The number of comments shown is the number of comments and replies listed,
\* whichever additions overlap, unless a deletion overlapped another comment
\* request: a deletion stores a total that it has computed, the additions
\* increment; and a reply may be written after the comment it answers has gone.
CommentsCounted ==
    Live /\ "comments" \notin raced /\ ~Busy({"comment", "uncomment"}) =>
        doc.comments = Cardinality(Listed)

\* Every image that a live publication shows is in storage.  Edits delete the
\* images that they drop; a post's edits that overlap are told apart by the
\* version of the document.  An article has no such check: there it is promised
\* only while no two edits overlap.  Nothing is promised of an image that some
\* client has had deleted by its address, nor of one submitted after an edit
\* had dropped it: no handler asks whether an image is used, or still stored.
LiveImagesKept ==
    Live /\ (kind = "post" \/ "images" \notin raced) => Shown \ stray \subseteq stored

\* A deleted publication never comes back, though edits that loaded it before
\* save it afterwards.
DeletedStaysDeleted == [][doc.stage = "deleted" => doc'.stage = "deleted"]_vars
=============================================================================

-------------------------- MODULE Publication_proofs --------------------------
(***************************************************************************)
(* Proofs about Publication for any users, comments, images and requests   *)
(* under way: its type invariant and the four properties that the run      *)
(* checks.  The inductive invariant has one part for edits and images, one *)
(* for likes and views and one for comments; a step that is not about a    *)
(* part keeps it because it leaves the fields of that part alone.          *)
(***************************************************************************)
EXTENDS Publication, FiniteSetTheorems, TLAPS

-----------------------------------------------------------------------------
(* The inductive invariant: before there is a document *)

Unborn ==
    doc.stage = "none" =>
      /\ doc = Blank /\ text.images = {} /\ liked = {} /\ viewed = {}
      /\ \A c \in Comments : row[c].stage = "new"
      /\ \A r \in Requests : req[r].op = "idle"

(* Edits and images *)

\* Storage and rows are cleaned only behind a document that is marked as deleted.
Deletions ==
    \A r \in Requests :
        req[r].op = "delete" /\ req[r].at \in {"clean", "wipe"} => doc.stage = "deleted"

\* An upload that a client holds is stored, and no publication has ever used it.
Uploads ==
    /\ held \subseteq stored
    /\ held \cap Shown = {}
    /\ \A r \in Requests : req[r].old \cap held = {}

\* What an edit of a post that has been saved is about to delete from storage
Dropped(q) == IF q.op = "update" /\ q.at = "clean" THEN q.old \ q.images ELSE {}

\* A post is written from a copy only while its images are those of the copy, with
\* images that it shows or the client holds; what an edit has dropped never comes back.  All
\* this but for the images that are stray.
PostRequest(q) ==
    /\ q.op # "create"
    /\ q.op \in {"update", "delete"} => q.at \in {"save", "clean", "wipe"}
    /\ q.op = "update" => q.old = q.copy.images
    /\ q.op = "update" /\ q.at = "save" /\ q.fresh =>
         q.copy.images = doc.images /\ q.images \subseteq doc.images \cup held \cup stray
    /\ Dropped(q) \cap (doc.images \cup held) \subseteq stray

Posts ==
    kind = "post" =>
      /\ text.images = {}
      /\ Live => doc.images \subseteq stored \cup stray
      /\ \A r \in Requests : PostRequest(req[r])

\* The only edit of an article takes its images from storage, and finds the document
\* and the markdown as it has left them.
Writers == {"create", "update"}
ArticleRequest(q) ==
    q.op \in Writers =>
      /\ q.at \in {"read", "put", "save", "clean"}
      /\ q.op = "create" => q.at = "put"
      /\ q.images \cup q.body \subseteq stored \cup stray
      /\ q.op = "update" /\ q.at \in {"read", "put", "save"} => doc.images = q.copy.images
      /\ q.at = "save" => text.images \subseteq q.body
      /\ q.at = "clean" => Shown \subseteq q.images \cup q.body

Articles ==
    kind = "article" /\ Live /\ "images" \notin raced =>
      /\ Shown \subseteq stored \cup stray
      /\ \A q, r \in Requests : req[q].op \in Writers /\ req[r].op \in Writers => q = r
      /\ \A r \in Requests : ArticleRequest(req[r])

Edits == Deletions /\ Uploads /\ Posts /\ Articles

(* Likes and views *)

\* The user's row has been written, the total has not.
Pending(op, u) ==
    \E r \in Requests : req[r].op = op /\ req[r].user = u /\ req[r].at = "total"

\* The users whose rows the total tells already: a pending request has turned its user round.
Settled(op, S) == {u \in Users : u \in S <=> ~Pending(op, u)}

Reacts == {"like", "view"}

\* What a request is about to write, or to count, is what the row of its user says.
ReactRequest(q) ==
    /\ q.op \in Reacts => q.at \in {"find", "write", "total"}
    /\ q.op = "like" /\ q.at = "write" => (q.next <=> q.user \notin liked)
    /\ q.op = "like" /\ q.at = "total" => (q.next <=> q.user \in liked)
    /\ q.op = "view" /\ q.at = "write" => q.user \notin viewed
    /\ q.op = "view" /\ q.at = "total" => q.user \in viewed

OneEach ==
    \A q, r \in Requests :
        req[q].op \in Reacts /\ req[q].op = req[r].op /\ req[q].user = req[r].user => q = r

Totals ==
    /\ doc.likes = Cardinality(Settled("like", liked))
    /\ doc.views = Cardinality(Settled("view", viewed))

Engagement ==
    Live /\ "engagement" \notin raced =>
        OneEach /\ (\A r \in Requests : ReactRequest(req[r])) /\ Totals

(* Comments *)

Talks == {"comment", "uncomment"}
Top(c) == c \in There /\ row[c].parent = NoComment

\* Comments that are written and not counted, a deletion that is
Writing == {r \in Requests : req[r].op = "comment" /\ req[r].at = "total"}
Counting == \E r \in Requests : req[r].op = "uncomment" /\ req[r].at \in {"read", "total"}

\* A reply that is to be written answers a comment that is there; a deletion knows how many
\* rows it takes away, and once it has, the total is too high by as many.
TalkRequest(q) ==
    /\ q.op = "comment" => q.at \in {"find", "write", "total"}
    /\ q.op = "comment" /\ q.at = "write" /\ q.parent # NoComment => Top(q.parent)
    /\ q.op = "uncomment" =>
         /\ q.at \in {"find", "count", "write", "read", "total"}
         /\ q.comment \in Comments
         /\ q.at \in {"find", "count"} => q.parent = NoComment
         /\ q.at = "count" => Top(q.comment)
         /\ q.at = "write" =>
              /\ q.comment \in There /\ row[q.comment].parent = q.parent
              /\ q.n = 1 + (IF q.parent = NoComment THEN Cardinality(Replies(q.comment)) ELSE 0)
         /\ kind = "post" \/ q.at = "total" => q.seen = doc.comments
         /\ q.at \in {"read", "total"} => doc.comments = Cardinality(There) + q.n

Alone ==
    \A q, r \in Requests : req[q].op = "uncomment" /\ req[r].op \in Talks => q = r
Answering == \A c \in There : row[c].parent # NoComment => Top(row[c].parent)
Tally == ~Counting => doc.comments + Cardinality(Writing) = Cardinality(There)

Talk ==
    Live /\ "comments" \notin raced =>
        Alone /\ Answering /\ (\A r \in Requests : TalkRequest(req[r])) /\ Tally

-----------------------------------------------------------------------------
(* Requests *)

LEMMA IdleType ==
    /\ Idle \in Request /\ Blank \in Document
    /\ Idle.op = "idle" /\ Idle.at = "load" /\ Idle.old = {} /\ Idle.images = {} /\ Idle.body = {}
    /\ Idle.parent = NoComment /\ Idle.n = 0 /\ Idle.seen = 0
    /\ Blank.stage = "none" /\ Blank.likes = 0 /\ Blank.views = 0 /\ Blank.comments = 0
    /\ Blank.images = {}
<1>1. Blank \in Document /\ Blank.stage = "none" /\ Blank.likes = 0 /\ Blank.views = 0
        /\ Blank.comments = 0 /\ Blank.images = {}
  BY DEF Blank, Document
<1>2. Idle \in Request
  BY <1>1, ConstantsAssumption DEF Idle, Request, Ops, Stages
<1> QED BY <1>1, <1>2 DEF Idle

LEMMA BeginFields ==
    ASSUME doc \in Document, NEW op \in Ops, NEW u \in Users, NEW at \in Stages
    PROVE  /\ Begin(op, u, at) \in Request
           /\ Begin(op, u, at).op = op /\ Begin(op, u, at).user = u /\ Begin(op, u, at).at = at
           /\ Begin(op, u, at).old = {} /\ Begin(op, u, at).images = {} /\ Begin(op, u, at).body = {}
           /\ Begin(op, u, at).parent = NoComment /\ Begin(op, u, at).n = 0
           /\ op = "uncomment" => Begin(op, u, at).seen = doc.comments
<1> DEFINE A == [Idle EXCEPT !.op = op]
           B == [A EXCEPT !.user = u]
           C == [B EXCEPT !.at = at]
           N == Begin(op, u, at)
<1>1. N = [C EXCEPT !.seen = IF op = "uncomment" THEN doc.comments ELSE 0] BY DEF Begin
<1>2. (IF op = "uncomment" THEN doc.comments ELSE 0) \in Int BY DEF Document
<1>3. /\ A \in Request /\ A.op = op /\ A.old = {} /\ A.images = {} /\ A.body = {}
      /\ A.parent = NoComment /\ A.n = 0
  BY IdleType DEF Request
<1> HIDE DEF A, N
<1>4. /\ B \in Request /\ B.op = op /\ B.old = {} /\ B.images = {} /\ B.body = {}
      /\ B.parent = NoComment /\ B.n = 0 /\ B.user = u
  BY <1>3 DEF Request
<1> HIDE DEF B
<1>5. /\ C \in Request /\ C.op = op /\ C.old = {} /\ C.images = {} /\ C.body = {}
      /\ C.parent = NoComment /\ C.n = 0 /\ C.user = u /\ C.at = at
  BY <1>4 DEF Request
<1> HIDE DEF C
<1>6. /\ N \in Request /\ N.op = op /\ N.old = {} /\ N.images = {} /\ N.body = {}
      /\ N.parent = NoComment /\ N.n = 0 /\ N.user = u /\ N.at = at
      /\ op = "uncomment" => N.seen = doc.comments
  BY <1>1, <1>2, <1>5 DEF Request
<1> QED BY <1>6 DEF N

LEMMA HoldingFields ==
    ASSUME doc \in Document, NEW op \in Ops, NEW at \in Stages
    PROVE  /\ Holding(op, at) \in Request
           /\ Holding(op, at).op = op /\ Holding(op, at).user = Author /\ Holding(op, at).at = at
           /\ Holding(op, at).copy = doc /\ Holding(op, at).old = doc.images
           /\ Holding(op, at).images = {} /\ Holding(op, at).body = {}
<1> DEFINE A == Begin(op, Author, at)
           B == [A EXCEPT !.copy = doc]
           C == [B EXCEPT !.old = doc.images]
           N == Holding(op, at)
<1>1. N = [C EXCEPT !.fresh = TRUE] BY DEF Holding
<1>2. doc.images \in SUBSET Images /\ Author \in Users BY ConstantsAssumption DEF Document
<1>3. A \in Request /\ A.op = op /\ A.user = Author /\ A.at = at /\ A.images = {} /\ A.body = {}
  BY <1>2, BeginFields
<1> HIDE DEF A, N
<1>4. /\ B \in Request /\ B.op = op /\ B.user = Author /\ B.at = at /\ B.images = {} /\ B.body = {}
      /\ B.copy = doc
  BY <1>3 DEF Request
<1> HIDE DEF B
<1>5. /\ C \in Request /\ C.op = op /\ C.user = Author /\ C.at = at /\ C.images = {} /\ C.body = {}
      /\ C.copy = doc /\ C.old = doc.images
  BY <1>2, <1>4 DEF Request
<1> HIDE DEF C
<1>6. /\ N \in Request /\ N.op = op /\ N.user = Author /\ N.at = at /\ N.images = {} /\ N.body = {}
      /\ N.copy = doc /\ N.old = doc.images
  BY <1>1, <1>5 DEF Request
<1> QED BY <1>6 DEF N

\* Only r's request changes, to n.
Replaced(r, n) ==
    /\ n \in Request
    /\ req' \in [Requests -> Request]
    /\ req'[r] = n
    /\ \A q \in Requests \ {r} : req'[q] = req[q]

LEMMA ReplacedBy ==
    ASSUME TypeOK, NEW r \in Requests, NEW n \in Request, req' = [req EXCEPT ![r] = n]
    PROVE  Replaced(r, n)
BY DEF TypeOK, Replaced

\* What Goto leaves of a request
LEMMA GotoFields ==
    ASSUME TypeOK, NEW r \in Requests, NEW at \in Stages, Goto(r, at)
    PROVE  /\ Replaced(r, req'[r])
           /\ req'[r].at = at /\ req'[r].op = req[r].op /\ req'[r].user = req[r].user
           /\ req'[r].next = req[r].next /\ req'[r].comment = req[r].comment
           /\ req'[r].parent = req[r].parent /\ req'[r].n = req[r].n /\ req'[r].seen = req[r].seen
           /\ req'[r].copy = req[r].copy /\ req'[r].images = req[r].images
           /\ req'[r].body = req[r].body /\ req'[r].old = req[r].old /\ req'[r].fresh = req[r].fresh
<1>1. req[r] \in Request /\ req \in [Requests -> Request] BY DEF TypeOK
<1>2. /\ req'[r] \in Request
      /\ req'[r].at = at /\ req'[r].op = req[r].op /\ req'[r].user = req[r].user
      /\ req'[r].next = req[r].next /\ req'[r].comment = req[r].comment
      /\ req'[r].parent = req[r].parent /\ req'[r].n = req[r].n /\ req'[r].seen = req[r].seen
      /\ req'[r].copy = req[r].copy /\ req'[r].images = req[r].images
      /\ req'[r].body = req[r].body /\ req'[r].old = req[r].old /\ req'[r].fresh = req[r].fresh
  BY <1>1 DEF Goto, Request
<1>3. req' \in [Requests -> Request] /\ \A q \in Requests \ {r} : req'[q] = req[q]
  BY <1>1, <1>2 DEF Goto
<1> QED BY <1>2, <1>3 DEF Replaced

LEMMA DoneFields ==
    ASSUME TypeOK, NEW r \in Requests, Done(r)
    PROVE  Replaced(r, Idle)
BY IdleType, ReplacedBy DEF Done

LEMMA AcceptFields ==
    ASSUME TypeOK, NEW r \in Requests, NEW n \in Request, Accept(r, n)
    PROVE  Replaced(r, n) /\ req[r].op = "idle" /\ raced' = raced \cup Clash(n.op, n.user)
BY ReplacedBy DEF Accept

LEMMA RacedType ==
    ASSUME TypeOK, NEW r \in Requests, NEW n, Accept(r, n)
    PROVE  raced' \subseteq Topics /\ raced \subseteq raced'
<1>1. Clash(n.op, n.user) \subseteq Topics BY DEF Clash
<1> QED BY <1>1 DEF TypeOK, Accept

-----------------------------------------------------------------------------
(* What each handler does to its request *)

LEMMA ReactFields ==
    ASSUME TypeOK, NEW r \in Requests, NEW u \in Users, NEW op \in {"like", "view"}, React(r, op, u)
    PROVE  /\ Replaced(r, req'[r]) /\ req[r].op = "idle"
           /\ req'[r].op = op /\ req'[r].user = u /\ req'[r].at = "find" /\ req'[r].old = {}
           /\ raced' = raced \cup Clash(op, u) /\ raced' \subseteq Topics
<1> DEFINE n == Begin(op, u, "find")
<1>1. op \in Ops /\ "find" \in Stages /\ doc \in Document BY DEF Ops, Stages, TypeOK
<1>2. n \in Request /\ n.op = op /\ n.user = u /\ n.at = "find" /\ n.old = {} BY <1>1, BeginFields
<1>3. Accept(r, n) BY DEF React
<1> HIDE DEF n
<1> QED BY <1>2, <1>3, AcceptFields, RacedType DEF Replaced

LEMMA ReactFindFields ==
    ASSUME TypeOK, NEW r \in Requests, ReactFind(r)
    PROVE  \/ /\ Replaced(r, Idle)
              /\ req[r].op = "view" /\ req[r].at = "find"
           \/ /\ Replaced(r, req'[r]) /\ req[r].op \in {"like", "view"} /\ req[r].at = "find"
              /\ req'[r].op = req[r].op /\ req'[r].user = req[r].user /\ req'[r].old = req[r].old
              /\ req'[r].at = "write"
              /\ req[r].op = "like" => (req'[r].next <=> req[r].user \notin liked)
              /\ req[r].op = "view" => req'[r].next /\ req[r].user \notin viewed
<1>1. req[r] \in Request /\ req \in [Requests -> Request] BY DEF TypeOK
<1>2. req[r].op \in {"like", "view"} /\ req[r].at = "find" BY DEF ReactFind
<1>3. CASE req[r].op = "view" /\ req[r].user \in viewed
  BY <1>2, <1>3, DoneFields DEF ReactFind
<1>4. CASE ~(req[r].op = "view" /\ req[r].user \in viewed)
  <2> DEFINE next == req[r].op = "view" \/ req[r].user \notin liked
             F == [req EXCEPT ![r].at = "write"]
  <2>1. req' = [F EXCEPT ![r].next = next] BY <1>4 DEF ReactFind
  <2>2. /\ F \in [Requests -> Request] /\ F[r].op = req[r].op /\ F[r].user = req[r].user
        /\ F[r].old = req[r].old /\ F[r].at = "write" /\ \A q \in Requests \ {r} : F[q] = req[q]
    BY <1>1 DEF Request, Stages
  <2>3. /\ next \in BOOLEAN
        /\ req[r].op = "like" => (next <=> req[r].user \notin liked)
        /\ req[r].op = "view" => next
    OBVIOUS
  <2> HIDE DEF F, next
  <2>4. F[r] \in Request BY <2>2
  <2>5. /\ req' \in [Requests -> Request] /\ req'[r] \in Request
        /\ req'[r].op = F[r].op /\ req'[r].user = F[r].user /\ req'[r].old = F[r].old
        /\ req'[r].at = F[r].at /\ req'[r].next = next
        /\ \A q \in Requests \ {r} : req'[q] = F[q]
    BY <2>1, <2>2, <2>3, <2>4 DEF Request
  <2> QED BY <1>2, <1>4, <2>2, <2>3, <2>5 DEF Replaced
<1> QED BY <1>3, <1>4

LEMMA CommentFields ==
    ASSUME TypeOK, NEW r \in Requests, NEW u \in Users, NEW p \in Comments \cup {NoComment},
           Comment(r, u, p)
    PROVE  /\ Replaced(r, req'[r]) /\ req[r].op = "idle"
           /\ req'[r].op = "comment" /\ req'[r].user = u /\ req'[r].at = "find"
           /\ req'[r].parent = p /\ req'[r].old = {}
           /\ raced' = raced \cup Clash("comment", u) /\ raced' \subseteq Topics
<1> DEFINE b == Begin("comment", u, "find")
           n == [b EXCEPT !.parent = p]
<1>1. "comment" \in Ops /\ "find" \in Stages /\ doc \in Document BY DEF Ops, Stages, TypeOK
<1>2. b \in Request /\ b.op = "comment" /\ b.user = u /\ b.at = "find" /\ b.old = {}
  BY <1>1, BeginFields
<1>3. Accept(r, n) BY DEF Comment
<1> HIDE DEF b
<1>4. n \in Request /\ n.op = "comment" /\ n.user = u /\ n.at = "find" /\ n.old = {} /\ n.parent = p
  BY <1>2 DEF Request
<1> HIDE DEF n
<1> QED BY <1>3, <1>4, AcceptFields, RacedType DEF Replaced

LEMMA UncommentFields ==
    ASSUME TypeOK, NEW r \in Requests, NEW u \in Users, NEW c \in Comments, Uncomment(r, u, c)
    PROVE  /\ Replaced(r, req'[r]) /\ req[r].op = "idle"
           /\ req'[r].op = "uncomment" /\ req'[r].user = u /\ req'[r].at = "find"
           /\ req'[r].comment = c /\ req'[r].parent = NoComment /\ req'[r].seen = doc.comments
           /\ req'[r].old = {}
           /\ raced' = raced \cup Clash("uncomment", u) /\ raced' \subseteq Topics
<1> DEFINE b == Begin("uncomment", u, "find")
           n == [b EXCEPT !.comment = c]
<1>1. "uncomment" \in Ops /\ "find" \in Stages /\ doc \in Document BY DEF Ops, Stages, TypeOK
<1>2. /\ b \in Request /\ b.op = "uncomment" /\ b.user = u /\ b.at = "find" /\ b.old = {}
      /\ b.parent = NoComment /\ b.seen = doc.comments
  BY <1>1, BeginFields
<1>3. Accept(r, n) BY DEF Uncomment
<1> HIDE DEF b
<1>4. /\ n \in Request /\ n.op = "uncomment" /\ n.user = u /\ n.at = "find" /\ n.old = {}
      /\ n.parent = NoComment /\ n.seen = doc.comments /\ n.comment = c
  BY <1>2 DEF Request
<1> HIDE DEF n
<1> QED BY <1>3, <1>4, AcceptFields, RacedType DEF Replaced

\* The three steps of a deletion of a comment that learn something
LEMMA UncommentFindFields ==
    ASSUME TypeOK, NEW r \in Requests, UncommentFind(r)
    PROVE  /\ req[r].op = "uncomment" /\ req[r].at = "find"
           /\ \/ Replaced(r, Idle)
              \/ /\ Replaced(r, req'[r]) /\ req'[r].op = "uncomment" /\ req'[r].at \in {"count", "write"}
                 /\ req[r].comment \in There /\ req'[r].comment = req[r].comment
                 /\ req'[r].seen = req[r].seen /\ req'[r].old = req[r].old
                 /\ req'[r].at = "count" =>
                      row[req[r].comment].parent = NoComment /\ req'[r].parent = req[r].parent
                 /\ req'[r].at = "write" =>
                      /\ row[req[r].comment].parent # NoComment
                      /\ req'[r].parent = row[req[r].comment].parent /\ req'[r].n = 1
<1> DEFINE c == req[r].comment
<1>1. req[r] \in Request /\ req \in [Requests -> Request] /\ row \in [Comments -> Row] BY DEF TypeOK
<1>2. req[r].op = "uncomment" /\ req[r].at = "find" BY DEF UncommentFind, At
<1>3. CASE c \notin There \/ row[c].user # req[r].user
  BY <1>2, <1>3, DoneFields DEF UncommentFind
<1>4. CASE c \in There /\ row[c].user = req[r].user /\ row[c].parent = NoComment
  <2>1. Goto(r, "count") BY <1>4 DEF UncommentFind
  <2>2. "count" \in Stages BY DEF Stages
  <2> QED BY <1>2, <1>4, <2>1, <2>2, GotoFields
<1>5. CASE c \in There /\ row[c].user = req[r].user /\ row[c].parent # NoComment
  <2> DEFINE F == [req EXCEPT ![r].at = "write"]
             G == [F EXCEPT ![r].n = 1]
  <2>1. req' = [G EXCEPT ![r].parent = row[c].parent] BY <1>5 DEF UncommentFind
  <2>2. row[c].parent \in Comments \cup {NoComment} BY <1>1, <1>5 DEF There, Row
  <2>3. /\ F \in [Requests -> Request] /\ F[r].op = req[r].op /\ F[r].comment = req[r].comment
        /\ F[r].old = req[r].old /\ F[r].seen = req[r].seen /\ F[r].at = "write"
        /\ \A q \in Requests \ {r} : F[q] = req[q]
    BY <1>1 DEF Request, Stages
  <2> HIDE DEF F
  <2>4. F[r] \in Request BY <2>3
  <2>5. /\ G \in [Requests -> Request] /\ G[r].op = req[r].op /\ G[r].comment = req[r].comment
        /\ G[r].old = req[r].old /\ G[r].seen = req[r].seen /\ G[r].at = "write" /\ G[r].n = 1
        /\ \A q \in Requests \ {r} : G[q] = req[q]
    BY <2>3, <2>4 DEF Request
  <2> HIDE DEF G
  <2>6. G[r] \in Request BY <2>5
  <2>7. /\ req' \in [Requests -> Request] /\ req'[r] \in Request
        /\ req'[r].op = req[r].op /\ req'[r].comment = req[r].comment
        /\ req'[r].old = req[r].old /\ req'[r].seen = req[r].seen /\ req'[r].at = "write"
        /\ req'[r].n = 1 /\ req'[r].parent = row[c].parent
        /\ \A q \in Requests \ {r} : req'[q] = req[q]
    BY <2>1, <2>2, <2>5, <2>6 DEF Request
  <2> QED BY <1>2, <1>5, <2>7 DEF Replaced
<1> QED BY <1>2, <1>3, <1>4, <1>5

LEMMA UncommentCountFields ==
    ASSUME TypeOK, NEW r \in Requests, UncommentCount(r)
    PROVE  /\ req[r].op = "uncomment" /\ req[r].at = "count"
           /\ Replaced(r, req'[r]) /\ req'[r].op = "uncomment" /\ req'[r].at = "write"
           /\ req'[r].n = 1 + Cardinality(Replies(req[r].comment))
           /\ req'[r].comment = req[r].comment /\ req'[r].parent = req[r].parent
           /\ req'[r].seen = req[r].seen /\ req'[r].old = req[r].old
<1> DEFINE n == 1 + Cardinality(Replies(req[r].comment))
           F == [req EXCEPT ![r].at = "write"]
<1>1. req[r] \in Request /\ req \in [Requests -> Request] BY DEF TypeOK
<1>2. req' = [F EXCEPT ![r].n = n] BY DEF UncommentCount
<1>3. n \in Nat
  <2>1. Replies(req[r].comment) \subseteq Comments BY DEF Replies, There
  <2>2. IsFiniteSet(Replies(req[r].comment)) BY <2>1, FS_Subset, ConstantsAssumption
  <2>3. Cardinality(Replies(req[r].comment)) \in Nat BY <2>2, FS_CardinalityType
  <2> QED BY <2>3
<1>4. /\ F \in [Requests -> Request] /\ F[r].op = req[r].op /\ F[r].comment = req[r].comment
      /\ F[r].old = req[r].old /\ F[r].seen = req[r].seen /\ F[r].at = "write"
      /\ F[r].parent = req[r].parent /\ \A q \in Requests \ {r} : F[q] = req[q]
  BY <1>1 DEF Request, Stages
<1> HIDE DEF F, n
<1>5. F[r] \in Request BY <1>4
<1>6. /\ req' \in [Requests -> Request] /\ req'[r] \in Request
      /\ req'[r].op = req[r].op /\ req'[r].comment = req[r].comment
      /\ req'[r].old = req[r].old /\ req'[r].seen = req[r].seen /\ req'[r].at = "write"
      /\ req'[r].parent = req[r].parent /\ req'[r].n = n
      /\ \A q \in Requests \ {r} : req'[q] = req[q]
  BY <1>2, <1>3, <1>4, <1>5 DEF Request
<1>7. req[r].op = "uncomment" /\ req[r].at = "count" BY DEF UncommentCount, At
<1> QED BY <1>6, <1>7 DEF Replaced, n

LEMMA UncommentReadFields ==
    ASSUME TypeOK, NEW r \in Requests, UncommentRead(r)
    PROVE  /\ req[r].op = "uncomment" /\ req[r].at = "read"
           /\ Replaced(r, req'[r]) /\ req'[r].op = "uncomment" /\ req'[r].at = "total"
           /\ req'[r].seen = doc.comments /\ req'[r].n = req[r].n
           /\ req'[r].comment = req[r].comment /\ req'[r].parent = req[r].parent
           /\ req'[r].old = req[r].old
<1> DEFINE F == [req EXCEPT ![r].at = "total"]
<1>1. req[r] \in Request /\ req \in [Requests -> Request] /\ doc.comments \in Int
  BY DEF TypeOK, Document
<1>2. req' = [F EXCEPT ![r].seen = doc.comments] BY DEF UncommentRead
<1>3. /\ F \in [Requests -> Request] /\ F[r].op = req[r].op /\ F[r].comment = req[r].comment
      /\ F[r].old = req[r].old /\ F[r].n = req[r].n /\ F[r].at = "total"
      /\ F[r].parent = req[r].parent /\ \A q \in Requests \ {r} : F[q] = req[q]
  BY <1>1 DEF Request, Stages
<1> HIDE DEF F
<1>4. F[r] \in Request BY <1>3
<1>5. /\ req' \in [Requests -> Request] /\ req'[r] \in Request
      /\ req'[r].op = req[r].op /\ req'[r].comment = req[r].comment
      /\ req'[r].old = req[r].old /\ req'[r].n = req[r].n /\ req'[r].at = "total"
      /\ req'[r].parent = req[r].parent /\ req'[r].seen = doc.comments
      /\ \A q \in Requests \ {r} : req'[q] = req[q]
  BY <1>1, <1>2, <1>3, <1>4 DEF Request
<1>6. req[r].op = "uncomment" /\ req[r].at = "read" BY DEF UncommentRead, At
<1> QED BY <1>5, <1>6 DEF Replaced

\* The requests that edit and delete
LEMMA UpdatePostFields ==
    ASSUME TypeOK, NEW r \in Requests, NEW images \in SUBSET Images, UpdatePost(r, images)
    PROVE  /\ Replaced(r, req'[r]) /\ req[r].op = "idle"
           /\ req'[r].op = "update" /\ req'[r].at = "save" /\ req'[r].images = images
           /\ req'[r].copy = doc /\ req'[r].old = doc.images /\ req'[r].body = {}
           /\ raced \subseteq raced' /\ raced' \subseteq Topics
<1> DEFINE b == Holding("update", "save")
           n == [b EXCEPT !.images = images]
<1>1. "update" \in Ops /\ "save" \in Stages /\ doc \in Document BY DEF Ops, Stages, TypeOK
<1>2. /\ b \in Request /\ b.op = "update" /\ b.at = "save" /\ b.copy = doc /\ b.old = doc.images
      /\ b.body = {}
  BY <1>1, HoldingFields
<1>3. Accept(r, n) BY DEF UpdatePost
<1> HIDE DEF b
<1>4. /\ n \in Request /\ n.op = "update" /\ n.at = "save" /\ n.copy = doc /\ n.old = doc.images
      /\ n.images = images /\ n.body = {}
  BY <1>2 DEF Request
<1> HIDE DEF n
<1> QED BY <1>3, <1>4, AcceptFields, RacedType DEF Replaced

LEMMA CreateArticleFields ==
    ASSUME TypeOK, NEW r \in Requests, NEW images \in SUBSET Images, NEW body \in SUBSET Images,
           CreateArticle(r, images, body)
    PROVE  /\ Replaced(r, req'[r]) /\ req[r].op = "idle"
           /\ req'[r].op = "create" /\ req'[r].at = "put" /\ req'[r].images = {}
           /\ req'[r].body = body /\ req'[r].old = {}
           /\ raced \subseteq raced' /\ raced' \subseteq Topics
<1> DEFINE b == Begin("create", Author, "put")
           n == [b EXCEPT !.body = body]
<1>1. "create" \in Ops /\ "put" \in Stages /\ doc \in Document /\ Author \in Users
  BY ConstantsAssumption DEF Ops, Stages, TypeOK
<1>2. b \in Request /\ b.op = "create" /\ b.at = "put" /\ b.old = {} /\ b.images = {}
  BY <1>1, BeginFields
<1>3. Accept(r, n) BY DEF CreateArticle
<1> HIDE DEF b
<1>4. /\ n \in Request /\ n.op = "create" /\ n.at = "put" /\ n.old = {} /\ n.images = {} /\ n.body = body
  BY <1>2 DEF Request
<1> HIDE DEF n
<1> QED BY <1>3, <1>4, AcceptFields, RacedType DEF Replaced

LEMMA UpdateArticleFields ==
    ASSUME TypeOK, NEW r \in Requests, NEW images \in SUBSET Images, NEW body \in SUBSET Images,
           UpdateArticle(r, images, body)
    PROVE  /\ Replaced(r, req'[r]) /\ req[r].op = "idle"
           /\ req'[r].op = "update" /\ req'[r].at = "read" /\ req'[r].images = images
           /\ req'[r].body = body /\ req'[r].copy = doc /\ req'[r].old = doc.images
           /\ raced' = raced \cup Clash("update", Author) /\ raced' \subseteq Topics
<1> DEFINE b == Holding("update", "read")
           m == [b EXCEPT !.images = images]
           n == [m EXCEPT !.body = body]
<1>1. "update" \in Ops /\ "read" \in Stages /\ doc \in Document BY DEF Ops, Stages, TypeOK
<1>2. /\ b \in Request /\ b.op = "update" /\ b.at = "read" /\ b.user = Author
      /\ b.copy = doc /\ b.old = doc.images
  BY <1>1, HoldingFields
<1>3. Accept(r, n) BY DEF UpdateArticle
<1> HIDE DEF b
<1>4. /\ m \in Request /\ m.op = "update" /\ m.at = "read" /\ m.user = Author
      /\ m.copy = doc /\ m.old = doc.images /\ m.images = images
  BY <1>2 DEF Request
<1> HIDE DEF m
<1>5. /\ n \in Request /\ n.op = "update" /\ n.at = "read" /\ n.user = Author
      /\ n.copy = doc /\ n.old = doc.images /\ n.images = images /\ n.body = body
  BY <1>4 DEF Request
<1> HIDE DEF n
<1> QED BY <1>3, <1>5, AcceptFields, RacedType DEF Replaced

LEMMA ReadTextFields ==
    ASSUME TypeOK, NEW r \in Requests, ReadText(r)
    PROVE  /\ req[r].op \in {"update", "delete"} /\ req[r].at = "read"
           /\ Replaced(r, req'[r]) /\ req'[r].op = req[r].op
           /\ req'[r].at = (IF req[r].op = "update" THEN "put" ELSE "save")
           /\ req'[r].old = req[r].old \cup text.images /\ req'[r].images = req[r].images
           /\ req'[r].body = req[r].body /\ req'[r].copy = req[r].copy
<1> DEFINE at == IF req[r].op = "update" THEN "put" ELSE "save"
           F == [req EXCEPT ![r].at = at]
<1>1. /\ req[r] \in Request /\ req \in [Requests -> Request]
      /\ req[r].old \cup text.images \in SUBSET Images
  BY DEF TypeOK, Request
<1>2. req' = [F EXCEPT ![r].old = req[r].old \cup text.images] BY DEF ReadText
<1>3. at \in Stages BY DEF Stages
<1>4. /\ F \in [Requests -> Request] /\ F[r].op = req[r].op /\ F[r].images = req[r].images
      /\ F[r].body = req[r].body /\ F[r].copy = req[r].copy /\ F[r].at = at
      /\ \A q \in Requests \ {r} : F[q] = req[q]
  BY <1>1, <1>3 DEF Request
<1> HIDE DEF F, at
<1>5. F[r] \in Request BY <1>4
<1>6. /\ req' \in [Requests -> Request] /\ req'[r] \in Request
      /\ req'[r].op = req[r].op /\ req'[r].images = req[r].images
      /\ req'[r].body = req[r].body /\ req'[r].copy = req[r].copy /\ req'[r].at = at
      /\ req'[r].old = req[r].old \cup text.images
      /\ \A q \in Requests \ {r} : req'[q] = req[q]
  BY <1>1, <1>2, <1>4, <1>5 DEF Request
<1>7. req[r].op \in {"update", "delete"} /\ req[r].at = "read" BY DEF ReadText
<1> QED BY <1>6, <1>7 DEF Replaced, at

LEMMA DeleteFields ==
    ASSUME TypeOK, NEW r \in Requests, DeletePost(r) \/ DeleteArticle(r)
    PROVE  /\ Replaced(r, req'[r]) /\ req[r].op = "idle"
           /\ req'[r].op = "delete" /\ req'[r].at = (IF kind = "post" THEN "save" ELSE "read")
           /\ req'[r].old = doc.images
           /\ raced \subseteq raced' /\ raced' \subseteq Topics
<1> DEFINE at == IF kind = "post" THEN "save" ELSE "read"
           n == Holding("delete", at)
<1>1. "delete" \in Ops /\ at \in Stages /\ doc \in Document BY DEF Ops, Stages, TypeOK
<1>2. Accept(r, n) BY DEF DeletePost, DeleteArticle
<1> HIDE DEF at
<1>3. n \in Request /\ n.op = "delete" /\ n.at = at /\ n.old = doc.images BY <1>1, HoldingFields
<1> HIDE DEF n
<1> QED BY <1>2, <1>3, AcceptFields, RacedType DEF Replaced, at

\* What a save of a post does to the requests: r's goes on, or ends, and the copies
\* that others hold may be outdated.
Stale(m, q) ==
    /\ m.op = q.op /\ m.at = q.at /\ m.user = q.user /\ m.next = q.next /\ m.comment = q.comment
    /\ m.parent = q.parent /\ m.n = q.n /\ m.seen = q.seen /\ m.copy = q.copy
    /\ m.images = q.images /\ m.body = q.body /\ m.old = q.old
    /\ m.fresh => q.fresh

LEMMA SavePostFields ==
    ASSUME TypeOK, NEW r \in Requests, SavePost(r)
    PROVE  /\ req[r].op = "update" /\ req[r].at = "save" /\ kind = "post"
           /\ req' \in [Requests -> Request]
           /\ \/ /\ req[r].images = req[r].copy.images /\ UNCHANGED <<doc, held>>
                 /\ Replaced(r, req'[r]) /\ req'[r].op = "update" /\ req'[r].at = "clean"
                 /\ req'[r].images = req[r].images /\ req'[r].old = req[r].old
                 /\ req'[r].copy = req[r].copy
              \/ Replaced(r, Idle) /\ UNCHANGED <<doc, held>>
              \/ /\ req[r].fresh
                 /\ doc' = [doc EXCEPT !.images = req[r].images] /\ held' = held \ req[r].images
                 /\ req'[r].op = "update" /\ req'[r].at = "clean" /\ req'[r].images = req[r].images
                 /\ req'[r].old = req[r].old /\ req'[r].copy = req[r].copy
                 /\ \A q \in Requests \ {r} : Stale(req'[q], req[q]) /\ ~req'[q].fresh
<1>1. req[r].op = "update" /\ req[r].at = "save" /\ kind = "post" BY DEF SavePost, At
<1>2. req \in [Requests -> Request] /\ "clean" \in Stages BY DEF TypeOK, Stages
<1>3. CASE req[r].images = req[r].copy.images /\ Goto(r, "clean") /\ UNCHANGED <<doc, held>>
  <2>1. /\ Replaced(r, req'[r]) /\ req'[r].op = "update" /\ req'[r].at = "clean"
        /\ req'[r].images = req[r].images /\ req'[r].old = req[r].old /\ req'[r].copy = req[r].copy
    BY <1>1, <1>2, <1>3, GotoFields
  <2> QED BY <1>1, <1>3, <2>1 DEF Replaced
<1>4. CASE Done(r) /\ UNCHANGED <<doc, held>>
  <2>1. Replaced(r, Idle) BY <1>4, DoneFields
  <2> QED BY <1>1, <1>4, <2>1 DEF Replaced
<1>5. CASE /\ req[r].fresh
           /\ doc' = [doc EXCEPT !.images = req[r].images]
           /\ held' = held \ req[r].images
           /\ req' = [q \in Requests |-> IF q = r THEN [req[r] EXCEPT !.at = "clean"]
                                         ELSE [req[q] EXCEPT !.fresh = FALSE]]
  <2>1. req[r] \in Request BY <1>2
  <2>2. req'[r] = [req[r] EXCEPT !.at = "clean"] BY <1>5
  <2>3. /\ req'[r] \in Request /\ req'[r].op = "update" /\ req'[r].at = "clean"
        /\ req'[r].images = req[r].images /\ req'[r].old = req[r].old /\ req'[r].copy = req[r].copy
    BY <1>1, <1>2, <2>1, <2>2 DEF Request
  <2>4. ASSUME NEW q \in Requests, q # r
        PROVE  req'[q] \in Request /\ Stale(req'[q], req[q]) /\ ~req'[q].fresh
    <3>1. req[q] \in Request BY <1>2
    <3>2. req'[q] = [req[q] EXCEPT !.fresh = FALSE] BY <1>5, <2>4
    <3>3. req'[q] \in Request /\ ~req'[q].fresh BY <3>1, <3>2 DEF Request
    <3>4. /\ req'[q].op = req[q].op /\ req'[q].at = req[q].at /\ req'[q].user = req[q].user
          /\ req'[q].next = req[q].next /\ req'[q].comment = req[q].comment
          /\ req'[q].parent = req[q].parent /\ req'[q].n = req[q].n /\ req'[q].seen = req[q].seen
          /\ req'[q].copy = req[q].copy /\ req'[q].images = req[q].images
          /\ req'[q].body = req[q].body /\ req'[q].old = req[q].old
      BY <3>1, <3>2 DEF Request
    <3> QED BY <3>3, <3>4 DEF Stale
  <2>5. \A q \in Requests : req'[q] \in Request BY <2>3, <2>4
  <2>6. req' \in [Requests -> Request] BY <1>5, <2>5
  <2> QED BY <1>1, <1>5, <2>3, <2>4, <2>6
<1> QED BY <1>3, <1>4, <1>5 DEF SavePost

-----------------------------------------------------------------------------
(* Types *)

\* A step that changes nothing but requests, and what has raced
LEMMA RequestType ==
    ASSUME TypeOK, req' \in [Requests -> Request], raced' \subseteq Topics,
           UNCHANGED <<kind, doc, text, liked, viewed, row, stored, held, stray>>
    PROVE  TypeOK'
BY DEF TypeOK

LEMMA CutFields ==
    ASSUME TypeOK, NEW r \in Requests, Cut(r)
    PROVE  /\ req[r].op # "idle" /\ Replaced(r, Idle)
           /\ raced \subseteq raced' /\ raced' \subseteq Topics
           /\ req[r].op \in {"like", "view"} /\ req[r].at = "total" => "engagement" \in raced'
           /\ req[r].op \in {"comment", "uncomment"} /\ req[r].at = "total" => "comments" \in raced'
           /\ req[r].op = "uncomment" /\ req[r].at = "read" => "comments" \in raced'
<1>1. Done(r) /\ req[r].op # "idle" BY DEF Cut
<1>2. raced' = raced \cup
        (IF req[r].at # "total" THEN {}
         ELSE IF req[r].op \in {"like", "view"} THEN {"engagement"} ELSE {"comments"})
        \cup (IF req[r].op = "uncomment" /\ req[r].at = "read" THEN {"comments"} ELSE {})
  BY DEF Cut
<1>3. raced \subseteq Topics BY DEF TypeOK
<1>4. raced' \subseteq Topics BY <1>2, <1>3 DEF Topics
<1> QED BY <1>1, <1>2, <1>4, DoneFields

LEMMA ReactsType ==
    ASSUME TypeOK, NEW r \in Requests,
           \/ \E u \in Users : \E op \in {"like", "view"} : React(r, op, u)
           \/ ReactFind(r) \/ ReactWrite(r) \/ ReactTotal(r)
    PROVE  TypeOK'
<1>1. ASSUME NEW u \in Users, NEW op \in {"like", "view"}, React(r, op, u) PROVE TypeOK'
  BY <1>1, ReactFields, RequestType DEF React, Replaced
<1>2. CASE ReactFind(r)
  <2>1. req' \in [Requests -> Request] BY <1>2, ReactFindFields DEF Replaced
  <2>2. raced' \subseteq Topics BY <1>2 DEF ReactFind, TypeOK
  <2> QED BY <1>2, <2>1, <2>2, RequestType DEF ReactFind
<1>3. CASE ReactWrite(r)
  <2>1. Goto(r, "total") /\ "total" \in Stages BY <1>3 DEF ReactWrite, Stages
  <2>2. req' \in [Requests -> Request] BY <2>1, GotoFields DEF Replaced
  <2>3. req[r].user \in Users BY DEF TypeOK, Request
  <2>4. liked' \subseteq Users /\ viewed' \subseteq Users BY <1>3, <2>3 DEF ReactWrite, TypeOK
  <2> QED BY <1>3, <2>2, <2>4 DEF ReactWrite, TypeOK
<1>4. CASE ReactTotal(r)
  <2>1. req' \in [Requests -> Request] BY <1>4, DoneFields DEF ReactTotal, Replaced
  <2>2. doc' \in Document BY <1>4 DEF ReactTotal, TypeOK, Document
  <2> QED BY <1>4, <2>1, <2>2 DEF ReactTotal, TypeOK
<1> QED BY <1>1, <1>2, <1>3, <1>4

LEMMA GoneType ==
    ASSUME TypeOK, NEW c \in Comments
    PROVE  Gone(c) \in Row
<1>1. row[c] \in Row BY DEF TypeOK
<1> QED BY <1>1 DEF Gone, Row

LEMMA CommentsType ==
    ASSUME TypeOK, NEW r \in Requests,
           \/ \E u \in Users, p \in Comments \cup {NoComment} : Comment(r, u, p)
           \/ CommentFind(r) \/ CommentTotal(r)
           \/ \E c \in Comments : CommentWrite(r, c)
    PROVE  TypeOK'
<1>1. ASSUME NEW u \in Users, NEW p \in Comments \cup {NoComment}, Comment(r, u, p) PROVE TypeOK'
  BY <1>1, CommentFields, RequestType DEF Comment, Replaced
<1>2. CASE CommentFind(r)
  <2>1. Goto(r, "write") \/ Done(r) BY <1>2 DEF CommentFind
  <2>2. "write" \in Stages BY DEF Stages
  <2>3. req' \in [Requests -> Request] BY <2>1, <2>2, GotoFields, DoneFields DEF Replaced
  <2>4. raced' \subseteq Topics BY <1>2 DEF CommentFind, TypeOK
  <2> QED BY <1>2, <2>3, <2>4, RequestType DEF CommentFind
<1>3. CASE CommentTotal(r)
  <2>1. req' \in [Requests -> Request] BY <1>3, DoneFields DEF CommentTotal, Replaced
  <2>2. doc' \in Document BY <1>3 DEF CommentTotal, TypeOK, Document
  <2> QED BY <1>3, <2>1, <2>2 DEF CommentTotal, TypeOK
<1>4. ASSUME NEW c \in Comments, CommentWrite(r, c) PROVE TypeOK'
  <2>1. Goto(r, "total") /\ "total" \in Stages BY <1>4 DEF CommentWrite, Stages
  <2>2. req' \in [Requests -> Request] BY <2>1, GotoFields DEF Replaced
  <2>3. req[r].user \in Users /\ req[r].parent \in Comments \cup {NoComment} BY DEF TypeOK, Request
  <2>4. [stage |-> "there", user |-> req[r].user, parent |-> req[r].parent] \in Row BY <2>3 DEF Row
  <2>5. row' \in [Comments -> Row] BY <1>4, <2>4 DEF CommentWrite, TypeOK
  <2> QED BY <1>4, <2>2, <2>5 DEF CommentWrite, TypeOK
<1> QED BY <1>1, <1>2, <1>3, <1>4

LEMMA UncommentsType ==
    ASSUME TypeOK, NEW r \in Requests,
           \/ \E u \in Users, c \in Comments : Uncomment(r, u, c)
           \/ UncommentFind(r) \/ UncommentCount(r) \/ UncommentWrite(r)
           \/ UncommentRead(r) \/ UncommentTotal(r)
    PROVE  TypeOK'
<1>1. ASSUME NEW u \in Users, NEW c \in Comments, Uncomment(r, u, c) PROVE TypeOK'
  BY <1>1, UncommentFields, RequestType DEF Uncomment, Replaced
<1>2. CASE UncommentFind(r) \/ UncommentCount(r) \/ UncommentRead(r)
  <2>1. req' \in [Requests -> Request]
    BY <1>2, UncommentFindFields, UncommentCountFields, UncommentReadFields DEF Replaced
  <2>2. raced' \subseteq Topics BY <1>2 DEF UncommentFind, UncommentCount, UncommentRead, TypeOK
  <2> QED BY <1>2, <2>1, <2>2, RequestType DEF UncommentFind, UncommentCount, UncommentRead
<1>3. CASE UncommentWrite(r)
  <2>1. Goto(r, IF kind = "post" THEN "total" ELSE "read")
          /\ (IF kind = "post" THEN "total" ELSE "read") \in Stages
    BY <1>3 DEF UncommentWrite, Stages
  <2>2. req' \in [Requests -> Request] BY <2>1, GotoFields DEF Replaced
  <2> DEFINE gone == {req[r].comment} \cup
                     (IF req[r].parent = NoComment THEN Replies(req[r].comment) ELSE {})
  <2>3. row' = [d \in Comments |-> IF d \in gone THEN Gone(d) ELSE row[d]]
    BY <1>3 DEF UncommentWrite
  <2> HIDE DEF gone
  <2>4. row' \in [Comments -> Row] BY <2>3, GoneType DEF TypeOK
  <2> QED BY <1>3, <2>2, <2>4 DEF UncommentWrite, TypeOK
<1>4. CASE UncommentTotal(r)
  <2>1. req' \in [Requests -> Request] BY <1>4, DoneFields DEF UncommentTotal, Replaced
  <2>2. req[r].seen \in Int /\ req[r].n \in Nat BY DEF TypeOK, Request
  <2> DEFINE left == req[r].seen - req[r].n
  <2>3. (IF left < 0 THEN 0 ELSE left) \in Int BY <2>2
  <2>4. doc' = [doc EXCEPT !.comments = IF left < 0 THEN 0 ELSE left] BY <1>4 DEF UncommentTotal
  <2> HIDE DEF left
  <2>5. doc' \in Document BY <2>3, <2>4 DEF TypeOK, Document
  <2> QED BY <1>4, <2>1, <2>5 DEF UncommentTotal, TypeOK
<1> QED BY <1>1, <1>2, <1>3, <1>4

LEMMA PostsType ==
    ASSUME TypeOK,
           \/ \E images \in SUBSET Images : CreatePost(images)
           \/ \E r \in Requests, images \in SUBSET Images : UpdatePost(r, images)
           \/ \E r \in Requests : SavePost(r) \/ CleanUpdate(r)
           \/ \E i \in Images : DeleteUpload(i)
    PROVE  TypeOK'
<1>1. ASSUME NEW images \in SUBSET Images, CreatePost(images) PROVE TypeOK'
  <2>1. doc' \in Document
    <3> DEFINE b == [Blank EXCEPT !.stage = "live"]
    <3>1. b \in Document BY IdleType DEF Document
    <3>2. doc' = [b EXCEPT !.images = images] BY <1>1 DEF CreatePost
    <3> HIDE DEF b
    <3> QED BY <3>1, <3>2 DEF Document
  <2> QED BY <1>1, <2>1 DEF CreatePost, Submit, TypeOK
<1>2. ASSUME NEW r \in Requests, NEW images \in SUBSET Images, UpdatePost(r, images) PROVE TypeOK'
  <2>1. req' \in [Requests -> Request] /\ raced' \subseteq Topics
    BY <1>2, UpdatePostFields DEF Replaced
  <2> QED BY <1>2, <2>1 DEF UpdatePost, Submit, TypeOK
<1>3. ASSUME NEW r \in Requests, SavePost(r) PROVE TypeOK'
  <2>1. req' \in [Requests -> Request] BY <1>3, SavePostFields
  <2>2. req[r].images \in SUBSET Images BY DEF TypeOK, Request
  <2>3. doc' = doc \/ doc' = [doc EXCEPT !.images = req[r].images] BY <1>3 DEF SavePost
  <2>4. doc' \in Document BY <2>2, <2>3 DEF TypeOK, Document
  <2>5. held' \subseteq held BY <1>3 DEF SavePost
  <2> QED BY <1>3, <2>1, <2>4, <2>5 DEF SavePost, TypeOK
<1>4. ASSUME NEW r \in Requests, CleanUpdate(r) PROVE TypeOK'
  <2>1. req' \in [Requests -> Request] BY <1>4, DoneFields DEF CleanUpdate, Replaced
  <2> QED BY <1>4, <2>1 DEF CleanUpdate, TypeOK
<1>5. ASSUME NEW i \in Images, DeleteUpload(i) PROVE TypeOK'
  BY <1>5 DEF DeleteUpload, TypeOK
<1> QED BY <1>1, <1>2, <1>3, <1>4, <1>5

LEMMA ArticlesType ==
    ASSUME TypeOK, NEW r \in Requests,
           \/ \E images, body \in SUBSET Images : CreateArticle(r, images, body) \/ UpdateArticle(r, images, body)
           \/ ReadText(r) \/ PutText(r) \/ SaveArticle(r)
    PROVE  TypeOK'
<1>1. ASSUME NEW images \in SUBSET Images, NEW body \in SUBSET Images, CreateArticle(r, images, body)
      PROVE  TypeOK'
  <2>1. doc' \in Document
    <3> DEFINE b == [Blank EXCEPT !.stage = "live"]
    <3>1. b \in Document BY IdleType DEF Document
    <3>2. doc' = [b EXCEPT !.images = images] BY <1>1 DEF CreateArticle
    <3> HIDE DEF b
    <3> QED BY <3>1, <3>2 DEF Document
  <2>2. req' \in [Requests -> Request] /\ raced' \subseteq Topics
    BY <1>1, CreateArticleFields DEF Replaced
  <2> QED BY <1>1, <2>1, <2>2 DEF CreateArticle, Submit, TypeOK
<1>2. ASSUME NEW images \in SUBSET Images, NEW body \in SUBSET Images, UpdateArticle(r, images, body)
      PROVE  TypeOK'
  <2>1. req' \in [Requests -> Request] /\ raced' \subseteq Topics
    BY <1>2, UpdateArticleFields DEF Replaced
  <2> QED BY <1>2, <2>1 DEF UpdateArticle, Submit, TypeOK
<1>3. CASE ReadText(r)
  <2>1. req' \in [Requests -> Request] BY <1>3, ReadTextFields DEF Replaced
  <2>2. raced' \subseteq Topics BY <1>3 DEF ReadText, TypeOK
  <2> QED BY <1>3, <2>1, <2>2, RequestType DEF ReadText
<1>4. CASE PutText(r)
  <2>1. Goto(r, "save") \/ Done(r) BY <1>4 DEF PutText
  <2>2. "save" \in Stages BY DEF Stages
  <2>3. req' \in [Requests -> Request] BY <2>1, <2>2, GotoFields, DoneFields DEF Replaced
  <2>4. req[r].body \subseteq Images BY DEF TypeOK, Request
  <2> QED BY <1>4, <2>3, <2>4 DEF PutText, TypeOK
<1>5. CASE SaveArticle(r)
  <2>1. Goto(r, "clean") /\ "clean" \in Stages BY <1>5 DEF SaveArticle, Stages
  <2>2. req' \in [Requests -> Request] BY <2>1, GotoFields DEF Replaced
  <2>3. req[r].images \in SUBSET Images BY DEF TypeOK, Request
  <2>4. doc' = doc \/ doc' = [doc EXCEPT !.images = req[r].images] BY <1>5 DEF SaveArticle
  <2>5. doc' \in Document BY <2>3, <2>4 DEF TypeOK, Document
  <2> QED BY <1>5, <2>2, <2>5 DEF SaveArticle, TypeOK
<1> QED BY <1>1, <1>2, <1>3, <1>4, <1>5

\* What the save of a deletion leaves of the document
LEMMA SaveDeleteFields ==
    ASSUME TypeOK, NEW r \in Requests, SaveDelete(r)
    PROVE  /\ doc' \in Document /\ doc'.stage = "deleted" /\ doc'.images = doc.images
           /\ req[r].op = "delete" /\ req[r].at = "save"
           /\ Replaced(r, req'[r]) /\ req'[r].op = "delete" /\ req'[r].old = req[r].old
           /\ req'[r].at = (IF kind = "post" THEN "clean" ELSE "wipe")
<1> DEFINE l == IF req[r].copy.likes = 0 THEN doc.likes ELSE 0
           v == IF req[r].copy.views = 0 THEN doc.views ELSE 0
           c == IF req[r].copy.comments = 0 THEN doc.comments ELSE 0
           A == [doc EXCEPT !.stage = "deleted"]
           B == [A EXCEPT !.likes = l]
           C == [B EXCEPT !.views = v]
           at == IF kind = "post" THEN "clean" ELSE "wipe"
<1>1. doc' = [C EXCEPT !.comments = c] BY DEF SaveDelete
<1>2. doc \in Document /\ l \in Int /\ v \in Int /\ c \in Int BY DEF TypeOK, Document
<1> HIDE DEF l, v, c
<1>3. A \in Document /\ A.stage = "deleted" /\ A.images = doc.images BY <1>2 DEF Document
<1> HIDE DEF A
<1>4. B \in Document /\ B.stage = "deleted" /\ B.images = doc.images BY <1>2, <1>3 DEF Document
<1> HIDE DEF B
<1>5. C \in Document /\ C.stage = "deleted" /\ C.images = doc.images BY <1>2, <1>4 DEF Document
<1> HIDE DEF C
<1>6. doc' \in Document /\ doc'.stage = "deleted" /\ doc'.images = doc.images
  BY <1>1, <1>2, <1>5 DEF Document
<1>7. at \in Stages BY DEF Stages
<1>8. Goto(r, at) /\ req[r].op = "delete" /\ req[r].at = "save" BY DEF SaveDelete, At
<1> HIDE DEF at
<1>9. Replaced(r, req'[r]) /\ req'[r].op = req[r].op /\ req'[r].old = req[r].old /\ req'[r].at = at
  BY <1>7, <1>8, GotoFields
<1> QED BY <1>6, <1>8, <1>9 DEF at

LEMMA DeletionsType ==
    ASSUME TypeOK, NEW r \in Requests,
           \/ DeletePost(r) \/ DeleteArticle(r) \/ SaveDelete(r) \/ CleanDelete(r) \/ Wipe(r) \/ Cut(r)
    PROVE  TypeOK'
<1>1. CASE DeletePost(r) \/ DeleteArticle(r)
  BY <1>1, DeleteFields, RequestType DEF DeletePost, DeleteArticle, Replaced
<1>2. CASE SaveDelete(r)
  BY <1>2, SaveDeleteFields DEF SaveDelete, TypeOK, Replaced
<1>3. CASE CleanDelete(r)
  <2>1. Goto(r, "wipe") \/ Done(r) BY <1>3 DEF CleanDelete
  <2>2. "wipe" \in Stages BY DEF Stages
  <2>3. req' \in [Requests -> Request] BY <2>1, <2>2, GotoFields, DoneFields DEF Replaced
  <2> QED BY <1>3, <2>3 DEF CleanDelete, TypeOK
<1>4. CASE Wipe(r)
  <2>1. Goto(r, "clean") \/ Done(r) BY <1>4 DEF Wipe
  <2>2. "clean" \in Stages BY DEF Stages
  <2>3. req' \in [Requests -> Request] BY <2>1, <2>2, GotoFields, DoneFields DEF Replaced
  <2>4. row' \in [Comments -> Row] BY <1>4, GoneType DEF Wipe
  <2> QED BY <1>4, <2>3, <2>4 DEF Wipe, TypeOK
<1>5. CASE Cut(r) BY <1>5, CutFields, RequestType DEF Cut, Replaced
<1> QED BY <1>1, <1>2, <1>3, <1>4, <1>5

LEMMA NextType ==
    ASSUME TypeOK, [Next]_vars
    PROVE  TypeOK'
<1>1. ASSUME NEW r \in Requests,
             \/ \E u \in Users : \E op \in {"like", "view"} : React(r, op, u)
             \/ ReactFind(r) \/ ReactWrite(r) \/ ReactTotal(r)
             \/ \E u \in Users, p \in Comments \cup {NoComment} : Comment(r, u, p)
             \/ CommentFind(r) \/ CommentTotal(r)
             \/ \E c \in Comments : CommentWrite(r, c)
      PROVE  TypeOK'
  BY <1>1, ReactsType, CommentsType
<1>2. ASSUME NEW r \in Requests,
             \/ \E u \in Users, c \in Comments : Uncomment(r, u, c)
             \/ UncommentFind(r) \/ UncommentCount(r) \/ UncommentWrite(r)
             \/ UncommentRead(r) \/ UncommentTotal(r)
      PROVE  TypeOK'
  BY <1>2, UncommentsType
<1>3. CASE \/ \E images \in SUBSET Images : CreatePost(images)
           \/ \E r \in Requests, images \in SUBSET Images : UpdatePost(r, images)
           \/ \E r \in Requests : SavePost(r) \/ CleanUpdate(r)
           \/ \E i \in Images : DeleteUpload(i)
  BY <1>3, PostsType
<1>4. ASSUME NEW r \in Requests,
             \/ \E images, body \in SUBSET Images : CreateArticle(r, images, body) \/ UpdateArticle(r, images, body)
             \/ ReadText(r) \/ PutText(r) \/ SaveArticle(r)
      PROVE  TypeOK'
  BY <1>4, ArticlesType
<1>5. ASSUME NEW r \in Requests,
             \/ DeletePost(r) \/ DeleteArticle(r) \/ SaveDelete(r) \/ CleanDelete(r) \/ Wipe(r) \/ Cut(r)
      PROVE  TypeOK'
  BY <1>5, DeletionsType
<1>6. CASE UNCHANGED vars BY <1>6 DEF vars, TypeOK
<1> QED BY <1>1, <1>2, <1>3, <1>4, <1>5, <1>6 DEF Next

-----------------------------------------------------------------------------
(* Before there is a document, and once there is one *)

LEMMA UnbornKept ==
    ASSUME doc'.stage # "none"
    PROVE  Unborn'
BY DEF Unborn

\* A request under way is about a document.
LEMMA Born ==
    ASSUME Unborn, NEW r \in Requests, req[r].op # "idle"
    PROVE  doc.stage # "none"
BY DEF Unborn

LEMMA NextUnborn ==
    ASSUME TypeOK, Unborn, [Next]_vars
    PROVE  Unborn'
<1> USE DEF Live
<1>0. doc \in Document BY DEF TypeOK
<1>1. ASSUME NEW r \in Requests, NEW u \in Users, NEW op \in {"like", "view"}, React(r, op, u)
      PROVE  Unborn'
  BY <1>1, UnbornKept DEF React
<1>2. ASSUME NEW r \in Requests, ReactFind(r) \/ ReactWrite(r) \/ ReactTotal(r) PROVE Unborn'
  <2>1. doc.stage # "none" BY <1>2, Born DEF ReactFind, ReactWrite, ReactTotal
  <2>2. doc'.stage = doc.stage BY <1>0, <1>2 DEF ReactFind, ReactWrite, ReactTotal, Document
  <2> QED BY <2>1, <2>2, UnbornKept
<1>3. ASSUME NEW r \in Requests, NEW u \in Users,
             \/ \E p \in Comments \cup {NoComment} : Comment(r, u, p)
             \/ \E c \in Comments : Uncomment(r, u, c)
      PROVE  Unborn'
  BY <1>3, UnbornKept DEF Comment, Uncomment
<1>4. ASSUME NEW r \in Requests,
             CommentFind(r) \/ CommentTotal(r) \/ \E c \in Comments : CommentWrite(r, c)
      PROVE  Unborn'
  <2>1. doc.stage # "none" BY <1>4, Born DEF CommentFind, CommentTotal, CommentWrite, At
  <2>2. doc'.stage = doc.stage BY <1>0, <1>4 DEF CommentFind, CommentTotal, CommentWrite, Document
  <2> QED BY <2>1, <2>2, UnbornKept
<1>5. ASSUME NEW r \in Requests,
             \/ UncommentFind(r) \/ UncommentCount(r) \/ UncommentWrite(r)
             \/ UncommentRead(r) \/ UncommentTotal(r)
      PROVE  Unborn'
  <2>1. doc.stage # "none"
    BY <1>5, Born DEF UncommentFind, UncommentCount, UncommentWrite, UncommentRead, UncommentTotal, At
  <2>2. doc'.stage = doc.stage
    BY <1>0, <1>5 DEF UncommentFind, UncommentCount, UncommentWrite, UncommentRead, UncommentTotal, Document
  <2> QED BY <2>1, <2>2, UnbornKept
<1>6. ASSUME NEW images \in SUBSET Images,
             \/ CreatePost(images)
             \/ \E r \in Requests, body \in SUBSET Images : CreateArticle(r, images, body)
      PROVE  Unborn'
  <2>1. doc' = [Blank EXCEPT !.stage = "live", !.images = images]
    BY <1>6 DEF CreatePost, CreateArticle
  <2>2. doc'.stage = "live" BY <2>1, IdleType DEF Document
  <2> QED BY <2>2, UnbornKept
<1>7. ASSUME NEW r \in Requests,
             \/ \E images \in SUBSET Images : UpdatePost(r, images)
             \/ \E images, body \in SUBSET Images : UpdateArticle(r, images, body)
             \/ DeletePost(r) \/ DeleteArticle(r)
      PROVE  Unborn'
  BY <1>7, UnbornKept DEF UpdatePost, UpdateArticle, DeletePost, DeleteArticle
<1>8. ASSUME NEW r \in Requests,
             \/ SavePost(r) \/ CleanUpdate(r) \/ ReadText(r) \/ PutText(r) \/ SaveArticle(r)
             \/ CleanDelete(r) \/ Wipe(r) \/ Cut(r)
      PROVE  Unborn'
  <2>1. doc.stage # "none"
    BY <1>8, Born DEF SavePost, CleanUpdate, ReadText, PutText, SaveArticle, CleanDelete, Wipe, Cut, At
  <2>2. doc'.stage = doc.stage
    BY <1>0, <1>8
    DEF SavePost, CleanUpdate, ReadText, PutText, SaveArticle, CleanDelete, Wipe, Cut, Document
  <2> QED BY <2>1, <2>2, UnbornKept
<1>9. ASSUME NEW r \in Requests, SaveDelete(r) PROVE Unborn'
  BY <1>9, SaveDeleteFields, UnbornKept
<1>10. ASSUME NEW i \in Images, DeleteUpload(i) PROVE Unborn'
  BY <1>10 DEF DeleteUpload, Unborn
<1>11. CASE UNCHANGED vars BY <1>11 DEF vars, Unborn
<1> QED BY <1>1, <1>2, <1>3, <1>4, <1>5, <1>6, <1>7, <1>8, <1>9, <1>10, <1>11 DEF Next

-----------------------------------------------------------------------------
(* Edits and images *)

\* A request m that, for edits, is what q was
EditSame(m, q) ==
    /\ m.op = q.op /\ m.at = q.at /\ m.copy = q.copy
    /\ m.images = q.images /\ m.body = q.body /\ m.old = q.old
    /\ m.fresh => q.fresh

\* Steps of likes, views and comments, and the end of a request
LEMMA EditsKept ==
    ASSUME Edits, UNCHANGED <<kind, text, held, stored, stray>>,
           doc'.stage = doc.stage, doc'.images = doc.images, raced \subseteq raced',
           \A q \in Requests :
             \/ EditSame(req'[q], req[q])
             \/ req'[q].op \notin {"create", "update", "delete"} /\ req'[q].old \in {{}, req[q].old}
    PROVE  Edits'
<1>1. Shown' = Shown /\ (Live' <=> Live) BY DEF Shown, Live
<1>2. Deletions' BY DEF Edits, Deletions, EditSame
<1>3. Uploads'
  <2>1. \A q \in Requests : req'[q].old \in {{}, req[q].old} BY DEF EditSame
  <2> QED BY <1>1, <2>1 DEF Edits, Uploads
<1>4. Posts'
  <2> SUFFICES ASSUME kind = "post"
               PROVE  /\ text'.images = {} /\ (Live' => doc'.images \subseteq stored' \cup stray')
                      /\ \A q \in Requests : PostRequest(req[q])'
    BY DEF Posts
  <2>1. ASSUME NEW q \in Requests PROVE PostRequest(req[q])'
    <3>1. PostRequest(req[q]) BY DEF Edits, Posts
    <3>2. CASE EditSame(req'[q], req[q])
      BY <3>1, <3>2 DEF PostRequest, EditSame, Dropped
    <3>3. CASE req'[q].op \notin {"create", "update", "delete"}
      BY <3>3 DEF PostRequest, Dropped
    <3> QED BY <3>2, <3>3
  <2> QED BY <1>1, <2>1 DEF Edits, Posts
<1>5. Articles'
  <2> SUFFICES ASSUME kind = "article", Live, "images" \notin raced
               PROVE  /\ Shown' \subseteq stored' \cup stray'
                      /\ \A q, r \in Requests :
                           req'[q].op \in Writers /\ req'[r].op \in Writers => q = r
                      /\ \A q \in Requests : ArticleRequest(req[q])'
    BY <1>1 DEF Articles
  <2>1. ASSUME NEW q \in Requests PROVE ArticleRequest(req[q])'
    <3>1. ArticleRequest(req[q]) BY DEF Edits, Articles
    <3>2. CASE EditSame(req'[q], req[q])
      BY <1>1, <3>1, <3>2 DEF ArticleRequest, EditSame
    <3>3. CASE req'[q].op \notin {"create", "update", "delete"}
      BY <3>3 DEF ArticleRequest, Writers
    <3> QED BY <3>2, <3>3
  <2>2. \A q \in Requests : req'[q].op \in Writers => req[q].op \in Writers BY DEF EditSame, Writers
  <2> QED BY <1>1, <2>1, <2>2 DEF Edits, Articles
<1> QED BY <1>2, <1>3, <1>4, <1>5 DEF Edits

\* The same for a step that replaces one request
LEMMA EditsKeptBy ==
    ASSUME Edits, TypeOK, UNCHANGED <<kind, text, held, stored, stray>>,
           doc'.stage = doc.stage, doc'.images = doc.images, raced \subseteq raced',
           NEW r \in Requests, NEW n, Replaced(r, n),
           n.op \notin {"create", "update", "delete"}, n.old \in {{}, req[r].old}
    PROVE  Edits'
<1>1. \A q \in Requests \ {r} : req'[q] = req[q] BY DEF Replaced
<1>2. \A q \in Requests \ {r} : EditSame(req'[q], req[q]) BY <1>1 DEF EditSame
<1>3. req'[r] = n BY DEF Replaced
<1> QED BY <1>2, <1>3, EditsKept

LEMMA ReactsKeepEdits ==
    ASSUME TypeOK, Edits, NEW r \in Requests,
           \/ \E u \in Users : \E op \in {"like", "view"} : React(r, op, u)
           \/ ReactFind(r) \/ ReactWrite(r) \/ ReactTotal(r)
    PROVE  Edits'
<1>0. doc \in Document BY DEF TypeOK
<1>1. ASSUME NEW u \in Users, NEW op \in {"like", "view"}, React(r, op, u) PROVE Edits'
  BY <1>1, ReactFields, EditsKeptBy DEF React
<1>2. CASE ReactFind(r)
  <2>1. \E n : Replaced(r, n) /\ n.op \notin {"create", "update", "delete"} /\ n.old \in {{}, req[r].old}
    BY <1>2, ReactFindFields, IdleType
  <2> QED BY <1>2, <2>1, EditsKeptBy DEF ReactFind
<1>3. CASE ReactWrite(r)
  <2>1. Goto(r, "total") /\ "total" \in Stages /\ req[r].op \in {"like", "view"}
    BY <1>3 DEF ReactWrite, Stages
  <2>2. /\ Replaced(r, req'[r]) /\ req'[r].op = req[r].op /\ req'[r].old = req[r].old
    BY <2>1, GotoFields
  <2> QED BY <1>3, <2>1, <2>2, EditsKeptBy DEF ReactWrite
<1>4. CASE ReactTotal(r)
  <2>1. Replaced(r, Idle) BY <1>4, DoneFields DEF ReactTotal
  <2>2. doc'.stage = doc.stage /\ doc'.images = doc.images BY <1>0, <1>4 DEF ReactTotal, Document
  <2> QED BY <1>4, <2>1, <2>2, IdleType, EditsKeptBy DEF ReactTotal
<1> QED BY <1>1, <1>2, <1>3, <1>4

LEMMA CommentsKeepEdits ==
    ASSUME TypeOK, Edits, NEW r \in Requests,
           \/ \E u \in Users, p \in Comments \cup {NoComment} : Comment(r, u, p)
           \/ CommentFind(r) \/ CommentTotal(r)
           \/ \E c \in Comments : CommentWrite(r, c)
    PROVE  Edits'
<1>0. doc \in Document BY DEF TypeOK
<1>1. ASSUME NEW u \in Users, NEW p \in Comments \cup {NoComment}, Comment(r, u, p) PROVE Edits'
  BY <1>1, CommentFields, EditsKeptBy DEF Comment
<1>2. CASE CommentFind(r)
  <2>1. Goto(r, "write") \/ Done(r) BY <1>2 DEF CommentFind
  <2>2. "write" \in Stages /\ req[r].op = "comment" BY <1>2 DEF CommentFind, Stages, At
  <2>3. CASE Goto(r, "write")
    <3>1. Replaced(r, req'[r]) /\ req'[r].op = req[r].op /\ req'[r].old = req[r].old
      BY <2>2, <2>3, GotoFields
    <3> QED BY <1>2, <2>2, <3>1, EditsKeptBy DEF CommentFind
  <2>4. CASE Done(r) BY <1>2, <2>4, DoneFields, IdleType, EditsKeptBy DEF CommentFind
  <2> QED BY <2>1, <2>3, <2>4
<1>3. CASE CommentTotal(r)
  <2>1. Replaced(r, Idle) BY <1>3, DoneFields DEF CommentTotal
  <2>2. doc'.stage = doc.stage /\ doc'.images = doc.images BY <1>0, <1>3 DEF CommentTotal, Document
  <2> QED BY <1>3, <2>1, <2>2, IdleType, EditsKeptBy DEF CommentTotal
<1>4. ASSUME NEW c \in Comments, CommentWrite(r, c) PROVE Edits'
  <2>1. Goto(r, "total") /\ "total" \in Stages /\ req[r].op = "comment"
    BY <1>4 DEF CommentWrite, Stages, At
  <2>2. Replaced(r, req'[r]) /\ req'[r].op = req[r].op /\ req'[r].old = req[r].old
    BY <2>1, GotoFields
  <2> QED BY <1>4, <2>1, <2>2, EditsKeptBy DEF CommentWrite
<1> QED BY <1>1, <1>2, <1>3, <1>4

LEMMA UncommentsKeepEdits ==
    ASSUME TypeOK, Edits, NEW r \in Requests,
           \/ \E u \in Users, c \in Comments : Uncomment(r, u, c)
           \/ UncommentFind(r) \/ UncommentCount(r) \/ UncommentWrite(r)
           \/ UncommentRead(r) \/ UncommentTotal(r)
    PROVE  Edits'
<1>0. doc \in Document BY DEF TypeOK
<1>1. ASSUME NEW u \in Users, NEW c \in Comments, Uncomment(r, u, c) PROVE Edits'
  BY <1>1, UncommentFields, EditsKeptBy DEF Uncomment
<1>2. CASE UncommentFind(r) \/ UncommentCount(r) \/ UncommentRead(r)
  <2>1. \E n : Replaced(r, n) /\ n.op \notin {"create", "update", "delete"} /\ n.old \in {{}, req[r].old}
    BY <1>2, UncommentFindFields, UncommentCountFields, UncommentReadFields, IdleType
  <2> QED BY <1>2, <2>1, EditsKeptBy DEF UncommentFind, UncommentCount, UncommentRead
<1>3. CASE UncommentWrite(r)
  <2> DEFINE at == IF kind = "post" THEN "total" ELSE "read"
  <2>1. Goto(r, at) /\ at \in Stages /\ req[r].op = "uncomment"
    BY <1>3 DEF UncommentWrite, Stages, At
  <2> HIDE DEF at
  <2>2. Replaced(r, req'[r]) /\ req'[r].op = req[r].op /\ req'[r].old = req[r].old
    BY <2>1, GotoFields
  <2> QED BY <1>3, <2>1, <2>2, EditsKeptBy DEF UncommentWrite
<1>4. CASE UncommentTotal(r)
  <2>1. Replaced(r, Idle) BY <1>4, DoneFields DEF UncommentTotal
  <2>2. doc'.stage = doc.stage /\ doc'.images = doc.images BY <1>0, <1>4 DEF UncommentTotal, Document
  <2> QED BY <1>4, <2>1, <2>2, IdleType, EditsKeptBy DEF UncommentTotal
<1> QED BY <1>1, <1>2, <1>3, <1>4

LEMMA CutKeepsEdits ==
    ASSUME TypeOK, Edits, NEW r \in Requests, Cut(r)
    PROVE  Edits'
BY CutFields, IdleType, EditsKeptBy DEF Cut

\* The steps of posts
LEMMA CreatePostKeepsEdits ==
    ASSUME TypeOK, Unborn, Edits, NEW images \in SUBSET Images, CreatePost(images)
    PROVE  Edits'
<1>1. doc'.stage = "live" /\ doc'.images = images
  <2> DEFINE b == [Blank EXCEPT !.stage = "live"]
  <2>1. b \in Document /\ b.stage = "live" BY IdleType DEF Document
  <2>2. doc' = [b EXCEPT !.images = images] BY DEF CreatePost
  <2> HIDE DEF b
  <2> QED BY <2>1, <2>2 DEF Document
<1>2. Shown = {} /\ text.images = {} /\ \A r \in Requests : req[r].op = "idle"
  BY IdleType DEF CreatePost, Unborn, Shown
<1>3. images \subseteq held \cup stray' BY <1>2 DEF CreatePost, Submit
<1>4. /\ kind = "post" /\ UNCHANGED <<kind, text, stored, req>> /\ held' = held \ images
  BY DEF CreatePost
<1>5. Deletions' BY <1>2, <1>4 DEF Deletions
<1>6. Uploads'
  <2>1. Shown' = images BY <1>1, <1>2, <1>4 DEF Shown
  <2> QED BY <1>4, <2>1 DEF Edits, Uploads
<1>7. Posts'
  <2>1. ASSUME NEW r \in Requests PROVE PostRequest(req[r])'
    BY <1>2, <1>4 DEF PostRequest, Dropped
  <2> QED BY <1>1, <1>2, <1>3, <1>4, <2>1 DEF Posts, Edits, Uploads
<1> QED BY <1>4, <1>5, <1>6, <1>7 DEF Edits, Articles

LEMMA UpdatePostKeepsEdits ==
    ASSUME TypeOK, Edits, NEW r \in Requests, NEW images \in SUBSET Images, UpdatePost(r, images)
    PROVE  Edits'
<1>1. /\ kind = "post" /\ stray' = stray \cup (images \ (Shown \cup held))
      /\ UNCHANGED <<kind, doc, text, stored, held>>
  BY DEF UpdatePost, Submit
<1>2. /\ req'[r].op = "update" /\ req'[r].at = "save" /\ req'[r].images = images
      /\ req'[r].copy = doc /\ req'[r].old = doc.images
      /\ \A q \in Requests \ {r} : req'[q] = req[q]
  BY UpdatePostFields DEF Replaced
<1>3. Deletions' BY <1>1, <1>2 DEF Edits, Deletions
<1>4. Uploads' BY <1>1, <1>2 DEF Edits, Uploads, Shown
<1>5. Posts'
  <2>1. text.images = {} BY <1>1 DEF Edits, Posts
  <2>2. ASSUME NEW q \in Requests PROVE PostRequest(req[q])'
    <3>1. CASE q = r
      BY <1>1, <1>2, <2>1, <3>1 DEF PostRequest, Dropped, Shown
    <3>2. CASE q # r
      <4>1. PostRequest(req[q]) /\ req'[q] = req[q] BY <1>1, <1>2, <3>2 DEF Edits, Posts
      <4> QED BY <1>1, <4>1 DEF PostRequest, Dropped
    <3> QED BY <3>1, <3>2
  <2> QED BY <1>1, <2>2 DEF Edits, Posts, Live
<1> QED BY <1>1, <1>3, <1>4, <1>5 DEF Edits, Articles

\* A save of a copy that is not outdated: what it drops is neither shown nor held
\* from now on.
LEMMA SavePostKeepsEdits ==
    ASSUME TypeOK, Edits, NEW r \in Requests, SavePost(r)
    PROVE  Edits'
<1>1. /\ kind = "post" /\ UNCHANGED <<kind, text, stored, stray, raced>> BY DEF SavePost
<1>2. req[r].op = "update" /\ req[r].at = "save" BY SavePostFields
<1>3. text.images = {} /\ \A q \in Requests : PostRequest(req[q]) BY <1>1 DEF Edits, Posts
<1>4. doc \in Document /\ Articles' BY <1>1 DEF TypeOK, Articles
<1>5. CASE /\ req[r].images = req[r].copy.images /\ UNCHANGED <<doc, held>>
           /\ Replaced(r, req'[r]) /\ req'[r].op = "update" /\ req'[r].at = "clean"
           /\ req'[r].images = req[r].images /\ req'[r].old = req[r].old
           /\ req'[r].copy = req[r].copy
  <2>1. \A q \in Requests \ {r} : req'[q] = req[q] BY <1>5 DEF Replaced
  <2>2. Deletions' BY <1>5, <2>1 DEF Edits, Deletions
  <2>3. Uploads' BY <1>1, <1>5, <2>1 DEF Edits, Uploads, Shown
  <2>4. ASSUME NEW q \in Requests PROVE PostRequest(req[q])'
    <3>1. CASE q = r
      <4>1. req[r].old = req[r].copy.images BY <1>2, <1>3 DEF PostRequest
      <4> QED BY <1>5, <3>1, <4>1 DEF PostRequest, Dropped
    <3>2. CASE q # r BY <1>1, <1>3, <1>5, <2>1, <3>2 DEF PostRequest, Dropped
    <3> QED BY <3>1, <3>2
  <2> QED BY <1>1, <1>4, <1>5, <2>2, <2>3, <2>4 DEF Edits, Posts, Live
<1>6. CASE Replaced(r, Idle) /\ UNCHANGED <<doc, held>>
  BY <1>1, <1>6, IdleType, EditsKeptBy
<1>7. CASE /\ req[r].fresh
           /\ doc' = [doc EXCEPT !.images = req[r].images] /\ held' = held \ req[r].images
           /\ req'[r].op = "update" /\ req'[r].at = "clean" /\ req'[r].images = req[r].images
           /\ req'[r].old = req[r].old /\ req'[r].copy = req[r].copy
           /\ \A q \in Requests \ {r} : Stale(req'[q], req[q]) /\ ~req'[q].fresh
  <2>1. doc'.images = req[r].images /\ doc'.stage = doc.stage BY <1>4, <1>7 DEF Document
  <2>2. /\ req[r].old = req[r].copy.images /\ req[r].copy.images = doc.images
        /\ req[r].images \subseteq doc.images \cup held \cup stray
    BY <1>2, <1>3, <1>7 DEF PostRequest
  <2>3. Deletions'
    BY <1>7, <2>1 DEF Edits, Deletions, Stale
  <2>4. \A q \in Requests : req'[q].old = req[q].old BY <1>7 DEF Stale
  <2>5. Uploads' BY <1>1, <1>3, <1>7, <2>1, <2>4 DEF Edits, Uploads, Shown
  <2>6. ASSUME NEW q \in Requests PROVE PostRequest(req[q])'
    <3>1. CASE q = r
      <4>1. doc.images \cap held = {} BY DEF Edits, Uploads, Shown
      <4> QED BY <1>7, <2>1, <2>2, <3>1, <4>1 DEF PostRequest, Dropped
    <3>2. CASE q # r
      <4>1. PostRequest(req[q]) /\ Stale(req'[q], req[q]) /\ ~req'[q].fresh BY <1>3, <1>7, <3>2
      <4>2. Dropped(req'[q]) = Dropped(req[q]) BY <4>1 DEF Dropped, Stale
      <4>3. doc'.images \cup held' \subseteq doc.images \cup held \cup stray BY <1>7, <2>1, <2>2
      <4>4. Dropped(req'[q]) \cap (doc'.images \cup held') \subseteq stray BY <4>1, <4>2, <4>3 DEF PostRequest
      <4> QED BY <1>1, <4>1, <4>4 DEF PostRequest, Stale
    <3> QED BY <3>1, <3>2
  <2>7. Live' => doc'.images \subseteq stored' \cup stray'
    BY <1>1, <2>1, <2>2 DEF Edits, Posts, Uploads, Live
  <2> QED BY <1>1, <1>3, <1>4, <2>3, <2>5, <2>6, <2>7 DEF Edits, Posts
<1> QED BY <1>5, <1>6, <1>7, SavePostFields

LEMMA DeleteUploadKeepsEdits ==
    ASSUME TypeOK, Edits, NEW i \in Images, DeleteUpload(i)
    PROVE  Edits'
<1>1. /\ held' = held \ {i} /\ stored' = stored \ {i} /\ stray' = stray \cup {i}
      /\ UNCHANGED <<kind, doc, text, req, raced>>
  BY DEF DeleteUpload
<1>2. Deletions' BY <1>1 DEF Edits, Deletions
<1>3. Shown' = Shown /\ (Live' <=> Live) /\ stored \cup stray \subseteq stored' \cup stray'
  BY <1>1 DEF Shown, Live
<1>4. Uploads' BY <1>1, <1>3 DEF Edits, Uploads
<1>5. Posts'
  <2>1. ASSUME kind = "post", NEW q \in Requests PROVE PostRequest(req[q])'
    <3>1. PostRequest(req[q]) BY <2>1 DEF Edits, Posts
    <3> QED BY <1>1, <3>1 DEF PostRequest, Dropped
  <2> QED BY <1>1, <1>3, <2>1 DEF Edits, Posts
<1>6. Articles'
  <2>1. ASSUME NEW q \in Requests, ArticleRequest(req[q]) PROVE ArticleRequest(req[q])'
    BY <1>1, <1>3, <2>1 DEF ArticleRequest
  <2> QED BY <1>1, <1>3, <2>1 DEF Edits, Articles
<1> QED BY <1>2, <1>4, <1>5, <1>6 DEF Edits

\* The cleaning of an update
LEMMA CleanUpdateKeepsEdits ==
    ASSUME TypeOK, Edits, NEW r \in Requests, CleanUpdate(r)
    PROVE  Edits'
<1> DEFINE gone == req[r].old \ (req[r].images \cup req[r].body)
<1>1. /\ req[r].op = "update" /\ req[r].at = "clean" /\ stored' = stored \ gone
      /\ UNCHANGED <<kind, doc, text, held, stray, raced>>
  BY DEF CleanUpdate, At
<1>2. /\ req'[r] = Idle /\ Idle.op = "idle" /\ Idle.old = {}
      /\ \A q \in Requests \ {r} : req'[q] = req[q]
  BY IdleType, DoneFields DEF CleanUpdate, Replaced
<1>3. Shown' = Shown /\ (Live' <=> Live) BY <1>1 DEF Shown, Live
<1>4. Deletions' BY <1>1, <1>2 DEF Edits, Deletions
<1>5. gone \cap held = {} BY DEF Edits, Uploads
<1>6. Uploads' BY <1>1, <1>2, <1>3, <1>5 DEF Edits, Uploads
<1>7. Posts'
  <2> SUFFICES ASSUME kind = "post" PROVE Posts' BY <1>1 DEF Posts
  <2>1. PostRequest(req[r]) BY DEF Edits, Posts
  <2>2. gone \cap doc.images \subseteq stray BY <1>1, <2>1 DEF PostRequest, Dropped
  <2>3. ASSUME NEW q \in Requests PROVE PostRequest(req[q])'
    <3>1. CASE q = r BY <1>2, <3>1 DEF PostRequest, Dropped
    <3>2. CASE q # r
      <4>1. PostRequest(req[q]) /\ req'[q] = req[q] BY <1>2, <3>2 DEF Edits, Posts
      <4> QED BY <1>1, <4>1 DEF PostRequest, Dropped
    <3> QED BY <3>1, <3>2
  <2> QED BY <1>1, <1>3, <2>2, <2>3 DEF Edits, Posts
<1>8. Articles'
  <2> SUFFICES ASSUME kind = "article", Live, "images" \notin raced
               PROVE  Articles'
    BY <1>1, <1>3 DEF Articles
  <2>1. /\ Shown \subseteq stored \cup stray /\ ArticleRequest(req[r])
        /\ \A q \in Requests : req[q].op \in Writers => q = r
    BY <1>1 DEF Edits, Articles, Writers
  <2>2. gone \cap Shown = {} BY <1>1, <2>1 DEF ArticleRequest, Writers
  <2>3. \A q \in Requests : req'[q].op \notin Writers BY <1>2, <2>1 DEF Writers
  <2> QED BY <1>1, <1>3, <2>1, <2>2, <2>3 DEF Articles, ArticleRequest
<1> QED BY <1>4, <1>6, <1>7, <1>8 DEF Edits

\* The steps of articles
LEMMA CreateArticleKeepsEdits ==
    ASSUME TypeOK, Unborn, Edits, NEW r \in Requests, NEW images \in SUBSET Images,
           NEW body \in SUBSET Images, CreateArticle(r, images, body)
    PROVE  Edits'
<1>1. doc'.stage = "live" /\ doc'.images = images
  <2> DEFINE b == [Blank EXCEPT !.stage = "live"]
  <2>1. b \in Document /\ b.stage = "live" BY IdleType DEF Document
  <2>2. doc' = [b EXCEPT !.images = images] BY DEF CreateArticle
  <2> HIDE DEF b
  <2> QED BY <2>1, <2>2 DEF Document
<1>2. Shown = {} /\ text.images = {} /\ \A q \in Requests : req[q].op = "idle"
  BY IdleType DEF CreateArticle, Unborn, Shown
<1>3. images \cup body \subseteq held \cup stray' BY <1>2 DEF CreateArticle, Submit
<1>4. /\ kind = "article" /\ UNCHANGED <<kind, text, stored>> /\ held' = held \ images
  BY DEF CreateArticle
<1>5. /\ req'[r].op = "create" /\ req'[r].at = "put" /\ req'[r].images = {}
      /\ req'[r].body = body /\ req'[r].old = {}
      /\ \A q \in Requests \ {r} : req'[q] = req[q]
  BY CreateArticleFields DEF Replaced
<1>6. Deletions' BY <1>2, <1>5 DEF Deletions
<1>7. Shown' = images BY <1>1, <1>2, <1>4 DEF Shown
<1>8. Uploads' BY <1>4, <1>5, <1>7 DEF Edits, Uploads
<1>9. Articles'
  <2>1. images \cup body \subseteq stored' \cup stray' BY <1>3, <1>4 DEF Edits, Uploads
  <2>2. \A q \in Requests : req'[q].op \in Writers => q = r BY <1>2, <1>5 DEF Writers
  <2>3. ArticleRequest(req[r])' BY <1>4, <1>5, <2>1 DEF ArticleRequest
  <2>4. \A q \in Requests : ArticleRequest(req[q])' BY <2>2, <2>3 DEF ArticleRequest
  <2> QED BY <1>4, <1>7, <2>1, <2>2, <2>4 DEF Articles
<1> QED BY <1>4, <1>6, <1>8, <1>9 DEF Edits, Posts

LEMMA UpdateArticleKeepsEdits ==
    ASSUME TypeOK, Edits, NEW r \in Requests, NEW images \in SUBSET Images,
           NEW body \in SUBSET Images, UpdateArticle(r, images, body)
    PROVE  Edits'
<1>1. /\ kind = "article" /\ Live /\ UNCHANGED <<kind, doc, text, stored, held>>
      /\ stray' = stray \cup ((images \cup body) \ (Shown \cup held))
  BY DEF UpdateArticle, Submit
<1>2. /\ req'[r].op = "update" /\ req'[r].at = "read" /\ req'[r].images = images
      /\ req'[r].body = body /\ req'[r].copy = doc /\ req'[r].old = doc.images
      /\ raced' = raced \cup Clash("update", Author)
      /\ \A q \in Requests \ {r} : req'[q] = req[q]
  BY UpdateArticleFields DEF Replaced
<1>3. Deletions' BY <1>1, <1>2 DEF Edits, Deletions
<1>4. Uploads' BY <1>1, <1>2 DEF Edits, Uploads, Shown
<1>5. Articles'
  <2> SUFFICES ASSUME "images" \notin raced' PROVE Articles' BY DEF Articles
  <2>1. "images" \notin raced /\ ~Busy({"create", "update"})
    BY <1>2 DEF Clash, Topics
  <2>2. \A q \in Requests : req'[q].op \in Writers => q = r BY <1>2, <2>1 DEF Busy, Writers
  <2>3. Shown \subseteq stored \cup stray /\ held \subseteq stored
    BY <1>1, <2>1 DEF Edits, Articles, Uploads
  <2>4. images \cup body \subseteq stored \cup stray' BY <1>1, <2>3
  <2>5. ArticleRequest(req[r])' BY <1>1, <1>2, <2>4 DEF ArticleRequest
  <2>6. \A q \in Requests : ArticleRequest(req[q])' BY <2>2, <2>5 DEF ArticleRequest
  <2> QED BY <1>1, <2>2, <2>3, <2>6 DEF Articles, Shown
<1> QED BY <1>1, <1>3, <1>4, <1>5 DEF Edits, Posts

\* A post is never at a stage of the markdown.
LEMMA MarkdownOfArticle ==
    ASSUME TypeOK, Edits, NEW r \in Requests, req[r].op \in {"create", "update", "delete"},
           req[r].at \in {"read", "put"}
    PROVE  kind = "article"
BY DEF TypeOK, Edits, Posts, PostRequest

\* A step of the only edit keeps the part of articles if it keeps what it needs itself.
LEMMA OneWriter ==
    ASSUME Articles, NEW r \in Requests, UNCHANGED <<kind, stored, stray>>, raced \subseteq raced',
           doc'.stage = doc.stage, req[r].op \in Writers,
           \A q \in Requests \ {r} : req'[q] = req[q],
           ArticleRequest(req[r]) /\ Shown \subseteq stored \cup stray =>
             ArticleRequest(req[r])' /\ Shown' \subseteq stored \cup stray
    PROVE  Articles'
<1> SUFFICES ASSUME kind = "article", Live', "images" \notin raced'
             PROVE  Articles'
  BY DEF Articles
<1>1. Live BY DEF Live
<1>2. /\ Shown \subseteq stored \cup stray /\ ArticleRequest(req[r])
      /\ \A q \in Requests : req[q].op \in Writers => q = r
  BY <1>1 DEF Articles
<1>3. \A q \in Requests : req'[q].op \in Writers => q = r BY <1>2
<1>4. \A q \in Requests : ArticleRequest(req[q])' BY <1>2, <1>3 DEF ArticleRequest
<1> QED BY <1>2, <1>3, <1>4 DEF Articles

LEMMA ReadTextKeepsEdits ==
    ASSUME TypeOK, Edits, NEW r \in Requests, ReadText(r)
    PROVE  Edits'
<1>1. /\ req[r].op \in {"update", "delete"} /\ req[r].at = "read" /\ req'[r].op = req[r].op
      /\ req'[r].at = (IF req[r].op = "update" THEN "put" ELSE "save")
      /\ req'[r].old = req[r].old \cup text.images /\ req'[r].images = req[r].images
      /\ req'[r].body = req[r].body /\ req'[r].copy = req[r].copy
      /\ \A q \in Requests \ {r} : req'[q] = req[q]
  BY ReadTextFields DEF Replaced
<1>2. UNCHANGED <<kind, doc, text, stored, held, stray, raced>> BY DEF ReadText
<1>3. kind = "article" BY <1>1, MarkdownOfArticle
<1>4. Deletions' BY <1>1, <1>2 DEF Edits, Deletions
<1>5. Uploads' BY <1>1, <1>2 DEF Edits, Uploads, Shown
<1>6. Articles'
  <2>1. CASE req[r].op = "update"
    <3>1. ArticleRequest(req[r]) => ArticleRequest(req[r])'
      BY <1>1, <1>2, <2>1 DEF ArticleRequest, Writers
    <3> QED BY <1>1, <1>2, <2>1, <3>1, OneWriter DEF Edits, Writers, Shown
  <2>2. CASE req[r].op = "delete"
    <3>1. \A q \in Requests : req'[q].op \in Writers => q # r BY <1>1, <2>2 DEF Writers
    <3>2. Shown' = Shown /\ (Live' <=> Live) BY <1>2 DEF Shown, Live
    <3>3. ASSUME NEW q \in Requests, ArticleRequest(req[q]) PROVE ArticleRequest(req[q])'
      <4>1. CASE q = r BY <1>1, <2>2, <4>1 DEF ArticleRequest, Writers
      <4>2. CASE q # r BY <1>1, <1>2, <3>2, <3>3, <4>2 DEF ArticleRequest
      <4> QED BY <4>1, <4>2
    <3> QED BY <1>1, <1>2, <3>1, <3>2, <3>3 DEF Edits, Articles
  <2> QED BY <1>1, <2>1, <2>2
<1> QED BY <1>2, <1>3, <1>4, <1>5, <1>6 DEF Edits, Posts

LEMMA PutTextKeepsEdits ==
    ASSUME TypeOK, Edits, NEW r \in Requests, PutText(r)
    PROVE  Edits'
<1>1. /\ req[r].op \in {"create", "update"} /\ req[r].at = "put"
      /\ text' = [there |-> TRUE, images |-> req[r].body] /\ held' = held \ req[r].body
      /\ UNCHANGED <<kind, doc, stored, stray, raced>>
  BY DEF PutText
<1>2. kind = "article" BY <1>1, MarkdownOfArticle
<1>3. /\ \A q \in Requests \ {r} : req'[q] = req[q]
      /\ \/ req'[r] = Idle
         \/ /\ req[r].op = "update" /\ req'[r].op = req[r].op /\ req'[r].at = "save"
            /\ req'[r].old = req[r].old /\ req'[r].images = req[r].images
            /\ req'[r].body = req[r].body /\ req'[r].copy = req[r].copy
  <2>1. CASE req[r].op = "create" BY <2>1, DoneFields DEF PutText, Replaced
  <2>2. CASE req[r].op = "update"
    <3>1. Goto(r, "save") /\ "save" \in Stages BY <2>2 DEF PutText, Stages
    <3> QED BY <2>2, <3>1, GotoFields DEF Replaced
  <2> QED BY <1>1, <2>1, <2>2
<1>4. text'.images = req[r].body /\ Shown' = doc.images \cup req[r].body BY <1>1 DEF Shown
<1>5. Deletions' BY <1>1, <1>3, IdleType DEF Edits, Deletions
<1>6. Uploads'
  <2>1. \A q \in Requests : req'[q].old \in {{}, req[q].old} BY <1>3, IdleType
  <2>2. doc.images \cap held = {} BY DEF Edits, Uploads, Shown
  <2> QED BY <1>1, <1>4, <2>1, <2>2 DEF Edits, Uploads
<1>7. Articles'
  <2>1. ASSUME ArticleRequest(req[r]), Shown \subseteq stored \cup stray
        PROVE  ArticleRequest(req[r])' /\ Shown' \subseteq stored \cup stray
    <3>1. /\ req[r].images \cup req[r].body \subseteq stored \cup stray
          /\ req[r].op = "update" => doc.images = req[r].copy.images
      BY <1>1, <2>1 DEF ArticleRequest, Writers
    <3>2. Shown' \subseteq stored \cup stray BY <1>4, <2>1, <3>1 DEF Shown
    <3>3. CASE req'[r] = Idle BY <3>2, <3>3, IdleType DEF ArticleRequest, Writers
    <3>4. CASE req'[r] # Idle BY <1>1, <1>3, <1>4, <3>1, <3>2, <3>4 DEF ArticleRequest, Writers
    <3> QED BY <3>2, <3>3, <3>4
  <2> QED BY <1>1, <1>3, <2>1, OneWriter DEF Edits, Writers
<1> QED BY <1>1, <1>2, <1>5, <1>6, <1>7 DEF Edits, Posts

LEMMA SaveArticleKeepsEdits ==
    ASSUME TypeOK, Edits, NEW r \in Requests, SaveArticle(r)
    PROVE  Edits'
<1>1. /\ kind = "article" /\ req[r].op = "update" /\ req[r].at = "save"
      /\ held' = held \ req[r].images /\ UNCHANGED <<kind, text, stored, stray, raced>>
  BY DEF SaveArticle, At
<1>2. /\ doc'.stage = doc.stage
      /\ doc'.images = IF req[r].images = req[r].copy.images THEN doc.images ELSE req[r].images
  <2>1. doc \in Document BY DEF TypeOK
  <2>2. CASE req[r].images = req[r].copy.images BY <2>2 DEF SaveArticle
  <2>3. CASE req[r].images # req[r].copy.images
    <3>1. doc' = [doc EXCEPT !.images = req[r].images] BY <2>3 DEF SaveArticle
    <3> QED BY <2>1, <2>3, <3>1 DEF Document
  <2> QED BY <2>2, <2>3
<1>3. /\ \A q \in Requests \ {r} : req'[q] = req[q]
      /\ req'[r].op = "update" /\ req'[r].at = "clean"
      /\ req'[r].old = req[r].old /\ req'[r].images = req[r].images
      /\ req'[r].body = req[r].body /\ req'[r].copy = req[r].copy
  <2>1. Goto(r, "clean") /\ "clean" \in Stages BY DEF SaveArticle, Stages
  <2> QED BY <1>1, <2>1, GotoFields DEF Replaced
<1>4. Deletions' BY <1>2, <1>3 DEF Edits, Deletions
<1>5. Uploads'
  <2>1. held' \cap Shown' = {} BY <1>1, <1>2 DEF Edits, Uploads, Shown
  <2> QED BY <1>1, <1>3, <2>1 DEF Edits, Uploads
<1>6. Articles'
  <2>1. ASSUME ArticleRequest(req[r]), Shown \subseteq stored \cup stray
        PROVE  ArticleRequest(req[r])' /\ Shown' \subseteq stored \cup stray
    <3>1. /\ req[r].images \cup req[r].body \subseteq stored \cup stray
          /\ doc.images = req[r].copy.images /\ text.images \subseteq req[r].body
      BY <1>1, <2>1 DEF ArticleRequest, Writers
    <3>2. Shown' \subseteq req[r].images \cup req[r].body BY <1>1, <1>2, <3>1 DEF Shown
    <3> QED BY <1>1, <1>3, <3>1, <3>2 DEF ArticleRequest
  <2> QED BY <1>1, <1>2, <1>3, <2>1, OneWriter DEF Edits, Writers
<1> QED BY <1>1, <1>4, <1>5, <1>6 DEF Edits, Posts

\* The steps of deletions
LEMMA DeleteKeepsEdits ==
    ASSUME TypeOK, Edits, NEW r \in Requests, DeletePost(r) \/ DeleteArticle(r)
    PROVE  Edits'
<1>1. UNCHANGED <<kind, doc, text, stored, held, stray>> BY DEF DeletePost, DeleteArticle
<1>2. /\ req'[r].op = "delete" /\ req'[r].at = (IF kind = "post" THEN "save" ELSE "read")
      /\ req'[r].old = doc.images /\ raced \subseteq raced'
      /\ \A q \in Requests \ {r} : req'[q] = req[q]
  BY DeleteFields DEF Replaced
<1>3. Shown' = Shown /\ (Live' <=> Live) BY <1>1 DEF Shown, Live
<1>4. Deletions' BY <1>1, <1>2 DEF Edits, Deletions
<1>5. Uploads' BY <1>1, <1>2, <1>3 DEF Edits, Uploads, Shown
<1>6. ASSUME kind = "post", NEW q \in Requests PROVE PostRequest(req[q])'
  <2>1. PostRequest(req[q]) BY <1>6 DEF Edits, Posts
  <2>2. CASE q = r BY <1>2, <1>6, <2>2 DEF PostRequest, Dropped
  <2>3. CASE q # r BY <1>1, <1>2, <2>1, <2>3 DEF PostRequest, Dropped
  <2> QED BY <2>2, <2>3
<1>7. Posts' BY <1>1, <1>3, <1>6 DEF Edits, Posts
<1>8. Articles'
  <2>1. \A q \in Requests : req'[q].op \in Writers => q # r BY <1>2 DEF Writers
  <2>2. ASSUME NEW q \in Requests, ArticleRequest(req[q]) PROVE ArticleRequest(req[q])'
    <3>1. CASE q = r BY <2>1, <3>1 DEF ArticleRequest
    <3>2. CASE q # r BY <1>1, <1>2, <1>3, <2>2, <3>2 DEF ArticleRequest
    <3> QED BY <3>1, <3>2
  <2> QED BY <1>1, <1>2, <1>3, <2>1, <2>2 DEF Edits, Articles
<1> QED BY <1>4, <1>5, <1>7, <1>8 DEF Edits

\* Once the document is marked as deleted, storage may be cleaned.
LEMMA DeletedKeepsEdits ==
    ASSUME TypeOK, Edits, NEW r \in Requests, req[r].op = "delete",
           doc'.stage = "deleted", doc'.images = doc.images, UNCHANGED <<kind, held, stray>>,
           text'.images \in {{}, text.images}, stored' \in {stored, stored \ req[r].old},
           \/ Replaced(r, Idle)
           \/ /\ Replaced(r, req'[r]) /\ req'[r].op = "delete" /\ req'[r].at \in {"clean", "wipe"}
              /\ req'[r].old = req[r].old
    PROVE  Edits'
<1>1. /\ \A q \in Requests \ {r} : req'[q] = req[q]
      /\ req'[r].old \in {{}, req[r].old}
      /\ \/ req'[r].op = "idle"
         \/ req'[r].op = "delete" /\ req'[r].at \in {"clean", "wipe"}
  BY IdleType DEF Replaced
<1>2. ~Live' BY DEF Live
<1>3. Deletions' BY DEF Deletions
<1>4. Uploads' BY <1>1 DEF Edits, Uploads, Shown
<1>5. ASSUME kind = "post", NEW q \in Requests PROVE PostRequest(req[q])'
  <2>1. PostRequest(req[q]) BY <1>5 DEF Edits, Posts
  <2>2. CASE q = r BY <1>1, <2>2 DEF PostRequest, Dropped
  <2>3. CASE q # r BY <1>1, <2>1, <2>3 DEF PostRequest, Dropped
  <2> QED BY <2>2, <2>3
<1>6. Posts' BY <1>2, <1>5 DEF Edits, Posts
<1> QED BY <1>2, <1>3, <1>4, <1>6 DEF Edits, Articles

LEMMA DeletionsKeepEdits ==
    ASSUME TypeOK, Edits, NEW r \in Requests,
           \/ DeletePost(r) \/ DeleteArticle(r) \/ SaveDelete(r) \/ CleanDelete(r) \/ Wipe(r)
    PROVE  Edits'
<1>1. CASE SaveDelete(r)
  <2>1. UNCHANGED <<kind, held, stray, text, stored>> BY <1>1 DEF SaveDelete
  <2> QED BY <1>1, <2>1, SaveDeleteFields, DeletedKeepsEdits
<1>2. CASE CleanDelete(r) \/ Wipe(r)
  <2>1. /\ req[r].op = "delete" /\ req[r].at \in {"clean", "wipe"} /\ UNCHANGED <<kind, held, stray, doc>>
        /\ text'.images \in {{}, text.images} /\ stored' \in {stored, stored \ req[r].old}
    BY <1>2 DEF CleanDelete, Wipe, At
  <2>2. doc.stage = "deleted" BY <2>1 DEF Edits, Deletions
  <2>3. Done(r) \/ \E at \in {"clean", "wipe"} : Goto(r, at) BY <1>2 DEF CleanDelete, Wipe
  <2>4. \A at \in {"clean", "wipe"} : at \in Stages BY DEF Stages
  <2>5. \/ Replaced(r, Idle)
        \/ /\ Replaced(r, req'[r]) /\ req'[r].op = "delete" /\ req'[r].at \in {"clean", "wipe"}
           /\ req'[r].old = req[r].old
    BY <2>1, <2>3, <2>4, GotoFields, DoneFields
  <2> QED BY <2>1, <2>2, <2>5, DeletedKeepsEdits
<1> QED BY <1>1, <1>2, DeleteKeepsEdits

LEMMA NextEdits ==
    ASSUME TypeOK, Unborn, Edits, [Next]_vars
    PROVE  Edits'
<1>1. ASSUME NEW r \in Requests,
             \/ \E u \in Users : \E op \in {"like", "view"} : React(r, op, u)
             \/ ReactFind(r) \/ ReactWrite(r) \/ ReactTotal(r)
             \/ \E u \in Users, p \in Comments \cup {NoComment} : Comment(r, u, p)
             \/ CommentFind(r) \/ CommentTotal(r)
             \/ \E c \in Comments : CommentWrite(r, c)
      PROVE  Edits'
  BY <1>1, ReactsKeepEdits, CommentsKeepEdits
<1>2. ASSUME NEW r \in Requests,
             \/ \E u \in Users, c \in Comments : Uncomment(r, u, c)
             \/ UncommentFind(r) \/ UncommentCount(r) \/ UncommentWrite(r)
             \/ UncommentRead(r) \/ UncommentTotal(r)
      PROVE  Edits'
  BY <1>2, UncommentsKeepEdits
<1>3. CASE \/ \E images \in SUBSET Images : CreatePost(images)
           \/ \E r \in Requests, images \in SUBSET Images : UpdatePost(r, images)
           \/ \E r \in Requests : SavePost(r) \/ CleanUpdate(r)
           \/ \E i \in Images : DeleteUpload(i)
  BY <1>3, CreatePostKeepsEdits, UpdatePostKeepsEdits, SavePostKeepsEdits,
     CleanUpdateKeepsEdits, DeleteUploadKeepsEdits
<1>4. ASSUME NEW r \in Requests,
             \/ \E images, body \in SUBSET Images : CreateArticle(r, images, body) \/ UpdateArticle(r, images, body)
             \/ ReadText(r) \/ PutText(r) \/ SaveArticle(r)
      PROVE  Edits'
  BY <1>4, CreateArticleKeepsEdits, UpdateArticleKeepsEdits, ReadTextKeepsEdits,
     PutTextKeepsEdits, SaveArticleKeepsEdits
<1>5. ASSUME NEW r \in Requests,
             \/ DeletePost(r) \/ DeleteArticle(r) \/ SaveDelete(r) \/ CleanDelete(r) \/ Wipe(r) \/ Cut(r)
      PROVE  Edits'
  BY <1>5, DeletionsKeepEdits, CutKeepsEdits
<1>6. CASE UNCHANGED vars
  <2>1. UNCHANGED <<kind, text, held, stored, stray, doc, raced, req>> BY <1>6 DEF vars
  <2>2. \A q \in Requests : EditSame(req'[q], req[q]) BY <2>1 DEF EditSame
  <2> QED BY <2>1, <2>2, EditsKept
<1> QED BY <1>1, <1>2, <1>3, <1>4, <1>5, <1>6 DEF Next


-----------------------------------------------------------------------------
(* Steps that are about something else *)

\* A request m that, for likes and views and for comments, is what q was
Same(m, q) ==
    /\ m.op = q.op /\ m.at = q.at /\ m.user = q.user /\ m.next = q.next
    /\ m.comment = q.comment /\ m.parent = q.parent /\ m.n = q.n /\ m.seen = q.seen

\* A step that is not about ops, except that it may end one that has written nothing
Aside(ops) ==
    /\ kind' = kind /\ raced \subseteq raced' /\ (Live' => Live)
    /\ \A q \in Requests :
         \/ Same(req'[q], req[q])
         \/ req'[q].op \notin ops /\ (req[q].op \in ops => req[q].at \notin {"read", "total"})

LEMMA AsideBy ==
    ASSUME NEW ops, kind' = kind, raced \subseteq raced', Live' => Live,
           NEW r \in Requests, NEW n, Replaced(r, n), n.op \notin ops,
           req[r].op \in ops => req[r].at \notin {"read", "total"}
    PROVE  Aside(ops)
<1>1. req'[r] = n /\ \A q \in Requests \ {r} : req'[q] = req[q] BY DEF Replaced
<1>2. \A q \in Requests \ {r} : Same(req'[q], req[q]) BY <1>1 DEF Same
<1> QED BY <1>1, <1>2 DEF Aside

LEMMA EngagementAside ==
    ASSUME Engagement, Aside(Reacts),
           Live' => /\ UNCHANGED <<liked, viewed>>
                    /\ doc'.likes = doc.likes /\ doc'.views = doc.views
    PROVE  Engagement'
<1> SUFFICES ASSUME Live', "engagement" \notin raced'
             PROVE  OneEach' /\ (\A r \in Requests : ReactRequest(req[r])') /\ Totals'
  BY DEF Engagement
<1>1. OneEach /\ (\A r \in Requests : ReactRequest(req[r])) /\ Totals
  BY DEF Engagement, Aside
<1>2. UNCHANGED <<liked, viewed>> /\ doc'.likes = doc.likes /\ doc'.views = doc.views
  OBVIOUS
<1>3. ASSUME NEW q \in Requests
      PROVE  \/ Same(req'[q], req[q])
             \/ req'[q].op \notin Reacts /\ (req[q].op \in Reacts => req[q].at # "total")
  BY DEF Aside
<1>4. OneEach' BY <1>1, <1>3 DEF OneEach, Same
<1>5. ASSUME NEW q \in Requests PROVE ReactRequest(req[q])'
  <2>1. CASE Same(req'[q], req[q])
    BY <1>1, <1>2, <2>1 DEF ReactRequest, Same
  <2>2. CASE req'[q].op \notin Reacts BY <2>2 DEF ReactRequest, Reacts
  <2> QED BY <1>3, <2>1, <2>2
<1>6. ASSUME NEW op \in Reacts, NEW u PROVE Pending(op, u)' <=> Pending(op, u)
  BY <1>3 DEF Pending, Same
<1>7. Totals'
  <2>1. "like" \in Reacts /\ "view" \in Reacts BY DEF Reacts
  <2>2. Settled("like", liked)' = Settled("like", liked) /\ Settled("view", viewed)' = Settled("view", viewed)
    BY <1>2, <1>6, <2>1 DEF Settled
  <2> QED BY <1>1, <1>2, <2>2 DEF Totals
<1> QED BY <1>4, <1>5, <1>7

LEMMA TalkAside ==
    ASSUME Talk, Aside(Talks),
           Live' => row' = row /\ doc'.comments = doc.comments
    PROVE  Talk'
<1> SUFFICES ASSUME Live', "comments" \notin raced'
             PROVE  Alone' /\ Answering' /\ (\A r \in Requests : TalkRequest(req[r])') /\ Tally'
  BY DEF Talk
<1>1. Alone /\ Answering /\ (\A r \in Requests : TalkRequest(req[r])) /\ Tally
  BY DEF Talk, Aside
<1>2. row' = row /\ doc'.comments = doc.comments /\ kind' = kind BY DEF Aside
<1>3. There' = There BY <1>2 DEF There
<1>4. \A c : (Top(c)' <=> Top(c)) /\ Replies(c)' = Replies(c) BY <1>2, <1>3 DEF Top, Replies
<1>5. ASSUME NEW q \in Requests
      PROVE  \/ Same(req'[q], req[q])
             \/ /\ req'[q].op \notin Talks
                /\ req[q].op \in Talks => req[q].at \notin {"read", "total"}
  BY DEF Aside
<1>6. Alone' BY <1>1, <1>5 DEF Alone, Same, Talks
<1>7. Answering' BY <1>1, <1>2, <1>3, <1>4 DEF Answering
<1>8. ASSUME NEW q \in Requests PROVE TalkRequest(req[q])'
  <2>1. TalkRequest(req[q]) BY <1>1
  <2>2. CASE Same(req'[q], req[q])
    BY <1>2, <1>3, <1>4, <2>1, <2>2 DEF TalkRequest, Same
  <2>3. CASE req'[q].op \notin Talks BY <2>3 DEF TalkRequest, Talks
  <2> QED BY <1>5, <2>2, <2>3
<1>9. Writing' = Writing /\ (Counting' <=> Counting) BY <1>5 DEF Writing, Counting, Same, Talks
<1>10. Tally' BY <1>1, <1>2, <1>3, <1>9 DEF Tally
<1> QED BY <1>6, <1>7, <1>8, <1>10


\* Edits and deletions leave rows and totals alone, but for the totals of a document that
\* they mark as deleted.
LEMMA EditsAside ==
    ASSUME TypeOK, Edits,
           NEW ops \in {Reacts, Talks},
           \/ \E r \in Requests, images \in SUBSET Images : UpdatePost(r, images)
           \/ \E r \in Requests : SavePost(r) \/ CleanUpdate(r)
           \/ \E i \in Images : DeleteUpload(i)
           \/ \E r \in Requests, images, body \in SUBSET Images : UpdateArticle(r, images, body)
           \/ \E r \in Requests : ReadText(r) \/ PutText(r) \/ SaveArticle(r)
           \/ \E r \in Requests : DeletePost(r) \/ DeleteArticle(r)
           \/ \E r \in Requests : SaveDelete(r) \/ CleanDelete(r) \/ Wipe(r)
    PROVE  /\ Aside(ops)
           /\ Live' => /\ UNCHANGED <<liked, viewed, row>>
                       /\ doc'.likes = doc.likes /\ doc'.views = doc.views
                       /\ doc'.comments = doc.comments
<1> USE DEF Live
<1>0. doc \in Document BY DEF TypeOK
<1>1. \A op \in {"idle", "create", "update", "delete"} : op \notin ops BY DEF Reacts, Talks
<1>2. ASSUME NEW r \in Requests, NEW images \in SUBSET Images, UpdatePost(r, images)
      PROVE  Aside(ops) /\ UNCHANGED <<doc, liked, viewed, row>>
  <2>1. Aside(ops) BY <1>1, <1>2, UpdatePostFields, AsideBy DEF UpdatePost
  <2> QED BY <1>2, <2>1 DEF UpdatePost
<1>3. ASSUME NEW r \in Requests, SavePost(r)
      PROVE  /\ Aside(ops) /\ UNCHANGED <<liked, viewed, row>>
             /\ doc'.likes = doc.likes /\ doc'.views = doc.views /\ doc'.comments = doc.comments
  <2>1. UNCHANGED <<kind, raced, liked, viewed, row>> BY <1>3 DEF SavePost
  <2>2. doc' = doc \/ doc' = [doc EXCEPT !.images = req[r].images] BY <1>3 DEF SavePost
  <2>3. /\ doc'.stage = doc.stage /\ doc'.likes = doc.likes /\ doc'.views = doc.views
        /\ doc'.comments = doc.comments
    BY <1>0, <2>2 DEF Document
  <2>4. req[r].op = "update" BY <1>3, SavePostFields
  <2>5. CASE \E n : Replaced(r, n) /\ n.op \in {"idle", "update"}
    BY <1>1, <2>1, <2>3, <2>4, <2>5, AsideBy
  <2>6. CASE req'[r].op = "update" /\ \A q \in Requests \ {r} : Stale(req'[q], req[q])
    <3>1. \A q \in Requests \ {r} : Same(req'[q], req[q]) BY <2>6 DEF Stale, Same
    <3>2. req'[r].op \notin ops /\ req[r].op \notin ops BY <1>1, <2>4, <2>6
    <3>3. Aside(ops) BY <2>1, <2>3, <3>1, <3>2 DEF Aside
    <3> QED BY <2>1, <2>3, <3>3
  <2> QED BY <1>3, <2>1, <2>3, <2>5, <2>6, SavePostFields, IdleType
<1>4. ASSUME NEW r \in Requests, CleanUpdate(r)
      PROVE  Aside(ops) /\ UNCHANGED <<doc, liked, viewed, row>>
  <2>1. Replaced(r, Idle) /\ req[r].op = "update" BY <1>4, DoneFields DEF CleanUpdate, At
  <2>2. Aside(ops) BY <1>1, <1>4, <2>1, IdleType, AsideBy DEF CleanUpdate
  <2> QED BY <1>4, <2>2 DEF CleanUpdate
<1>5. ASSUME NEW i \in Images, DeleteUpload(i)
      PROVE  Aside(ops) /\ UNCHANGED <<doc, liked, viewed, row>>
  BY <1>5 DEF DeleteUpload, Aside, Same
<1>6. ASSUME NEW r \in Requests, NEW images \in SUBSET Images, NEW body \in SUBSET Images,
             UpdateArticle(r, images, body)
      PROVE  Aside(ops) /\ UNCHANGED <<doc, liked, viewed, row>>
  <2>1. UNCHANGED <<kind, doc, liked, viewed, row>> /\ raced \subseteq raced'
    BY <1>6, UpdateArticleFields DEF UpdateArticle
  <2>2. Replaced(r, req'[r]) /\ req[r].op \notin ops /\ req'[r].op \notin ops
    BY <1>1, <1>6, UpdateArticleFields
  <2>3. Aside(ops) BY <2>1, <2>2, AsideBy
  <2> QED BY <2>1, <2>3
<1>7. ASSUME NEW r \in Requests, ReadText(r)
      PROVE  Aside(ops) /\ UNCHANGED <<doc, liked, viewed, row>>
  <2>1. UNCHANGED <<kind, raced, doc, liked, viewed, row>> BY <1>7 DEF ReadText
  <2>2. /\ Replaced(r, req'[r]) /\ req[r].op \in {"update", "delete"} /\ req'[r].op = req[r].op
    BY <1>7, ReadTextFields
  <2>3. Aside(ops) BY <1>1, <2>1, <2>2, AsideBy
  <2> QED BY <2>1, <2>3
<1>8. ASSUME NEW r \in Requests, PutText(r)
      PROVE  Aside(ops) /\ UNCHANGED <<doc, liked, viewed, row>>
  <2>1. UNCHANGED <<kind, raced, doc, liked, viewed, row>> /\ req[r].op \in {"create", "update"}
    BY <1>8 DEF PutText
  <2>2. Done(r) \/ Goto(r, "save") BY <1>8 DEF PutText
  <2>3. "save" \in Stages BY DEF Stages
  <2>4. \E n : Replaced(r, n) /\ n.op \in {"idle", "create", "update"}
    BY <2>1, <2>2, <2>3, GotoFields, DoneFields, IdleType
  <2>5. Aside(ops) BY <1>1, <2>1, <2>4, AsideBy
  <2> QED BY <2>1, <2>5
<1>9. ASSUME NEW r \in Requests, SaveArticle(r)
      PROVE  /\ Aside(ops) /\ UNCHANGED <<liked, viewed, row>>
             /\ doc'.likes = doc.likes /\ doc'.views = doc.views /\ doc'.comments = doc.comments
  <2>1. UNCHANGED <<kind, raced, liked, viewed, row>> /\ req[r].op = "update"
    BY <1>9 DEF SaveArticle, At
  <2>2. doc' = doc \/ doc' = [doc EXCEPT !.images = req[r].images] BY <1>9 DEF SaveArticle
  <2>3. /\ doc'.stage = doc.stage /\ doc'.likes = doc.likes /\ doc'.views = doc.views
        /\ doc'.comments = doc.comments
    BY <1>0, <2>2 DEF Document
  <2>4. Goto(r, "clean") /\ "clean" \in Stages BY <1>9 DEF SaveArticle, Stages
  <2>5. Aside(ops) BY <1>1, <2>1, <2>3, <2>4, GotoFields, AsideBy
  <2> QED BY <2>1, <2>3, <2>5
<1>10. ASSUME NEW r \in Requests, DeletePost(r) \/ DeleteArticle(r)
       PROVE  Aside(ops) /\ UNCHANGED <<doc, liked, viewed, row>>
  <2>1. UNCHANGED <<kind, doc, liked, viewed, row>> BY <1>10 DEF DeletePost, DeleteArticle
  <2>2. Aside(ops) BY <1>1, <1>10, <2>1, DeleteFields, AsideBy
  <2> QED BY <2>1, <2>2
<1>11. ASSUME NEW r \in Requests, SaveDelete(r) \/ CleanDelete(r) \/ Wipe(r)
       PROVE  Aside(ops) /\ ~Live'
  <2>1. UNCHANGED <<kind, raced>> /\ req[r].op = "delete"
    BY <1>11 DEF SaveDelete, CleanDelete, Wipe, At
  <2>2. Done(r) \/ \E at \in {"clean", "wipe"} : Goto(r, at)
    BY <1>11 DEF SaveDelete, CleanDelete, Wipe
  <2>3. \A at \in {"clean", "wipe"} : at \in Stages BY DEF Stages
  <2>4. \E n : Replaced(r, n) /\ n.op \in {"idle", "delete"}
    BY <2>1, <2>2, <2>3, GotoFields, DoneFields, IdleType
  <2>5. ~Live'
    <3>1. CASE SaveDelete(r) BY <3>1, SaveDeleteFields
    <3>2. CASE CleanDelete(r) \/ Wipe(r)
      <4>1. doc' = doc /\ req[r].at \in {"clean", "wipe"} BY <3>2 DEF CleanDelete, Wipe, At
      <4> QED BY <2>1, <4>1 DEF Edits, Deletions
    <3> QED BY <1>11, <3>1, <3>2
  <2>6. Aside(ops) BY <1>1, <2>1, <2>4, <2>5, AsideBy
  <2> QED BY <2>5, <2>6
<1> QED BY <1>2, <1>3, <1>4, <1>5, <1>6, <1>7, <1>8, <1>9, <1>10, <1>11

\* Steps of comments are not about likes and views.
LEMMA CommentsAside ==
    ASSUME TypeOK, NEW r \in Requests,
           \/ \E u \in Users, p \in Comments \cup {NoComment} : Comment(r, u, p)
           \/ CommentFind(r) \/ CommentTotal(r)
           \/ \E c \in Comments : CommentWrite(r, c)
           \/ \E u \in Users, c \in Comments : Uncomment(r, u, c)
           \/ UncommentFind(r) \/ UncommentCount(r) \/ UncommentWrite(r)
           \/ UncommentRead(r) \/ UncommentTotal(r)
    PROVE  /\ Aside(Reacts) /\ UNCHANGED <<liked, viewed>>
           /\ doc'.likes = doc.likes /\ doc'.views = doc.views
<1>1. /\ UNCHANGED <<kind, liked, viewed>> /\ doc'.stage = doc.stage
      /\ doc'.likes = doc.likes /\ doc'.views = doc.views
  <2>1. doc \in Document BY DEF TypeOK
  <2>2. UNCHANGED <<kind, liked, viewed>>
    BY DEF Comment, CommentFind, CommentTotal, CommentWrite, Uncomment, UncommentFind, UncommentCount,
       UncommentWrite, UncommentRead, UncommentTotal
  <2>3. doc' = doc \/ \E n : doc' = [doc EXCEPT !.comments = n]
    BY DEF Comment, CommentFind, CommentTotal, CommentWrite, Uncomment, UncommentFind, UncommentCount,
       UncommentWrite, UncommentRead, UncommentTotal
  <2> QED BY <2>1, <2>2, <2>3 DEF Document
<1>2. raced \subseteq raced' /\ req[r].op \in {"idle", "comment", "uncomment"}
  BY DEF Accept, At, Comment, CommentFind, CommentTotal, CommentWrite, Uncomment, UncommentFind,
     UncommentCount, UncommentWrite, UncommentRead, UncommentTotal
<1>3. \E n : Replaced(r, n) /\ n.op \in {"idle", "comment", "uncomment"}
  <2>1. CASE Done(r) BY <2>1, DoneFields, IdleType
  <2>2. ASSUME NEW at \in {"write", "total", "read", "count"}, Goto(r, at)
        PROVE  \E n : Replaced(r, n) /\ n.op \in {"idle", "comment", "uncomment"}
    <3>1. at \in Stages BY DEF Stages
    <3> QED BY <1>2, <2>2, <3>1, GotoFields
  <2>3. CASE CommentFind(r) \/ CommentTotal(r) \/ UncommentWrite(r) \/ UncommentTotal(r)
             \/ \E c \in Comments : CommentWrite(r, c)
    BY <2>1, <2>2, <2>3 DEF CommentFind, CommentTotal, CommentWrite, UncommentWrite, UncommentTotal
  <2>4. CASE \E u \in Users, p \in Comments \cup {NoComment} : Comment(r, u, p)
    BY <2>4, CommentFields
  <2>5. CASE \E u \in Users, c \in Comments : Uncomment(r, u, c)
    BY <2>5, UncommentFields
  <2>6. CASE UncommentFind(r) \/ UncommentCount(r) \/ UncommentRead(r)
    BY <2>6, UncommentFindFields, UncommentCountFields, UncommentReadFields, IdleType
  <2> QED BY <2>3, <2>4, <2>5, <2>6
<1>4. \A op \in {"idle", "comment", "uncomment"} : op \notin Reacts BY DEF Reacts
<1>5. Aside(Reacts) BY <1>1, <1>2, <1>3, <1>4, AsideBy DEF Live
<1> QED BY <1>1, <1>5

\* Steps of likes and views are not about comments.
LEMMA ReactsAside ==
    ASSUME TypeOK, NEW r \in Requests,
           \/ \E u \in Users : \E op \in {"like", "view"} : React(r, op, u)
           \/ ReactFind(r) \/ ReactWrite(r) \/ ReactTotal(r)
    PROVE  Aside(Talks) /\ row' = row /\ doc'.comments = doc.comments
<1>1. /\ UNCHANGED <<kind, row>> /\ doc'.stage = doc.stage /\ doc'.comments = doc.comments
  <2>1. doc \in Document BY DEF TypeOK
  <2>2. UNCHANGED <<kind, row>> BY DEF React, ReactFind, ReactWrite, ReactTotal
  <2>3. doc' = doc \/ (\E n : doc' = [doc EXCEPT !.views = n]) \/ \E n : doc' = [doc EXCEPT !.likes = n]
    BY DEF React, ReactFind, ReactWrite, ReactTotal
  <2> QED BY <2>1, <2>2, <2>3 DEF Document
<1>2. raced \subseteq raced' /\ req[r].op \in {"idle", "like", "view"}
  BY DEF Accept, React, ReactFind, ReactWrite, ReactTotal
<1>3. \E n : Replaced(r, n) /\ n.op \in {"idle", "like", "view"}
  <2>1. CASE \E u \in Users : \E op \in {"like", "view"} : React(r, op, u) BY <2>1, ReactFields
  <2>2. CASE ReactFind(r) BY <2>2, ReactFindFields, IdleType
  <2>3. CASE ReactWrite(r)
    <3>1. Goto(r, "total") /\ "total" \in Stages BY <2>3 DEF ReactWrite, Stages
    <3> QED BY <1>2, <3>1, GotoFields
  <2>4. CASE ReactTotal(r) BY <2>4, DoneFields, IdleType DEF ReactTotal
  <2> QED BY <2>1, <2>2, <2>3, <2>4
<1>4. \A op \in {"idle", "like", "view"} : op \notin Talks BY DEF Talks
<1>5. Aside(Talks) BY <1>1, <1>2, <1>3, <1>4, AsideBy DEF Live
<1> QED BY <1>1, <1>5


-----------------------------------------------------------------------------
(* Likes and views *)

\* A request that is pending for nobody before and after does not matter.
LEMMA PendingOthers ==
    ASSUME NEW r \in Requests, \A q \in Requests \ {r} : req'[q] = req[q], NEW op, NEW u,
           ~(req[r].op = op /\ req[r].user = u /\ req[r].at = "total"),
           ~(req'[r].op = op /\ req'[r].user = u /\ req'[r].at = "total")
    PROVE  Pending(op, u)' <=> Pending(op, u)
BY DEF Pending

\* Where a user has one request of a kind, that is the one that is pending.
LEMMA PendingOwn ==
    ASSUME OneEach, NEW r \in Requests, req[r].op \in Reacts
    PROVE  Pending(req[r].op, req[r].user) <=> req[r].at = "total"
BY DEF OneEach, Pending

LEMMA OneEachKept ==
    ASSUME OneEach, NEW r \in Requests, \A q \in Requests \ {r} : req'[q] = req[q],
           \/ req'[r].op \notin Reacts
           \/ req'[r].op = req[r].op /\ req'[r].user = req[r].user
    PROVE  OneEach'
BY DEF OneEach

LEMMA SettledFinite ==
    ASSUME NEW op, NEW S
    PROVE  IsFiniteSet(Settled(op, S)) /\ Cardinality(Settled(op, S)) \in Nat
<1>1. Settled(op, S) \subseteq Users BY DEF Settled
<1>2. IsFiniteSet(Settled(op, S)) BY <1>1, FS_Subset, ConstantsAssumption
<1> QED BY <1>2, FS_CardinalityType

LEMMA ReactKeepsEngagement ==
    ASSUME TypeOK, Engagement, NEW r \in Requests, NEW u \in Users, NEW op \in {"like", "view"},
           React(r, op, u)
    PROVE  Engagement'
<1> SUFFICES ASSUME "engagement" \notin raced'
             PROVE  OneEach' /\ (\A q \in Requests : ReactRequest(req[q])') /\ Totals'
  BY DEF Engagement
<1>1. Live /\ UNCHANGED <<doc, liked, viewed>> BY DEF React
<1>2. /\ req[r].op = "idle" /\ req'[r].op = op /\ req'[r].user = u /\ req'[r].at = "find"
      /\ raced' = raced \cup Clash(op, u) /\ \A q \in Requests \ {r} : req'[q] = req[q]
  BY ReactFields DEF Replaced
<1>3. OneEach /\ (\A q \in Requests : ReactRequest(req[q])) /\ Totals
  BY <1>1, <1>2 DEF Engagement
<1>4. \A q \in Requests : ~(req[q].op = op /\ req[q].user = u)
  BY <1>2 DEF Clash, Topics
<1>5. OneEach' BY <1>2, <1>3, <1>4 DEF OneEach
<1>6. ASSUME NEW q \in Requests PROVE ReactRequest(req[q])'
  <2>1. CASE q = r BY <1>2, <2>1 DEF ReactRequest
  <2>2. CASE q # r
    <3>1. ReactRequest(req[q]) /\ req'[q] = req[q] BY <1>2, <1>3, <2>2
    <3> QED BY <1>1, <3>1 DEF ReactRequest
  <2> QED BY <2>1, <2>2
<1>7. \A o \in {"like", "view"}, v \in Users : Pending(o, v)' <=> Pending(o, v)
  BY <1>2, PendingOthers
<1>8. Settled("like", liked)' = Settled("like", liked) /\ Settled("view", viewed)' = Settled("view", viewed)
  BY <1>1, <1>7 DEF Settled
<1> QED BY <1>1, <1>3, <1>5, <1>6, <1>8 DEF Totals

LEMMA ReactFindKeepsEngagement ==
    ASSUME TypeOK, Engagement, NEW r \in Requests, ReactFind(r)
    PROVE  Engagement'
<1>1. UNCHANGED <<kind, doc, liked, viewed, raced>> BY DEF ReactFind
<1>2. CASE Replaced(r, Idle) /\ req[r].at = "find"
  <2>1. Aside(Reacts) BY <1>1, <1>2, IdleType, AsideBy DEF Reacts, Live
  <2> QED BY <1>1, <2>1, EngagementAside
<1>3. CASE /\ Replaced(r, req'[r]) /\ req[r].op \in {"like", "view"} /\ req[r].at = "find"
           /\ req'[r].op = req[r].op /\ req'[r].user = req[r].user /\ req'[r].at = "write"
           /\ req[r].op = "like" => (req'[r].next <=> req[r].user \notin liked)
           /\ req[r].op = "view" => req[r].user \notin viewed
  <2> SUFFICES ASSUME Live, "engagement" \notin raced
               PROVE  OneEach' /\ (\A q \in Requests : ReactRequest(req[q])') /\ Totals'
    BY <1>1 DEF Engagement, Live
  <2>1. OneEach /\ (\A q \in Requests : ReactRequest(req[q])) /\ Totals BY DEF Engagement
  <2>2. \A q \in Requests \ {r} : req'[q] = req[q] BY <1>3 DEF Replaced
  <2>3. OneEach' BY <1>3, <2>1, <2>2, OneEachKept
  <2>4. ASSUME NEW q \in Requests PROVE ReactRequest(req[q])'
    <3>1. CASE q = r BY <1>1, <1>3, <3>1 DEF ReactRequest
    <3>2. CASE q # r
      <4>1. ReactRequest(req[q]) /\ req'[q] = req[q] BY <2>1, <2>2, <3>2
      <4> QED BY <1>1, <4>1 DEF ReactRequest
    <3> QED BY <3>1, <3>2
  <2>5. \A o \in {"like", "view"}, v \in Users : Pending(o, v)' <=> Pending(o, v)
    BY <1>3, <2>2, PendingOthers
  <2>6. Settled("like", liked)' = Settled("like", liked) /\ Settled("view", viewed)' = Settled("view", viewed)
    BY <1>1, <2>5 DEF Settled
  <2> QED BY <1>1, <2>1, <2>3, <2>4, <2>6 DEF Totals
<1> QED BY <1>2, <1>3, ReactFindFields

\* The row and the pending request turn round together.
LEMMA ReactWriteKeepsEngagement ==
    ASSUME TypeOK, Engagement, NEW r \in Requests, ReactWrite(r)
    PROVE  Engagement'
<1>1. UNCHANGED <<doc, raced>> /\ req[r].op \in {"like", "view"} /\ req[r].at = "write"
  BY DEF ReactWrite
<1>0. PICK op \in {"like", "view"}, u \in Users : op = req[r].op /\ u = req[r].user
  BY <1>1 DEF TypeOK, Request
<1>2. Goto(r, "total") /\ "total" \in Stages BY DEF ReactWrite, Stages
<1>3. /\ req'[r].op = op /\ req'[r].user = u /\ req'[r].at = "total"
      /\ req'[r].next = req[r].next /\ \A q \in Requests \ {r} : req'[q] = req[q]
  BY <1>0, <1>2, GotoFields DEF Replaced
<1> SUFFICES ASSUME Live, "engagement" \notin raced
             PROVE  OneEach' /\ (\A q \in Requests : ReactRequest(req[q])') /\ Totals'
  BY <1>1 DEF Engagement, Live
<1>4. OneEach /\ (\A q \in Requests : ReactRequest(req[q])) /\ Totals BY DEF Engagement
<1>5. OneEach' BY <1>0, <1>3, <1>4, OneEachKept
<1>6. Pending(op, u)' /\ ~Pending(op, u)
  <2>1. ~Pending(op, u) BY <1>0, <1>1, <1>4, PendingOwn DEF Reacts
  <2>2. Pending(op, u)' BY <1>3 DEF Pending
  <2> QED BY <2>1, <2>2
<1>7. ASSUME NEW o, NEW v, ~(o = op /\ v = u) PROVE Pending(o, v)' <=> Pending(o, v)
  BY <1>0, <1>1, <1>3, <1>7, PendingOthers
<1>8. ASSUME NEW q \in Requests, q # r, req[q].op = op PROVE req[q].user # u
  BY <1>0, <1>1, <1>4, <1>8 DEF OneEach, Reacts
<1>9. ReactRequest(req[r]) BY <1>4
<1>10. CASE op = "like"
  <2>1. viewed' = viewed /\ (u \in liked' <=> u \notin liked) /\ (u \in liked' <=> req[r].next)
        /\ \A v : v # u => (v \in liked' <=> v \in liked)
    BY <1>0, <1>1, <1>9, <1>10 DEF ReactWrite, ReactRequest
  <2>2. Settled("like", liked)' = Settled("like", liked)
    <3>1. ASSUME NEW v \in Users
          PROVE  (v \in liked' <=> ~Pending("like", v)') <=> (v \in liked <=> ~Pending("like", v))
      <4>1. CASE v = u BY <1>6, <1>10, <2>1, <4>1
      <4>2. CASE v # u
        <5>1. Pending("like", v)' <=> Pending("like", v) BY <1>7, <4>2
        <5>2. v \in liked' <=> v \in liked BY <2>1, <4>2
        <5> QED BY <5>1, <5>2
      <4> QED BY <4>1, <4>2
    <3> QED BY <3>1 DEF Settled
  <2>3. Settled("view", viewed)' = Settled("view", viewed)
    <3>1. \A v : Pending("view", v)' <=> Pending("view", v) BY <1>7, <1>10
    <3> QED BY <2>1, <3>1 DEF Settled
  <2>4. ASSUME NEW q \in Requests PROVE ReactRequest(req[q])'
    <3>1. CASE q = r BY <1>3, <1>10, <2>1, <3>1 DEF ReactRequest
    <3>2. CASE q # r
      <4>1. ReactRequest(req[q]) /\ req'[q] = req[q] BY <1>3, <1>4, <3>2
      <4>2. req[q].op = "like" => req[q].user # u BY <1>8, <1>10, <3>2
      <4> QED BY <2>1, <4>1, <4>2 DEF ReactRequest
    <3> QED BY <3>1, <3>2
  <2> QED BY <1>1, <1>4, <1>5, <2>2, <2>3, <2>4 DEF Totals
<1>11. CASE op = "view"
  <2>1. liked' = liked /\ viewed' = viewed \cup {u} /\ u \notin viewed
    BY <1>0, <1>1, <1>9, <1>11 DEF ReactWrite, ReactRequest
  <2>2. Settled("view", viewed)' = Settled("view", viewed)
    <3>1. ASSUME NEW v \in Users
          PROVE  (v \in viewed' <=> ~Pending("view", v)') <=> (v \in viewed <=> ~Pending("view", v))
      <4>1. CASE v = u BY <1>6, <1>11, <2>1, <4>1
      <4>2. CASE v # u
        <5>1. Pending("view", v)' <=> Pending("view", v) BY <1>7, <4>2
        <5>2. v \in viewed' <=> v \in viewed BY <2>1, <4>2
        <5> QED BY <5>1, <5>2
      <4> QED BY <4>1, <4>2
    <3> QED BY <3>1 DEF Settled
  <2>3. Settled("like", liked)' = Settled("like", liked)
    <3>1. \A v : Pending("like", v)' <=> Pending("like", v) BY <1>7, <1>11
    <3> QED BY <2>1, <3>1 DEF Settled
  <2>4. ASSUME NEW q \in Requests PROVE ReactRequest(req[q])'
    <3>1. CASE q = r BY <1>3, <1>11, <2>1, <3>1 DEF ReactRequest
    <3>2. CASE q # r
      <4>1. ReactRequest(req[q]) /\ req'[q] = req[q] BY <1>3, <1>4, <3>2
      <4>2. req[q].op = "view" => req[q].user # u BY <1>8, <1>11, <3>2
      <4> QED BY <2>1, <4>1, <4>2 DEF ReactRequest
    <3> QED BY <3>1, <3>2
  <2> QED BY <1>1, <1>4, <1>5, <2>2, <2>3, <2>4 DEF Totals
<1> QED BY <1>10, <1>11

\* The user of a pending request joins the settled ones, or leaves them.
LEMMA OneMore ==
    ASSUME NEW S, NEW T, NEW u, IsFiniteSet(S), IsFiniteSet(T), u \notin S, T = S \cup {u}
    PROVE  Cardinality(T) = Cardinality(S) + 1 /\ Cardinality(S) = Cardinality(T) - 1
<1>1. Cardinality(T) = Cardinality(S) + 1 BY FS_AddElement
<1>2. Cardinality(S) \in Nat BY FS_CardinalityType
<1> QED BY <1>1, <1>2

LEMMA ReactTotalKeepsEngagement ==
    ASSUME TypeOK, Engagement, NEW r \in Requests, ReactTotal(r)
    PROVE  Engagement'
<1>1. /\ UNCHANGED <<liked, viewed, raced>> /\ req[r].op \in {"like", "view"}
      /\ req[r].at = "total"
  BY DEF ReactTotal
<1>2. req'[r] = Idle /\ Idle.op = "idle" /\ \A q \in Requests \ {r} : req'[q] = req[q]
  BY DoneFields, IdleType DEF ReactTotal, Replaced
<1>3. doc \in Document BY DEF TypeOK
<1>0. PICK op \in {"like", "view"}, u \in Users : op = req[r].op /\ u = req[r].user
  BY <1>1 DEF TypeOK, Request
<1>4. doc'.stage = doc.stage BY <1>3 DEF ReactTotal, Document
<1> SUFFICES ASSUME Live, "engagement" \notin raced
             PROVE  OneEach' /\ (\A q \in Requests : ReactRequest(req[q])') /\ Totals'
  BY <1>1, <1>4 DEF Engagement, Live
<1>5. OneEach /\ (\A q \in Requests : ReactRequest(req[q])) /\ Totals BY DEF Engagement
<1>6. OneEach' BY <1>2, <1>5, OneEachKept DEF Reacts
<1>7. ASSUME NEW q \in Requests PROVE ReactRequest(req[q])'
  <2>1. CASE q = r BY <1>2, <2>1 DEF ReactRequest, Reacts
  <2>2. CASE q # r
    <3>1. ReactRequest(req[q]) /\ req'[q] = req[q] BY <1>2, <1>5, <2>2
    <3> QED BY <1>1, <3>1 DEF ReactRequest
  <2> QED BY <2>1, <2>2
<1>8. Pending(op, u) /\ ~Pending(op, u)'
  <2>1. Pending(op, u) BY <1>0, <1>1 DEF Pending
  <2>2. \A q \in Requests : req[q].op = op /\ req[q].user = u => q = r
    BY <1>0, <1>1, <1>5 DEF OneEach, Reacts
  <2>3. ~Pending(op, u)' BY <1>0, <1>2, <2>2 DEF Pending
  <2> QED BY <2>1, <2>3
<1>9. ASSUME NEW o \in {"like", "view"}, NEW v, ~(o = op /\ v = u)
      PROVE  Pending(o, v)' <=> Pending(o, v)
  BY <1>0, <1>2, <1>9, PendingOthers
<1>10. ReactRequest(req[r]) BY <1>5
<1>11. CASE op = "like"
  <2> DEFINE S == Settled("like", liked)
             T == Settled("like", liked)'
  <2>1. IsFiniteSet(S) /\ IsFiniteSet(T)
    <3>1. S \subseteq Users /\ T \subseteq Users BY DEF Settled
    <3> QED BY <3>1, FS_Subset, ConstantsAssumption
  <2>2. Settled("view", viewed)' = Settled("view", viewed)
    <3>1. \A v : Pending("view", v)' <=> Pending("view", v) BY <1>9, <1>11
    <3> QED BY <1>1, <3>1 DEF Settled
  <2>3. \A v \in Users : v # u => (v \in T <=> v \in S)
    <3>1. \A v \in Users : v # u => (Pending("like", v)' <=> Pending("like", v)) BY <1>9
    <3> QED BY <1>1, <3>1 DEF Settled
  <2>4. (u \in S <=> u \notin liked) /\ (u \in T <=> u \in liked)
    BY <1>1, <1>8, <1>11 DEF Settled
  <2>5. req[r].next <=> u \in liked BY <1>0, <1>1, <1>10, <1>11 DEF ReactRequest
  <2>6. S \subseteq Users /\ T \subseteq Users BY DEF Settled
  <2>7. doc.likes = Cardinality(S) /\ doc.views = Cardinality(Settled("view", viewed))
    BY <1>5 DEF Totals
  <2>8. doc'.views = doc.views
        /\ doc'.likes = (IF req[r].next THEN doc.likes + 1 ELSE doc.likes - 1)
    BY <1>0, <1>3, <1>11 DEF ReactTotal, Document
  <2> HIDE DEF S, T
  <2>9. doc'.likes = Cardinality(T)
    <3>1. CASE req[r].next
      <4>1. u \notin S /\ T = S \cup {u} BY <2>3, <2>4, <2>5, <2>6, <3>1
      <4>2. Cardinality(T) = Cardinality(S) + 1 BY <2>1, <4>1, OneMore
      <4> QED BY <2>7, <2>8, <3>1, <4>2
    <3>2. CASE ~req[r].next
      <4>1. u \notin T /\ S = T \cup {u} BY <2>3, <2>4, <2>5, <2>6, <3>2
      <4>2. Cardinality(T) = Cardinality(S) - 1 BY <2>1, <4>1, OneMore
      <4> QED BY <2>7, <2>8, <3>2, <4>2
    <3> QED BY <3>1, <3>2
  <2>10. Totals' BY <2>2, <2>7, <2>8, <2>9 DEF Totals, T
  <2> QED BY <1>6, <1>7, <2>10
<1>12. CASE op = "view"
  <2> DEFINE S == Settled("view", viewed)
             T == Settled("view", viewed)'
  <2>1. IsFiniteSet(S) /\ IsFiniteSet(T)
    <3>1. S \subseteq Users /\ T \subseteq Users BY DEF Settled
    <3> QED BY <3>1, FS_Subset, ConstantsAssumption
  <2>2. Settled("like", liked)' = Settled("like", liked)
    <3>1. \A v : Pending("like", v)' <=> Pending("like", v) BY <1>9, <1>12
    <3> QED BY <1>1, <3>1 DEF Settled
  <2>3. \A v \in Users : v # u => (v \in T <=> v \in S)
    <3>1. \A v \in Users : v # u => (Pending("view", v)' <=> Pending("view", v)) BY <1>9
    <3> QED BY <1>1, <3>1 DEF Settled
  <2>4. u \in viewed BY <1>0, <1>1, <1>10, <1>12 DEF ReactRequest
  <2>5. u \notin S /\ u \in T BY <1>1, <1>8, <1>12, <2>4 DEF Settled
  <2>6. S \subseteq Users /\ T \subseteq Users BY DEF Settled
  <2>7. doc.views = Cardinality(S) /\ doc.likes = Cardinality(Settled("like", liked))
    BY <1>5 DEF Totals
  <2>8. doc'.views = doc.views + 1 /\ doc'.likes = doc.likes
    BY <1>0, <1>3, <1>12 DEF ReactTotal, Document
  <2> HIDE DEF S, T
  <2>9. T = S \cup {u} BY <2>3, <2>5, <2>6
  <2>10. Cardinality(T) = Cardinality(S) + 1 BY <2>1, <2>5, <2>9, OneMore
  <2>11. Totals' BY <2>2, <2>7, <2>8, <2>10 DEF Totals, T
  <2> QED BY <1>6, <1>7, <2>11
<1> QED BY <1>11, <1>12


-----------------------------------------------------------------------------
(* Comments *)

LEMMA CommentSets ==
    /\ IsFiniteSet(There) /\ Cardinality(There) \in Nat
    /\ IsFiniteSet(Writing) /\ Cardinality(Writing) \in Nat
    /\ \A c : IsFiniteSet(Replies(c)) /\ Cardinality(Replies(c)) \in Nat
<1>1. There \subseteq Comments /\ Writing \subseteq Requests /\ \A c : Replies(c) \subseteq Comments
  BY DEF There, Writing, Replies
<1>2. IsFiniteSet(There) /\ IsFiniteSet(Writing) /\ \A c : IsFiniteSet(Replies(c))
  BY <1>1, FS_Subset, ConstantsAssumption
<1> QED BY <1>2, FS_CardinalityType

\* A step of one request that leaves the rows and the total alone, and moves no request
\* to or from its last stages.
LEMMA TalkKept ==
    ASSUME Talk, Live, "comments" \notin raced, NEW r \in Requests,
           UNCHANGED <<kind, row>>, doc'.comments = doc.comments,
           \A q \in Requests \ {r} : req'[q] = req[q],
           req[r].op \in Talks => req[r].at \notin {"read", "total"},
           req'[r].op \in Talks => req'[r].at \notin {"read", "total"},
           Alone', TalkRequest(req[r])'
    PROVE  Talk'
<1>1. Answering /\ (\A q \in Requests : TalkRequest(req[q])) /\ Tally BY DEF Talk
<1>2. There' = There /\ \A c : (Top(c)' <=> Top(c)) /\ Replies(c)' = Replies(c)
  <2>1. There' = There BY DEF There
  <2> QED BY <2>1 DEF Top, Replies
<1>3. ASSUME NEW q \in Requests PROVE TalkRequest(req[q])'
  <2>1. CASE q # r
    <3>1. TalkRequest(req[q]) /\ req'[q] = req[q] BY <1>1, <2>1
    <3> QED BY <1>2, <3>1 DEF TalkRequest
  <2> QED BY <2>1
<1>4. Answering' BY <1>1, <1>2 DEF Answering
<1>5. Writing' = Writing /\ (Counting' <=> Counting) BY DEF Writing, Counting, Talks
<1>6. Tally' BY <1>1, <1>2, <1>5 DEF Tally
<1> QED BY <1>3, <1>4, <1>6 DEF Talk

LEMMA CommentKeepsTalk ==
    ASSUME TypeOK, Talk, NEW r \in Requests, NEW u \in Users, NEW p \in Comments \cup {NoComment},
           Comment(r, u, p)
    PROVE  Talk'
<1> SUFFICES ASSUME "comments" \notin raced' PROVE Talk' BY DEF Talk
<1>1. Live /\ UNCHANGED <<kind, row, doc>> BY DEF Comment
<1>2. /\ req[r].op = "idle" /\ req'[r].op = "comment" /\ req'[r].at = "find"
      /\ raced' = raced \cup Clash("comment", u) /\ \A q \in Requests \ {r} : req'[q] = req[q]
  BY CommentFields DEF Replaced
<1>3. \A q \in Requests : req[q].op # "uncomment" BY <1>2 DEF Clash, Topics, Busy
<1>4. Alone' BY <1>2, <1>3 DEF Alone
<1>5. TalkRequest(req[r])' BY <1>2 DEF TalkRequest
<1> QED BY <1>1, <1>2, <1>4, <1>5, TalkKept DEF Talks

\* A step that changes neither op nor the others keeps deletions alone.
LEMMA AloneKept ==
    ASSUME Alone, NEW r \in Requests, \A q \in Requests \ {r} : req'[q] = req[q],
           req'[r].op \in {"idle", req[r].op}
    PROVE  Alone'
BY DEF Alone, Talks

LEMMA CommentFindKeepsTalk ==
    ASSUME TypeOK, Talk, NEW r \in Requests, CommentFind(r)
    PROVE  Talk'
<1>1. UNCHANGED <<kind, doc, row, raced>> /\ req[r].op = "comment" /\ req[r].at = "find"
  BY DEF CommentFind, At
<1> SUFFICES ASSUME Live, "comments" \notin raced PROVE Talk' BY <1>1 DEF Talk, Live
<1>2. Alone BY DEF Talk
<1>3. CASE Done(r)
  <2>1. req'[r] = Idle /\ Idle.op = "idle" /\ \A q \in Requests \ {r} : req'[q] = req[q]
    BY <1>3, DoneFields, IdleType DEF Replaced
  <2>2. TalkRequest(req[r])' BY <2>1 DEF TalkRequest
  <2> QED BY <1>1, <1>2, <2>1, <2>2, AloneKept, TalkKept DEF Talks
<1>4. CASE /\ Goto(r, "write")
           /\ req[r].parent # NoComment => req[r].parent \in There /\ row[req[r].parent].parent = NoComment
  <2>1. "write" \in Stages BY DEF Stages
  <2>2. /\ req'[r].op = req[r].op /\ req'[r].at = "write" /\ req'[r].parent = req[r].parent
        /\ \A q \in Requests \ {r} : req'[q] = req[q]
    BY <1>4, <2>1, GotoFields DEF Replaced
  <2>3. TalkRequest(req[r])' BY <1>1, <1>4, <2>2 DEF TalkRequest, Top, There
  <2> QED BY <1>1, <1>2, <2>2, <2>3, AloneKept, TalkKept
<1> QED BY <1>3, <1>4 DEF CommentFind

\* The row and the count that is still to come
LEMMA CommentWriteKeepsTalk ==
    ASSUME TypeOK, Talk, NEW r \in Requests, NEW c \in Comments, CommentWrite(r, c)
    PROVE  Talk'
<1> DEFINE new == [stage |-> "there", user |-> req[r].user, parent |-> req[r].parent]
<1>1. /\ UNCHANGED <<kind, doc, raced>> /\ req[r].op = "comment" /\ req[r].at = "write"
      /\ row[c].stage = "new" /\ row' = [row EXCEPT ![c] = new]
  BY DEF CommentWrite, At
<1>2. Goto(r, "total") /\ "total" \in Stages BY DEF CommentWrite, Stages
<1>3. /\ req'[r].op = "comment" /\ req'[r].at = "total"
      /\ \A q \in Requests \ {r} : req'[q] = req[q]
  BY <1>1, <1>2, GotoFields DEF Replaced
<1> SUFFICES ASSUME Live, "comments" \notin raced
             PROVE  Alone' /\ Answering' /\ (\A q \in Requests : TalkRequest(req[q])') /\ Tally'
  BY <1>1 DEF Talk, Live
<1>4. Alone /\ Answering /\ (\A q \in Requests : TalkRequest(req[q])) /\ Tally BY DEF Talk
<1>5. Alone' BY <1>1, <1>3, <1>4, AloneKept
<1>6. row'[c] = new /\ \A d \in Comments : d # c => row'[d] = row[d] BY <1>1 DEF TypeOK
<1>7. There' = There \cup {c} /\ c \notin There BY <1>1, <1>6 DEF There
<1>8. \A d : Top(d) => Top(d)' BY <1>6, <1>7 DEF Top, There
<1>9. \A q \in Requests : req[q].op # "uncomment" BY <1>1, <1>4 DEF Alone, Talks
<1>10. TalkRequest(req[r]) BY <1>4
<1>11. req[r].parent # NoComment => Top(req[r].parent) BY <1>1, <1>10 DEF TalkRequest
<1>12. Answering'
  <2> SUFFICES ASSUME NEW d \in There', row'[d].parent # NoComment
               PROVE  Top(row[d].parent)'
    BY DEF Answering
  <2>1. PICK p : p = row'[d].parent OBVIOUS
  <2>2. CASE d = c
    <3>1. p = req[r].parent BY <1>6, <2>1, <2>2
    <3>2. Top(p) BY <1>11, <2>1, <3>1
    <3>3. Top(p)' BY <1>8, <3>2
    <3> QED BY <2>1, <3>3 DEF Top
  <2>3. CASE d # c
    <3>1. d \in There /\ row'[d] = row[d] BY <1>6, <1>7, <2>3 DEF There
    <3>2. Top(p) BY <1>4, <2>1, <3>1 DEF Answering
    <3>3. Top(p)' BY <1>8, <3>2
    <3> QED BY <2>1, <3>3 DEF Top
  <2> QED BY <2>2, <2>3
<1>13. ASSUME NEW q \in Requests PROVE TalkRequest(req[q])'
  <2>1. CASE q = r BY <1>3, <2>1 DEF TalkRequest
  <2>2. CASE q # r
    <3>1. TalkRequest(req[q]) /\ req'[q] = req[q] /\ req[q].op # "uncomment" BY <1>3, <1>4, <1>9, <2>2
    <3> QED BY <1>8, <3>1 DEF TalkRequest
  <2> QED BY <2>1, <2>2
<1>14. Tally'
  <2>1. ~Counting BY <1>9 DEF Counting
  <2>2. Writing' = Writing \cup {r} /\ r \notin Writing BY <1>1, <1>3 DEF Writing
  <2>3. Cardinality(There') = Cardinality(There) + 1 BY <1>7, CommentSets, FS_AddElement
  <2>4. Cardinality(Writing') = Cardinality(Writing) + 1 BY <2>2, CommentSets, FS_AddElement
  <2>5. doc.comments + Cardinality(Writing) = Cardinality(There) BY <1>4, <2>1 DEF Tally
  <2>6. doc.comments \in Int BY DEF TypeOK, Document
  <2>7. doc'.comments + Cardinality(Writing') = Cardinality(There')
    BY <1>1, <2>3, <2>4, <2>5, <2>6, CommentSets
  <2> QED BY <2>7 DEF Tally
<1> QED BY <1>5, <1>12, <1>13, <1>14

LEMMA CommentTotalKeepsTalk ==
    ASSUME TypeOK, Talk, NEW r \in Requests, CommentTotal(r)
    PROVE  Talk'
<1>1. /\ UNCHANGED <<kind, row, raced>> /\ req[r].op = "comment" /\ req[r].at = "total"
      /\ doc' = [doc EXCEPT !.comments = doc.comments + 1]
  BY DEF CommentTotal, At
<1>2. req'[r] = Idle /\ Idle.op = "idle" /\ \A q \in Requests \ {r} : req'[q] = req[q]
  BY DoneFields, IdleType DEF CommentTotal, Replaced
<1>3. /\ doc'.stage = doc.stage /\ doc'.comments = doc.comments + 1
      /\ doc.comments \in Int
  BY <1>1 DEF TypeOK, Document
<1> SUFFICES ASSUME Live, "comments" \notin raced
             PROVE  Alone' /\ Answering' /\ (\A q \in Requests : TalkRequest(req[q])') /\ Tally'
  BY <1>1, <1>3 DEF Talk, Live
<1>4. Alone /\ Answering /\ (\A q \in Requests : TalkRequest(req[q])) /\ Tally BY DEF Talk
<1>5. Alone' BY <1>2, <1>4, AloneKept
<1>6. There' = There /\ \A d : Top(d)' <=> Top(d) BY <1>1 DEF There, Top
<1>7. Answering' BY <1>1, <1>4, <1>6 DEF Answering
<1>8. \A q \in Requests : req[q].op # "uncomment" BY <1>1, <1>4 DEF Alone, Talks
<1>9. ASSUME NEW q \in Requests PROVE TalkRequest(req[q])'
  <2>1. CASE q = r BY <1>2, <2>1 DEF TalkRequest
  <2>2. CASE q # r
    <3>1. TalkRequest(req[q]) /\ req'[q] = req[q] /\ req[q].op # "uncomment" BY <1>2, <1>4, <1>8, <2>2
    <3> QED BY <1>6, <3>1 DEF TalkRequest
  <2> QED BY <2>1, <2>2
<1>10. Tally'
  <2>1. ~Counting BY <1>8 DEF Counting
  <2>2. Writing = Writing' \cup {r} /\ r \notin Writing' BY <1>1, <1>2 DEF Writing
  <2>3. IsFiniteSet(Writing')
    <3>1. Writing' \subseteq Writing BY <2>2
    <3> QED BY <3>1, FS_Subset, CommentSets
  <2>4. Cardinality(Writing) = Cardinality(Writing') + 1 BY <2>2, <2>3, FS_AddElement
  <2>5. doc.comments + Cardinality(Writing) = Cardinality(There) BY <1>4, <2>1 DEF Tally
  <2>6. Cardinality(Writing') \in Nat BY <2>3, FS_CardinalityType
  <2>7. doc'.comments + Cardinality(Writing') = Cardinality(There')
    BY <1>3, <1>6, <2>4, <2>5, <2>6, CommentSets
  <2> QED BY <2>7 DEF Tally
<1> QED BY <1>5, <1>7, <1>9, <1>10


\* A deletion of a comment is the only request about comments.
LEMMA OnlyTalk ==
    ASSUME Alone, NEW r \in Requests, req[r].op = "uncomment"
    PROVE  /\ \A q \in Requests \ {r} : req[q].op \notin Talks
           /\ Writing = {}
           /\ Counting <=> req[r].at \in {"read", "total"}
BY DEF Alone, Talks, Writing, Counting

LEMMA UncommentKeepsTalk ==
    ASSUME TypeOK, Talk, NEW r \in Requests, NEW u \in Users, NEW c \in Comments,
           Uncomment(r, u, c)
    PROVE  Talk'
<1> SUFFICES ASSUME "comments" \notin raced' PROVE Talk' BY DEF Talk
<1>1. Live /\ UNCHANGED <<kind, row, doc>> BY DEF Uncomment
<1>2. /\ req[r].op = "idle" /\ req'[r].op = "uncomment" /\ req'[r].at = "find"
      /\ req'[r].comment = c /\ req'[r].parent = NoComment /\ req'[r].seen = doc.comments
      /\ raced' = raced \cup Clash("uncomment", u) /\ \A q \in Requests \ {r} : req'[q] = req[q]
  BY UncommentFields DEF Replaced
<1>3. \A q \in Requests : req[q].op \notin Talks BY <1>2 DEF Clash, Topics, Busy, Talks
<1>4. Alone' BY <1>2, <1>3 DEF Alone, Talks
<1>5. TalkRequest(req[r])' BY <1>1, <1>2 DEF TalkRequest
<1> QED BY <1>1, <1>2, <1>4, <1>5, TalkKept DEF Talks

LEMMA UncommentFindKeepsTalk ==
    ASSUME TypeOK, Talk, NEW r \in Requests, UncommentFind(r)
    PROVE  Talk'
<1>1. UNCHANGED <<kind, doc, row, raced>> BY DEF UncommentFind
<1>2. req[r].op = "uncomment" /\ req[r].at = "find" BY UncommentFindFields
<1> SUFFICES ASSUME Live, "comments" \notin raced PROVE Talk' BY <1>1 DEF Talk, Live
<1>3. Alone /\ TalkRequest(req[r]) BY DEF Talk
<1>4. CASE Replaced(r, Idle)
  <2>1. req'[r] = Idle /\ Idle.op = "idle" /\ \A q \in Requests \ {r} : req'[q] = req[q]
    BY <1>4, IdleType DEF Replaced
  <2>2. TalkRequest(req[r])' BY <2>1 DEF TalkRequest
  <2> QED BY <1>1, <1>2, <1>3, <2>1, <2>2, AloneKept, TalkKept DEF Talks
<1>5. CASE /\ Replaced(r, req'[r]) /\ req'[r].op = "uncomment" /\ req'[r].at \in {"count", "write"}
           /\ req[r].comment \in There /\ req'[r].comment = req[r].comment
           /\ req'[r].seen = req[r].seen
           /\ req'[r].at = "count" =>
                row[req[r].comment].parent = NoComment /\ req'[r].parent = req[r].parent
           /\ req'[r].at = "write" =>
                /\ row[req[r].comment].parent # NoComment
                /\ req'[r].parent = row[req[r].comment].parent /\ req'[r].n = 1
  <2>1. \A q \in Requests \ {r} : req'[q] = req[q] BY <1>5 DEF Replaced
  <2>2. /\ req[r].comment \in Comments /\ req[r].parent = NoComment
        /\ kind = "post" => req[r].seen = doc.comments
    BY <1>2, <1>3 DEF TalkRequest
  <2>3. TalkRequest(req[r])'
    <3>1. UNCHANGED There BY <1>1 DEF There
    <3> QED BY <1>1, <1>5, <2>2, <3>1 DEF TalkRequest, Top
  <2> QED BY <1>1, <1>2, <1>3, <1>5, <2>1, <2>3, AloneKept, TalkKept
<1> QED BY <1>4, <1>5, UncommentFindFields

LEMMA UncommentCountKeepsTalk ==
    ASSUME TypeOK, Talk, NEW r \in Requests, UncommentCount(r)
    PROVE  Talk'
<1>1. UNCHANGED <<kind, doc, row, raced>> BY DEF UncommentCount
<1>2. /\ req[r].op = "uncomment" /\ req[r].at = "count"
      /\ req'[r].op = "uncomment" /\ req'[r].at = "write"
      /\ req'[r].n = 1 + Cardinality(Replies(req[r].comment))
      /\ req'[r].comment = req[r].comment /\ req'[r].parent = req[r].parent
      /\ req'[r].seen = req[r].seen /\ \A q \in Requests \ {r} : req'[q] = req[q]
  BY UncommentCountFields DEF Replaced
<1> SUFFICES ASSUME Live, "comments" \notin raced PROVE Talk' BY <1>1 DEF Talk, Live
<1>3. Alone /\ TalkRequest(req[r]) BY DEF Talk
<1>4. /\ req[r].comment \in Comments /\ req[r].parent = NoComment /\ Top(req[r].comment)
      /\ kind = "post" => req[r].seen = doc.comments
  BY <1>2, <1>3 DEF TalkRequest
<1>5. UNCHANGED There BY <1>1 DEF There
<1>6. \A d : Replies(d)' = Replies(d) BY <1>1, <1>5 DEF Replies
<1>7. TalkRequest(req[r])' BY <1>1, <1>2, <1>4, <1>5, <1>6 DEF TalkRequest, Top
<1> QED BY <1>1, <1>2, <1>3, <1>7, AloneKept, TalkKept

LEMMA UncommentReadKeepsTalk ==
    ASSUME TypeOK, Talk, NEW r \in Requests, UncommentRead(r)
    PROVE  Talk'
<1>1. UNCHANGED <<kind, doc, row, raced>> BY DEF UncommentRead
<1>2. /\ req[r].op = "uncomment" /\ req[r].at = "read"
      /\ req'[r].op = "uncomment" /\ req'[r].at = "total"
      /\ req'[r].seen = doc.comments /\ req'[r].n = req[r].n
      /\ req'[r].comment = req[r].comment /\ \A q \in Requests \ {r} : req'[q] = req[q]
  BY UncommentReadFields DEF Replaced
<1> SUFFICES ASSUME Live, "comments" \notin raced
             PROVE  Alone' /\ Answering' /\ (\A q \in Requests : TalkRequest(req[q])') /\ Tally'
  BY <1>1 DEF Talk, Live
<1>3. Alone /\ Answering /\ \A q \in Requests : TalkRequest(req[q]) BY DEF Talk
<1>4. Alone' BY <1>2, <1>3, AloneKept
<1>5. There' = There BY <1>1 DEF There
<1>6. Answering' BY <1>1, <1>3, <1>5 DEF Answering, Top
<1>7. req[r].comment \in Comments /\ doc.comments = Cardinality(There) + req[r].n
  BY <1>2, <1>3 DEF TalkRequest
<1>8. ASSUME NEW q \in Requests PROVE TalkRequest(req[q])'
  <2>1. CASE q = r BY <1>1, <1>2, <1>5, <1>7, <2>1 DEF TalkRequest
  <2>2. CASE q # r
    <3>1. req[q].op \notin Talks /\ req'[q] = req[q] BY <1>2, <1>3, <2>2, OnlyTalk
    <3> QED BY <3>1 DEF TalkRequest, Talks
  <2> QED BY <2>1, <2>2
<1>9. Tally' BY <1>2 DEF Tally, Counting
<1> QED BY <1>4, <1>6, <1>8, <1>9

LEMMA UncommentTotalKeepsTalk ==
    ASSUME TypeOK, Talk, NEW r \in Requests, UncommentTotal(r)
    PROVE  Talk'
<1> DEFINE left == req[r].seen - req[r].n
<1>1. /\ UNCHANGED <<kind, row, raced>> /\ req[r].op = "uncomment" /\ req[r].at = "total"
      /\ doc' = [doc EXCEPT !.comments = IF left < 0 THEN 0 ELSE left]
  BY DEF UncommentTotal, At
<1>2. req'[r] = Idle /\ Idle.op = "idle" /\ \A q \in Requests \ {r} : req'[q] = req[q]
  BY DoneFields, IdleType DEF UncommentTotal, Replaced
<1>3. doc'.stage = doc.stage /\ doc'.comments = (IF left < 0 THEN 0 ELSE left)
  <2> HIDE DEF left
  <2> QED BY <1>1 DEF TypeOK, Document
<1> SUFFICES ASSUME Live, "comments" \notin raced
             PROVE  Alone' /\ Answering' /\ (\A q \in Requests : TalkRequest(req[q])') /\ Tally'
  BY <1>1, <1>3 DEF Talk, Live
<1>4. Alone /\ Answering /\ \A q \in Requests : TalkRequest(req[q]) BY DEF Talk
<1>5. Alone' BY <1>2, <1>4, AloneKept
<1>6. There' = There BY <1>1 DEF There
<1>7. Answering' BY <1>1, <1>4, <1>6 DEF Answering, Top
<1>8. \A q \in Requests : req'[q].op \notin Talks BY <1>1, <1>2, <1>4, OnlyTalk DEF Talks
<1>9. \A q \in Requests : TalkRequest(req[q])' BY <1>8 DEF TalkRequest, Talks
<1>10. doc'.comments = Cardinality(There)
  <2>1. req[r].seen = doc.comments /\ doc.comments = Cardinality(There) + req[r].n
    BY <1>1, <1>4 DEF TalkRequest
  <2>2. req[r].n \in Nat BY DEF TypeOK, Request
  <2>3. left = Cardinality(There) BY <2>1, <2>2, CommentSets
  <2> HIDE DEF left
  <2> QED BY <1>3, <2>3, CommentSets
<1>11. Tally'
  <2>1. Writing' = {} BY <1>8 DEF Writing, Talks
  <2>2. Cardinality({}) = 0 BY FS_EmptySet
  <2> QED BY <1>6, <1>10, <2>1, <2>2, CommentSets DEF Tally
<1> QED BY <1>5, <1>7, <1>9, <1>11

\* The rows go before the total: it is too high by as many rows as have gone.
LEMMA Fewer ==
    ASSUME NEW S, NEW T, NEW n \in Nat, T \subseteq S, IsFiniteSet(S), Cardinality(T) = n
    PROVE  Cardinality(S) = Cardinality(S \ T) + n
<1>1. IsFiniteSet(T) BY FS_Subset
<1>2. S \cap T = T OBVIOUS
<1>3. Cardinality(S \ T) = Cardinality(S) - Cardinality(T)
  BY <1>1, <1>2, FS_Difference
<1>4. Cardinality(S) \in Nat BY FS_CardinalityType
<1> QED BY <1>3, <1>4

LEMMA UncommentWriteKeepsTalk ==
    ASSUME TypeOK, Talk, NEW r \in Requests, UncommentWrite(r)
    PROVE  Talk'
<1>0. PICK c, n : c = req[r].comment /\ n = req[r].n OBVIOUS
<1> DEFINE at == IF kind = "post" THEN "total" ELSE "read"
<1>1. /\ UNCHANGED <<kind, doc, raced>> /\ req[r].op = "uncomment" /\ req[r].at = "write"
  BY DEF UncommentWrite, At
<1>2. Goto(r, at) /\ at \in Stages BY DEF UncommentWrite, Stages
<1>3. /\ req'[r].op = "uncomment" /\ req'[r].at = at /\ req'[r].comment = c
      /\ req'[r].n = n /\ req'[r].seen = req[r].seen
      /\ \A q \in Requests \ {r} : req'[q] = req[q]
  <2> HIDE DEF at
  <2> QED BY <1>0, <1>1, <1>2, GotoFields DEF Replaced
<1> SUFFICES ASSUME Live, "comments" \notin raced
             PROVE  Alone' /\ Answering' /\ (\A q \in Requests : TalkRequest(req[q])') /\ Tally'
  BY <1>1 DEF Talk, Live
<1>4. Alone /\ Answering /\ (\A q \in Requests : TalkRequest(req[q])) /\ Tally BY DEF Talk
<1>5. Alone' BY <1>1, <1>3, <1>4, AloneKept
<1>6. PICK gone : gone = {c} \cup (IF req[r].parent = NoComment THEN Replies(c) ELSE {}) OBVIOUS
<1>7. TalkRequest(req[r]) BY <1>4
<1>8. /\ c \in There /\ c \in Comments /\ row[c].parent = req[r].parent
      /\ n = 1 + (IF req[r].parent = NoComment THEN Cardinality(Replies(c)) ELSE 0)
      /\ kind = "post" => req[r].seen = doc.comments
  BY <1>0, <1>1, <1>7 DEF TalkRequest
<1>9. row' = [d \in Comments |-> IF d \in gone THEN Gone(d) ELSE row[d]]
  BY <1>0, <1>6 DEF UncommentWrite
<1>10. gone \subseteq There BY <1>6, <1>8 DEF Replies
<1>11. \A d \in There : row[d] \in Row BY DEF TypeOK, There
<1>12. /\ There' = There \ gone
       /\ \A d \in Comments \ gone : row'[d] = row[d]
  <2>1. \A d \in Comments \ gone : row'[d] = row[d] BY <1>9
  <2>2. ASSUME NEW d \in gone PROVE row'[d].stage = "gone"
    <3>1. d \in Comments /\ row[d].stage = "there" /\ row[d] \in Row BY <1>10, <1>11, <2>2 DEF There
    <3>2. row'[d] = [row[d] EXCEPT !.stage = "gone"] BY <1>9, <3>1 DEF Gone
    <3> QED BY <3>1, <3>2 DEF Row
  <2> QED BY <1>10, <2>1, <2>2 DEF There
<1>13. n \in Nat /\ Cardinality(gone) = n
  <2>1. CASE req[r].parent = NoComment
    <3>1. c \notin Replies(c) BY <1>8, <2>1, ConstantsAssumption DEF Replies
    <3>2. gone = Replies(c) \cup {c} BY <1>6, <2>1
    <3>3. Cardinality(gone) = Cardinality(Replies(c)) + 1 BY <3>1, <3>2, CommentSets, FS_AddElement
    <3>4. n = 1 + Cardinality(Replies(c)) /\ Cardinality(Replies(c)) \in Nat BY <1>8, <2>1, CommentSets
    <3> QED BY <3>3, <3>4
  <2>2. CASE req[r].parent # NoComment
    <3>1. gone = {c} /\ n = 1 BY <1>6, <1>8, <2>2
    <3> QED BY <3>1, FS_Singleton
  <2> QED BY <2>1, <2>2
<1>14. doc.comments = Cardinality(There') + n
  <2>1. Writing = {} /\ ~Counting BY <1>1, <1>4, OnlyTalk
  <2>2. doc.comments + 0 = Cardinality(There) BY <1>4, <2>1, FS_EmptySet DEF Tally
  <2>3. Cardinality(There) = Cardinality(There') + n BY <1>10, <1>12, <1>13, CommentSets, Fewer
  <2>4. doc.comments \in Int BY DEF TypeOK, Document
  <2> QED BY <2>2, <2>3, <2>4
<1>15. Answering'
  <2> SUFFICES ASSUME NEW d \in There', row'[d].parent # NoComment
               PROVE  Top(row[d].parent)'
    BY DEF Answering
  <2>1. PICK p : p = row'[d].parent OBVIOUS
  <2>2. d \in There /\ d \notin gone /\ row[d].parent = p BY <1>12, <2>1 DEF There
  <2>3. Top(p) BY <1>4, <2>1, <2>2 DEF Answering
  <2>4. p \notin gone
    <3>1. CASE p = c
      <4>1. req[r].parent = NoComment BY <1>8, <2>3, <3>1 DEF Top
      <4>2. d \in Replies(c) BY <2>2, <3>1 DEF Replies
      <4> QED BY <1>6, <2>2, <4>1, <4>2
    <3>2. CASE p # c /\ p \in gone
      <4>1. p \in Replies(c) BY <1>6, <3>2
      <4> QED BY <1>8, <2>3, <4>1, ConstantsAssumption DEF Top, Replies
    <3> QED BY <3>1, <3>2
  <2>5. p \in There' /\ row'[p].parent = NoComment
    BY <1>12, <2>3, <2>4 DEF Top, There
  <2> QED BY <2>1, <2>5 DEF Top
<1>16. ASSUME NEW q \in Requests PROVE TalkRequest(req[q])'
  <2>1. CASE q = r BY <1>1, <1>3, <1>8, <1>14, <2>1 DEF TalkRequest
  <2>2. CASE q # r
    <3>1. req[q].op \notin Talks /\ req'[q] = req[q] BY <1>1, <1>3, <1>4, <2>2, OnlyTalk
    <3> QED BY <3>1 DEF TalkRequest, Talks
  <2> QED BY <2>1, <2>2
<1>17. Tally' BY <1>3 DEF Tally, Counting
<1> QED BY <1>5, <1>15, <1>16, <1>17


-----------------------------------------------------------------------------
(* The inductive invariant *)

LEMMA BirthKeepsTotals ==
    ASSUME TypeOK, Unborn,
           \/ \E images \in SUBSET Images : CreatePost(images)
           \/ \E r \in Requests, images, body \in SUBSET Images : CreateArticle(r, images, body)
    PROVE  Engagement' /\ Talk'
<1>1. PICK images \in SUBSET Images : doc' = [Blank EXCEPT !.stage = "live", !.images = images]
  BY DEF CreatePost, CreateArticle
<1>2. doc'.likes = 0 /\ doc'.views = 0 /\ doc'.comments = 0
  <2> DEFINE b == [Blank EXCEPT !.stage = "live"]
  <2>1. b \in Document /\ b.likes = 0 /\ b.views = 0 /\ b.comments = 0 BY IdleType DEF Document
  <2>2. doc' = [b EXCEPT !.images = images] BY <1>1
  <2> HIDE DEF b
  <2> QED BY <2>1, <2>2 DEF Document
<1>3. doc.stage = "none" /\ UNCHANGED <<liked, viewed, row>> BY DEF CreatePost, CreateArticle
<1>4. /\ liked' = {} /\ viewed' = {} /\ There' = {}
      /\ \A r \in Requests : req[r].op = "idle"
  BY <1>3 DEF Unborn, There
<1>5. \A q \in Requests : req'[q].op \notin Reacts /\ req'[q].op \notin Talks
  <2>1. CASE \E i \in SUBSET Images : CreatePost(i)
    BY <1>4, <2>1 DEF CreatePost, Reacts, Talks
  <2>2. ASSUME NEW r \in Requests, NEW i \in SUBSET Images, NEW b \in SUBSET Images,
               CreateArticle(r, i, b)
        PROVE  \A q \in Requests : req'[q].op \in {"idle", "create"}
    BY <1>4, <2>2, CreateArticleFields DEF Replaced
  <2> QED BY <2>1, <2>2 DEF Reacts, Talks
<1>6. Settled("like", liked)' = {} /\ Settled("view", viewed)' = {}
  BY <1>4, <1>5 DEF Settled, Pending, Reacts
<1>7. Cardinality({}) = 0 BY FS_EmptySet
<1>8. Engagement'
  <2>1. OneEach' BY <1>5 DEF OneEach
  <2>2. \A q \in Requests : ReactRequest(req[q])' BY <1>5 DEF ReactRequest, Reacts
  <2>3. Totals' BY <1>2, <1>6, <1>7 DEF Totals
  <2> QED BY <2>1, <2>2, <2>3 DEF Engagement
<1>9. Talk'
  <2>1. Alone' BY <1>5 DEF Alone
  <2>2. Answering' BY <1>4 DEF Answering
  <2>3. \A q \in Requests : TalkRequest(req[q])' BY <1>5 DEF TalkRequest, Talks
  <2>4. Writing' = {} BY <1>5 DEF Writing, Talks
  <2>5. Tally' BY <1>2, <1>4, <1>7, <2>4 DEF Tally
  <2> QED BY <2>1, <2>2, <2>3, <2>5 DEF Talk
<1> QED BY <1>8, <1>9

LEMMA CutKeepsTotals ==
    ASSUME TypeOK, Engagement, Talk, NEW r \in Requests, Cut(r)
    PROVE  Engagement' /\ Talk'
<1>1. UNCHANGED <<kind, doc, liked, viewed, row>> BY DEF Cut
<1>2. /\ Replaced(r, Idle) /\ raced \subseteq raced' /\ Idle.op = "idle"
      /\ req[r].op \in {"like", "view"} /\ req[r].at = "total" => "engagement" \in raced'
      /\ req[r].op \in {"comment", "uncomment"} /\ req[r].at = "total" => "comments" \in raced'
      /\ req[r].op = "uncomment" /\ req[r].at = "read" => "comments" \in raced'
  BY CutFields, IdleType
<1>3. Engagement'
  <2> SUFFICES ASSUME Live', "engagement" \notin raced' PROVE Engagement' BY DEF Engagement
  <2>1. Live /\ OneEach /\ (\A q \in Requests : ReactRequest(req[q])) BY <1>1, <1>2 DEF Live, Engagement
  <2>2. ReactRequest(req[r]) BY <2>1
  <2>3. req[r].op \in Reacts => req[r].at \notin {"read", "total"}
    BY <1>2, <2>2 DEF ReactRequest, Reacts
  <2>4. Aside(Reacts) BY <1>1, <1>2, <2>1, <2>3, AsideBy DEF Reacts
  <2> QED BY <1>1, <2>4, EngagementAside
<1>4. Talk'
  <2> SUFFICES ASSUME Live', "comments" \notin raced' PROVE Talk' BY DEF Talk
  <2>1. Live BY <1>1 DEF Live
  <2>2. TalkRequest(req[r]) BY <1>2, <2>1 DEF Talk
  <2>3. req[r].op \in Talks => req[r].at \notin {"read", "total"}
    BY <1>2, <2>2 DEF TalkRequest, Talks
  <2>4. Aside(Talks) BY <1>1, <1>2, <2>1, <2>3, AsideBy DEF Talks
  <2> QED BY <1>1, <2>4, TalkAside
<1> QED BY <1>3, <1>4


LEMMA NextTotals ==
    ASSUME TypeOK, Unborn, Edits, Engagement, Talk, [Next]_vars
    PROVE  Engagement' /\ Talk'
<1>1. ASSUME NEW r \in Requests,
             \/ \E u \in Users : \E op \in {"like", "view"} : React(r, op, u)
             \/ ReactFind(r) \/ ReactWrite(r) \/ ReactTotal(r)
      PROVE  Engagement' /\ Talk'
  <2>1. Engagement'
    BY <1>1, ReactKeepsEngagement, ReactFindKeepsEngagement, ReactWriteKeepsEngagement,
       ReactTotalKeepsEngagement
  <2>2. Aside(Talks) /\ row' = row /\ doc'.comments = doc.comments BY <1>1, ReactsAside
  <2>3. Talk' BY <2>2, TalkAside
  <2> QED BY <2>1, <2>3
<1>2. ASSUME NEW r \in Requests,
             \/ \E u \in Users, p \in Comments \cup {NoComment} : Comment(r, u, p)
             \/ CommentFind(r) \/ CommentTotal(r)
             \/ \E c \in Comments : CommentWrite(r, c)
             \/ \E u \in Users, c \in Comments : Uncomment(r, u, c)
             \/ UncommentFind(r) \/ UncommentCount(r) \/ UncommentWrite(r)
             \/ UncommentRead(r) \/ UncommentTotal(r)
      PROVE  Engagement' /\ Talk'
  <2>1. /\ Aside(Reacts) /\ UNCHANGED <<liked, viewed>>
        /\ doc'.likes = doc.likes /\ doc'.views = doc.views
    BY <1>2, CommentsAside
  <2>2. Engagement' BY <2>1, EngagementAside
  <2>3. Talk'
    BY <1>2, CommentKeepsTalk, CommentFindKeepsTalk, CommentWriteKeepsTalk, CommentTotalKeepsTalk,
       UncommentKeepsTalk, UncommentFindKeepsTalk, UncommentCountKeepsTalk,
       UncommentWriteKeepsTalk, UncommentReadKeepsTalk, UncommentTotalKeepsTalk
  <2> QED BY <2>2, <2>3
<1>3. CASE \/ \E images \in SUBSET Images : CreatePost(images)
           \/ \E r \in Requests, images, body \in SUBSET Images : CreateArticle(r, images, body)
  BY <1>3, BirthKeepsTotals
<1>4. CASE \/ \E r \in Requests, images \in SUBSET Images : UpdatePost(r, images)
           \/ \E r \in Requests : SavePost(r) \/ CleanUpdate(r)
           \/ \E i \in Images : DeleteUpload(i)
           \/ \E r \in Requests, images, body \in SUBSET Images : UpdateArticle(r, images, body)
           \/ \E r \in Requests : ReadText(r) \/ PutText(r) \/ SaveArticle(r)
           \/ \E r \in Requests : DeletePost(r) \/ DeleteArticle(r)
           \/ \E r \in Requests : SaveDelete(r) \/ CleanDelete(r) \/ Wipe(r)
  <2>1. \A ops \in {Reacts, Talks} :
          /\ Aside(ops)
          /\ Live' => /\ UNCHANGED <<liked, viewed, row>>
                      /\ doc'.likes = doc.likes /\ doc'.views = doc.views
                      /\ doc'.comments = doc.comments
    BY <1>4, EditsAside
  <2>2. Engagement' BY <2>1, EngagementAside
  <2>3. Talk' BY <2>1, TalkAside
  <2> QED BY <2>2, <2>3
<1>5. ASSUME NEW r \in Requests, Cut(r) PROVE Engagement' /\ Talk'
  BY <1>5, CutKeepsTotals
<1>6. CASE UNCHANGED vars
  <2>1. \A ops : Aside(ops) BY <1>6 DEF vars, Aside, Same, Live
  <2>2. UNCHANGED <<doc, liked, viewed, row>> BY <1>6 DEF vars
  <2> QED BY <2>1, <2>2, EngagementAside, TalkAside
<1> QED BY <1>1, <1>2, <1>3, <1>4, <1>5, <1>6 DEF Next

Inv == TypeOK /\ Unborn /\ Edits /\ Engagement /\ Talk

LEMMA InitInv == Init => Inv
<1> SUFFICES ASSUME Init PROVE Inv OBVIOUS
<1>1. /\ doc = Blank /\ text.images = {} /\ liked = {} /\ viewed = {}
      /\ \A r \in Requests : req[r] = Idle
      /\ \A c \in Comments : row[c].stage = "new"
      /\ stored = held /\ kind \in {"post", "article"}
  BY DEF Init
<1>2. TypeOK
  <2>1. [stage |-> "new", user |-> Author, parent |-> NoComment] \in Row
    BY ConstantsAssumption DEF Row
  <2>2. row \in [Comments -> Row] BY <2>1 DEF Init
  <2>3. req \in [Requests -> Request] BY IdleType DEF Init
  <2>4. text \in [there : BOOLEAN, images : SUBSET Images] BY DEF Init
  <2> QED BY <2>2, <2>3, <2>4, IdleType DEF Init, TypeOK
<1>3. Unborn BY <1>1, IdleType DEF Unborn
<1>4. Shown = {} /\ ~Live BY <1>1, IdleType DEF Shown, Live
<1>5. Deletions /\ Articles BY <1>1, <1>4, IdleType DEF Deletions, Articles
<1>6. Uploads BY <1>1, <1>4, IdleType DEF Uploads
<1>7. Posts BY <1>1, <1>4, IdleType DEF Posts, PostRequest, Dropped
<1>8. Engagement /\ Talk BY <1>4 DEF Engagement, Talk
<1> QED BY <1>2, <1>3, <1>5, <1>6, <1>7, <1>8 DEF Inv, Edits

LEMMA NextInv == Inv /\ [Next]_vars => Inv'
BY NextType, NextUnborn, NextEdits, NextTotals DEF Inv

LEMMA Invariance == Spec => []Inv
BY InitInv, NextInv, PTL DEF Spec

-----------------------------------------------------------------------------
(* Theorems *)

\* Every field of every request, row and document keeps its type.
THEOREM TypeCorrect == Spec => []TypeOK
<1>1. Inv => TypeOK BY DEF Inv
<1> QED BY <1>1, Invariance, PTL

\* However many edits overlap, what a post shows is stored, and what an article shows is as
\* long as no two of its edits overlap: but for the images that a client has had deleted by
\* their address, or has submitted after an edit had dropped them.
THEOREM ImagesCorrect == Spec => []LiveImagesKept
<1>1. Inv => LiveImagesKept
  <2> SUFFICES ASSUME Inv, Live, kind = "post" \/ "images" \notin raced
               PROVE  Shown \ stray \subseteq stored
    BY DEF LiveImagesKept
  <2>1. kind \in {"post", "article"} BY DEF Inv, TypeOK
  <2>2. CASE kind = "post" BY <2>2 DEF Inv, Edits, Posts, Shown
  <2>3. CASE kind = "article" BY <2>3 DEF Inv, Edits, Articles
  <2> QED BY <2>1, <2>2, <2>3
<1> QED BY <1>1, Invariance, PTL

\* Whichever likes and views overlap, those of one user excepted, the totals are the numbers
\* of users whose rows say so.
THEOREM EngagementCorrect == Spec => []EngagementCounted
<1>1. Inv => EngagementCounted
  <2> SUFFICES ASSUME Inv, Live, "engagement" \notin raced, ~Busy({"like", "view"}), NEW u \in Users
               PROVE  /\ Answer(u).likes = Cardinality({v \in Users : Answer(v).liked})
                      /\ Answer(u).views = Cardinality({v \in Users : Answer(v).previouslySeen})
    BY DEF EngagementCounted
  <2>1. Totals BY DEF Inv, Engagement
  <2>2. \A v : ~Pending("like", v) /\ ~Pending("view", v) BY DEF Busy, Pending
  <2>3. Settled("like", liked) = {v \in Users : v \in liked}
        /\ Settled("view", viewed) = {v \in Users : v \in viewed}
    BY <2>2 DEF Settled
  <2>4. {v \in Users : Answer(v).liked} = {v \in Users : v \in liked}
        /\ {v \in Users : Answer(v).previouslySeen} = {v \in Users : v \in viewed}
    BY DEF Answer
  <2>5. Answer(u).likes = doc.likes /\ Answer(u).views = doc.views BY DEF Answer
  <2> QED BY <2>1, <2>3, <2>4, <2>5 DEF Totals
<1> QED BY <1>1, Invariance, PTL

\* Whichever additions of comments overlap, the total is the number of comments and replies
\* that readers are listed.
THEOREM CommentsCorrect == Spec => []CommentsCounted
<1>1. Inv => CommentsCounted
  <2> SUFFICES ASSUME Inv, Live, "comments" \notin raced, ~Busy({"comment", "uncomment"})
               PROVE  doc.comments = Cardinality(Listed)
    BY DEF CommentsCounted
  <2>1. Answering /\ Tally BY DEF Inv, Talk
  <2>2. Writing = {} /\ ~Counting BY DEF Busy, Writing, Counting
  <2>3. doc.comments + 0 = Cardinality(There) BY <2>1, <2>2, FS_EmptySet DEF Tally
  <2>4. Listed = There
    <3> DEFINE top == {c \in There : row[c].parent = NoComment}
    <3>1. Listed = top \cup UNION {Replies(c) : c \in top} BY DEF Listed
    <3>2. \A c \in top : Replies(c) \subseteq There BY DEF Replies
    <3>3. \A c \in There : c \notin top => row[c].parent \in top /\ c \in Replies(row[c].parent)
      BY <2>1 DEF Answering, Top, Replies
    <3> HIDE DEF top
    <3>4. There \subseteq top \cup UNION {Replies(c) : c \in top} BY <3>3
    <3>5. top \subseteq There BY DEF top
    <3> QED BY <3>1, <3>2, <3>4, <3>5
  <2>5. doc.comments \in Int BY DEF Inv, TypeOK, Document
  <2> QED BY <2>3, <2>4, <2>5
<1> QED BY <1>1, Invariance, PTL

\* No edit, like, view or comment that loaded a publication before it was deleted brings it
\* back by saving what it holds.
THEOREM DeletedCorrect == Spec => DeletedStaysDeleted
<1>1. ASSUME TypeOK, [Next]_vars, doc.stage = "deleted" PROVE doc'.stage = "deleted"
  <2>1. doc \in Document BY <1>1 DEF TypeOK
  <2>2. ASSUME NEW r \in Requests,
               \/ \E u \in Users : \E op \in {"like", "view"} : React(r, op, u)
               \/ ReactFind(r) \/ ReactWrite(r) \/ CommentFind(r)
               \/ \E u \in Users, p \in Comments \cup {NoComment} : Comment(r, u, p)
               \/ \E c \in Comments : CommentWrite(r, c)
               \/ \E u \in Users, c \in Comments : Uncomment(r, u, c)
               \/ UncommentFind(r) \/ UncommentCount(r) \/ UncommentWrite(r) \/ UncommentRead(r)
        PROVE  doc' = doc
    BY <2>2 DEF React, ReactFind, ReactWrite, CommentFind, Comment, CommentWrite, Uncomment,
       UncommentFind, UncommentCount, UncommentWrite, UncommentRead
  <2>3. ASSUME NEW r \in Requests, ReactTotal(r) \/ CommentTotal(r) \/ UncommentTotal(r)
        PROVE  doc'.stage = doc.stage
    BY <2>1, <2>3 DEF ReactTotal, CommentTotal, UncommentTotal, Document
  <2>4. ASSUME \/ \E images \in SUBSET Images : CreatePost(images)
               \/ \E r \in Requests, images, body \in SUBSET Images : CreateArticle(r, images, body)
               \/ \E r \in Requests, images, body \in SUBSET Images : UpdateArticle(r, images, body)
        PROVE  FALSE
    BY <1>1, <2>4 DEF CreatePost, CreateArticle, UpdateArticle, Live
  <2>5. ASSUME NEW r \in Requests,
               \/ \E images \in SUBSET Images : UpdatePost(r, images)
               \/ CleanUpdate(r) \/ ReadText(r) \/ PutText(r) \/ DeletePost(r) \/ DeleteArticle(r)
               \/ CleanDelete(r) \/ Wipe(r) \/ Cut(r)
        PROVE  doc' = doc
    BY <2>5 DEF UpdatePost, CleanUpdate, ReadText, PutText, DeletePost, DeleteArticle, CleanDelete,
       Wipe, Cut
  <2>6. ASSUME NEW r \in Requests, SavePost(r) \/ SaveArticle(r) PROVE doc'.stage = doc.stage
    BY <2>1, <2>6 DEF SavePost, SaveArticle, Document
  <2>7. ASSUME NEW r \in Requests, SaveDelete(r) PROVE doc'.stage = "deleted"
    BY <1>1, <2>7, SaveDeleteFields
  <2>8. ASSUME NEW i \in Images, DeleteUpload(i) PROVE doc' = doc BY <2>8 DEF DeleteUpload
  <2>9. CASE UNCHANGED vars BY <1>1, <2>9 DEF vars
  <2> QED BY <1>1, <2>2, <2>3, <2>4, <2>5, <2>6, <2>7, <2>8, <2>9 DEF Next
<1>2. TypeOK /\ [Next]_vars => [doc.stage = "deleted" => doc'.stage = "deleted"]_vars BY <1>1
<1> QED BY <1>2, TypeCorrect, PTL DEF Spec, DeletedStaysDeleted


===============================================================================

------------------------------ MODULE Exercises ------------------------------
(***************************************************************************)
(* Tests and sentence builders of one author, the links they are shared    *)
(* by, the results that come in through the links, and the best results of *)
(* the memory games (arena/arena.service.ts and saveSoloBattle of          *)
(* arena/arena.controller.ts).  Tests and sentence builders are stored     *)
(* alike; kind says which of them a behaviour is about.  Each action is    *)
(* one awaited database call with the synchronous code around it.          *)
(***************************************************************************)
EXTENDS Naturals, FiniteSets

CONSTANTS
    Docs,         \* tests or sentence builders
    Links,        \* share links
    NoLink,
    Results,      \* histories of solo battles, or attempts
    Users,        \* who plays the memory games
    Scores,       \* of a game
    Times,        \* in which a game was memorized
    MaxDocs,      \* testsCreated, sentenceBuildersCreated
    MaxLinks,     \* testShareLinksPerTest, sentenceBuilderShareLinksPerDeck
    MaxEdition,   \* updates of a document (a bound)
    Requests      \* requests under way at the same time (a bound)

ASSUME ConstantsAssumption ==
    /\ NoLink \notin Links
    /\ Scores \subseteq Nat /\ Times \subseteq Nat
    /\ IsFiniteSet(Docs) /\ IsFiniteSet(Links) /\ IsFiniteSet(Users)
    /\ Docs # {} /\ Users # {}
    /\ MaxDocs \in Nat /\ MaxLinks \in Nat /\ MaxEdition \in Nat \ {0}

VARIABLES
    kind,     \* what the documents are
    doc,      \* the tests or sentence builders
    link,     \* TestShareLink, SentenceBuilderShareLink
    result,   \* BattleHistory, SentenceBuilderAttempt
    best,     \* MnemonicResult
    req,      \* the requests under way
    raced     \* what has been written by requests that overlapped (history)

vars == <<kind, doc, link, result, best, req, raced>>

States == {"new", "there", "gone"}
Doc == [state : States, edition : 1 .. MaxEdition, isPublic : BOOLEAN]
Link == [state : States, doc : Docs, persist : BOOLEAN]
Result == [state : States, doc : Docs, link : Links \cup {NoLink}]
Best == [there : BOOLEAN, score : Nat, time : Nat]

Ops == {"idle", "create", "update", "delete", "link", "unlink", "submit", "play"}
Stages == {"load", "count", "link", "links", "results", "drop", "save"}
Request ==
    [op : Ops, at : Stages, doc : Docs, link : Links \cup {NoLink}, yes : BOOLEAN,
     user : Users, score : Nat, time : Nat, fresh : BOOLEAN]
Topics == {"results", "best"}

TypeOK ==
    /\ kind \in {"test", "builder"}
    /\ doc \in [Docs -> Doc] /\ link \in [Links -> Link] /\ result \in [Results -> Result]
    /\ best \in [Users -> Best]
    /\ req \in [Requests -> Request]
    /\ raced \subseteq Topics

ADoc == CHOOSE d \in Docs : TRUE
Idle ==
    [op |-> "idle", at |-> "load", doc |-> ADoc, link |-> NoLink, yes |-> FALSE,
     user |-> CHOOSE u \in Users : TRUE, score |-> 0, time |-> 0, fresh |-> FALSE]

Init ==
    /\ kind \in {"test", "builder"}
    /\ doc = [d \in Docs |-> [state |-> "new", edition |-> 1, isPublic |-> TRUE]]
    /\ link = [l \in Links |-> [state |-> "new", doc |-> ADoc, persist |-> TRUE]]
    /\ result = [a \in Results |-> [state |-> "new", doc |-> ADoc, link |-> NoLink]]
    /\ best = [u \in Users |-> [there |-> FALSE, score |-> 0, time |-> 0]]
    /\ req = [r \in Requests |-> Idle]
    /\ raced = {}

-----------------------------------------------------------------------------
(* A definition whose name ends in _Bug is the definition of that name with a   *)
(* plausible mistake seeded in it; the checks confirm that a property notices.  *)

Busy(ops) == \E r \in Requests : req[r].op \in ops
Clash(request) ==
    {t \in Topics :
        \/ /\ t = "results"
           /\ \/ request.op \in {"delete", "unlink"} /\ Busy({"link", "submit"})
              \/ request.op \in {"link", "submit"} /\ Busy({"delete", "unlink"})
        \/ /\ t = "best" /\ request.op = "play"
           /\ \E r \in Requests : req[r].op = "play" /\ req[r].user = request.user}

Begin(op, at, d) == [Idle EXCEPT !.op = op, !.at = at, !.doc = d, !.fresh = TRUE]
Accept(r, request) ==
    /\ req[r].op = "idle"
    /\ req' = [req EXCEPT ![r] = request]
    /\ raced' = raced \cup Clash(request)
At(r, op, at) == req[r].op = op /\ req[r].at = at
Goto(r, at) == req' = [req EXCEPT ![r].at = at]
Done(r) == req' = [req EXCEPT ![r] = Idle]

There(d) == doc[d].state = "there"
LinksOf(d) == {l \in Links : link[l].state = "there" /\ link[l].doc = d}

\* An error in the middle of a request, or the end of the process.
Cut(r) ==
    /\ req[r].op # "idle"
    /\ raced' = IF req[r].at = "results" THEN raced \cup {"results"} ELSE raced
    /\ Done(r)
    /\ UNCHANGED <<kind, doc, link, result, best>>

-----------------------------------------------------------------------------
(* createTest, updateTest, deleteTest and the same of sentence builders *)

Create(r, d, isPublic) ==
    /\ doc[d].state = "new" /\ \A q \in Requests : ~(req[q].op = "create" /\ req[q].doc = d)
    /\ Cardinality({e \in Docs : There(e)}) < MaxDocs
    /\ Accept(r, [Begin("create", "save", d) EXCEPT !.yes = isPublic])
    /\ UNCHANGED <<kind, doc, link, result, best>>

CreateSave(r) ==
    /\ At(r, "create", "save")
    /\ doc' = [doc EXCEPT ![req[r].doc].state = "there", ![req[r].doc].isPublic = req[r].yes]
    /\ Done(r)
    /\ UNCHANGED <<kind, link, result, best, raced>>

Update(r, d, isPublic) ==
    /\ There(d) /\ doc[d].edition < MaxEdition
    /\ Accept(r, [Begin("update", "save", d) EXCEPT !.yes = isPublic])
    /\ UNCHANGED <<kind, doc, link, result, best>>

\* The whole array of questions is replaced, at the version that was loaded only.
UpdateSave(r) ==
    /\ At(r, "update", "save")
    /\ LET d == req[r].doc
       IN IF There(d) /\ req[r].fresh
          THEN /\ doc' = [doc EXCEPT ![d].edition = @ + 1, ![d].isPublic = req[r].yes]
               /\ req' = [q \in Requests |->
                            IF q = r THEN Idle
                            ELSE [req[q] EXCEPT !.fresh = @ /\ req[q].doc # d]]
          ELSE Done(r) /\ UNCHANGED doc
    /\ UNCHANGED <<kind, link, result, best, raced>>

Delete(r, d) ==
    /\ There(d)
    /\ Accept(r, Begin("delete", "links", d))
    /\ UNCHANGED <<kind, doc, link, result, best>>

DeleteLinks_Bug(r) ==                                     \* the links stay
    /\ At(r, "delete", "links")
    /\ Goto(r, "results")
    /\ UNCHANGED <<kind, doc, link, result, best, raced>>
DeleteLinks(r) ==
    /\ At(r, "delete", "links")
    /\ link' = [l \in Links |-> IF l \in LinksOf(req[r].doc) THEN [link[l] EXCEPT !.state = "gone"] ELSE link[l]]
    /\ Goto(r, "results")
    /\ UNCHANGED <<kind, doc, result, best, raced>>

Removed(gone) ==
    [a \in Results |-> IF result[a].state = "there" /\ a \in gone THEN [result[a] EXCEPT !.state = "gone"]
                       ELSE result[a]]

DeleteResults(r) ==
    /\ At(r, "delete", "results")
    /\ result' = Removed({a \in Results : result[a].doc = req[r].doc})
    /\ Goto(r, "drop")
    /\ UNCHANGED <<kind, doc, link, best, raced>>

DeleteDocument(r) ==
    /\ At(r, "delete", "drop")
    /\ doc' = [doc EXCEPT ![req[r].doc].state = "gone"]
    /\ Done(r)
    /\ UNCHANGED <<kind, link, result, best, raced>>

-----------------------------------------------------------------------------
(* createTestShareLink, deleteTestShareLink and the same of sentence builders *)

MakeLink(r, d, persist) ==
    /\ There(d)
    /\ Accept(r, [Begin("link", "count", d) EXCEPT !.yes = persist])
    /\ UNCHANGED <<kind, doc, link, result, best>>

LinksFull(d) == Cardinality(LinksOf(d)) >= MaxLinks
MakeLinkCount(r) ==
    /\ At(r, "link", "count")
    /\ IF LinksFull(req[r].doc) THEN Done(r) ELSE Goto(r, "save")
    /\ UNCHANGED <<kind, doc, link, result, best, raced>>

MakeLinkSave(r, l) ==
    /\ At(r, "link", "save") /\ link[l].state = "new"
    /\ link' = [link EXCEPT ![l] = [state |-> "there", doc |-> req[r].doc, persist |-> req[r].yes]]
    /\ Done(r)
    /\ UNCHANGED <<kind, doc, result, best, raced>>

DropLink(r, d, l) ==
    /\ There(d)
    /\ Accept(r, [Begin("unlink", "save", d) EXCEPT !.link = l])
    /\ UNCHANGED <<kind, doc, link, result, best>>

\* Only a sentence builder knows which link a result came through.
DropLinkSave(r) ==
    /\ At(r, "unlink", "save")
    /\ LET l == req[r].link
       IN IF l \in LinksOf(req[r].doc)
          THEN /\ link' = [link EXCEPT ![l].state = "gone"]
               /\ IF kind = "builder" THEN Goto(r, "results") ELSE Done(r)
          ELSE Done(r) /\ UNCHANGED link
    /\ UNCHANGED <<kind, doc, result, best, raced>>

DropLinkResults(r) ==
    /\ At(r, "unlink", "results")
    /\ result' = Removed({a \in Results : result[a].link = req[r].link})
    /\ Done(r)
    /\ UNCHANGED <<kind, doc, link, best, raced>>

-----------------------------------------------------------------------------
(* submitSentenceBuilderAttempt; saveSoloBattle with submitAnswers *)

Resolved(l) == l # NoLink => link[l].state = "there"

\* A private sentence builder is for its author only (own).
Attempt(r, d, l, own) ==
    /\ kind = "builder" /\ There(d) /\ l # NoLink
    /\ doc[d].isPublic \/ own
    /\ Accept(r, [Begin("submit", "link", d) EXCEPT !.link = l])
    /\ UNCHANGED <<kind, doc, link, result, best>>

AttemptLink(r) ==
    /\ At(r, "submit", "link") /\ kind = "builder"
    /\ LET l == req[r].link
       IN IF l \in LinksOf(req[r].doc) /\ link[l].persist THEN Goto(r, "save") ELSE Done(r)
    /\ UNCHANGED <<kind, doc, link, result, best, raced>>

\* The link is not asked whether it is one to this test.
SoloBattle(r, d, l) ==
    /\ kind = "test" /\ doc[d].state # "new"
    /\ Resolved(l) /\ (l # NoLink => link[l].persist)
    /\ Accept(r, [Begin("submit", "load", d) EXCEPT !.link = l])
    /\ UNCHANGED <<kind, doc, link, result, best>>

SoloBattleLoad(r) ==
    /\ At(r, "submit", "load")
    /\ IF There(req[r].doc) THEN Goto(r, "link") ELSE Done(r)
    /\ UNCHANGED <<kind, doc, link, result, best, raced>>

SoloBattleLink(r) ==
    /\ At(r, "submit", "link") /\ kind = "test"
    /\ IF Resolved(req[r].link) THEN Goto(r, "save") ELSE Done(r)
    /\ UNCHANGED <<kind, doc, link, result, best, raced>>

SubmitSave(r, a) ==
    /\ At(r, "submit", "save") /\ result[a].state = "new"
    /\ result' = [result EXCEPT ![a] = [state |-> "there", doc |-> req[r].doc,
                                       link |-> IF kind = "builder" THEN req[r].link ELSE NoLink]]
    /\ Done(r)
    /\ UNCHANGED <<kind, doc, link, best, raced>>

-----------------------------------------------------------------------------
(* saveMnemonicBestResult *)

\* The order in which the leader board ranks and in which results replace others.
Above(b, c) == b.score > c.score \/ (b.score = c.score /\ b.time < c.time)
Rank(u) == Cardinality({v \in Users : best[v].there /\ Above(best[v], best[u])}) + 1

Replaces_Bug(b, c) == ~c.there \/ b.score >= c.score      \* the time does not count
Replaces(b, c) == ~c.there \/ Above(b, c)

Play(r, u, score, time) ==
    /\ Replaces([there |-> TRUE, score |-> score, time |-> time], best[u])
    /\ Accept(r, [Begin("play", "save", ADoc) EXCEPT !.user = u, !.score = score, !.time = time])
    /\ UNCHANGED <<kind, doc, link, result, best>>

PlaySave(r) ==
    /\ At(r, "play", "save")
    /\ best' = [best EXCEPT ![req[r].user] = [there |-> TRUE, score |-> req[r].score, time |-> req[r].time]]
    /\ Done(r)
    /\ UNCHANGED <<kind, doc, link, result, raced>>

-----------------------------------------------------------------------------
Next ==
    \/ \E r \in Requests, d \in Docs, yes \in BOOLEAN :
         Create(r, d, yes) \/ Update(r, d, yes) \/ MakeLink(r, d, yes)
    \/ \E r \in Requests, d \in Docs : Delete(r, d) \/ \E l \in Links : DropLink(r, d, l)
    \/ \E r \in Requests : CreateSave(r) \/ UpdateSave(r)
    \/ \E r \in Requests : DeleteLinks(r) \/ DeleteResults(r) \/ DeleteDocument(r)
    \/ \E r \in Requests : MakeLinkCount(r) \/ \E l \in Links : MakeLinkSave(r, l)
    \/ \E r \in Requests : DropLinkSave(r) \/ DropLinkResults(r)
    \/ \E r \in Requests, d \in Docs, l \in Links \cup {NoLink} :
         SoloBattle(r, d, l) \/ \E own \in BOOLEAN : Attempt(r, d, l, own)
    \/ \E r \in Requests : AttemptLink(r) \/ SoloBattleLoad(r) \/ SoloBattleLink(r)
    \/ \E r \in Requests, a \in Results : SubmitSave(r, a)
    \/ \E r \in Requests, u \in Users, score \in Scores, time \in Times : Play(r, u, score, time)
    \/ \E r \in Requests : PlaySave(r) \/ Cut(r)

Spec == Init /\ [][Next]_vars

-----------------------------------------------------------------------------
(* Properties *)

\* What has been deleted leaves nothing behind, in whichever order links were
\* made, used and withdrawn: no link leads to a deleted document, no result is
\* of one, and no attempt has come through a withdrawn link; unless a link was
\* made or used while the deletion was under way, or the deletion was cut short.
NothingLeft ==
    "results" \notin raced =>
        /\ \A l \in Links : link[l].state = "there" => doc[link[l].doc].state # "gone"
        /\ \A a \in Results : result[a].state = "there" =>
             /\ doc[result[a].doc].state # "gone"
             /\ \A l \in Links :
                  result[a].link = l /\ link[l].state = "gone" => Busy({"delete", "unlink"})

\* Nobody's rank on the leader board falls because of a game of his own, unless
\* he saved two games at the same time, of which the worse one may be stored last.
RankNeverFalls ==
    [][\A u \in Users :
         "best" \notin raced' /\ best[u].there /\ best'[u] # best[u] => Rank(u)' <= Rank(u)]_vars
=============================================================================

--------------------------- MODULE Exercises_proofs ---------------------------
(***************************************************************************)
(* Proofs about Exercises, for any documents, links, results, players and  *)
(* requests under way: its type invariant, what deletions leave behind and *)
(* the ranks of the memory games.  What a step leaves of the requests      *)
(* (Onward) is one relation that each step of a request is shown to obey.  *)
(***************************************************************************)
EXTENDS Exercises, FiniteSetTheorems, TLAPS

-----------------------------------------------------------------------------
(* The inductive invariant *)

Removing(r) == req[r].op \in {"delete", "unlink"}
Adding(r) == req[r].op \in {"link", "submit"}
SubmitsBuilder(r) == kind = "builder" /\ req[r].op = "submit" /\ req[r].at = "save"

\* An update that would still be stored finds an edition to come.
Updatable ==
    \A r \in Requests : req[r].op = "update" /\ req[r].fresh => doc[req[r].doc].edition < MaxEdition

\* An attempt has come, or is about to come, through a link of its own document.
Through(l, d) == l \in Links /\ link[l].state # "new" /\ link[l].doc = d
Anchored ==
    /\ \A a \in Results : result[a].state = "there" =>
         IF kind = "builder" THEN Through(result[a].link, result[a].doc) ELSE result[a].link = NoLink
    /\ \A r \in Requests : SubmitsBuilder(r) => Through(req[r].link, req[r].doc)

\* While nothing has been raced for, nothing is added while something is removed,
Apart == \A r, q \in Requests : ~(Removing(r) /\ Adding(q))

\* what is being added to is there,
Alive ==
    \A r \in Requests :
        /\ req[r].op = "link" \/ (req[r].op = "submit" /\ req[r].at # "load") => There(req[r].doc)
        /\ SubmitsBuilder(r) => link[req[r].link].state = "there"

\* a deletion has left nothing of what it has passed,
Swept ==
    \A r \in Requests : req[r].op = "delete" =>
        /\ req[r].at \in {"links", "results", "drop"}
        /\ req[r].at # "links" => LinksOf(req[r].doc) = {}
        /\ req[r].at = "drop" =>
             \A a \in Results : result[a].state = "there" => result[a].doc # req[r].doc

\* nothing is of a document that is gone,
OfLiving ==
    /\ \A l \in Links : link[l].state = "there" => doc[link[l].doc].state # "gone"
    /\ \A a \in Results : result[a].state = "there" => doc[result[a].doc].state # "gone"

\* and an attempt through a withdrawn link is about to be removed.
ToRemove(a) ==
    \E r \in Requests :
        /\ req[r].at = "results"
        /\ \/ req[r].op = "unlink" /\ req[r].link = result[a].link
           \/ req[r].op = "delete" /\ req[r].doc = result[a].doc
Covered ==
    \A a \in Results :
        result[a].state = "there" /\ result[a].link \in Links /\ link[result[a].link].state = "gone"
          => ToRemove(a)

Calm == Apart /\ Alive /\ Swept /\ OfLiving /\ Covered

ExercisesInv ==
    /\ TypeOK /\ Updatable /\ Anchored
    /\ "results" \notin raced => Calm

-----------------------------------------------------------------------------
(* The steps that change nothing but what is asked *)

LEMMA ExercisesIdle ==
    /\ ADoc \in Docs /\ Idle \in Request
    /\ Idle.op = "idle" /\ Idle.at = "load" /\ Idle.doc = ADoc
<1>1. ADoc \in Docs BY ConstantsAssumption DEF ADoc
<1>2. (CHOOSE u \in Users : TRUE) \in Users BY ConstantsAssumption
<1> QED BY <1>1, <1>2 DEF Idle, Request, Ops, Stages

\* What a request may be that takes the place of r's.
MayBecome(r, v) ==
    /\ v \in Request
    /\ v.op = "update" /\ v.fresh => doc[v.doc].edition < MaxEdition
    /\ kind = "builder" /\ v.op = "submit" /\ v.at = "save" => Through(v.link, v.doc)
    /\ "results" \notin raced' =>
         /\ ~(req[r].op \in {"delete", "unlink"} /\ req[r].at = "results")
         /\ v.op \in {"delete", "unlink"} => ~Busy({"link", "submit"})
         /\ v.op \in {"link", "submit"} => ~Busy({"delete", "unlink"})
         /\ v.op = "link" \/ (v.op = "submit" /\ v.at # "load") => There(v.doc)
         /\ kind = "builder" /\ v.op = "submit" /\ v.at = "save" => link[v.link].state = "there"
         /\ v.op = "delete" => v.at = "links"

LEMMA OneAsks ==
    ASSUME ExercisesInv, NEW r \in Requests, NEW v, MayBecome(r, v),
           req' = [req EXCEPT ![r] = v],
           UNCHANGED <<kind, doc, link, result>>, best' \in [Users -> Best],
           raced \subseteq raced', raced' \subseteq Topics
    PROVE  ExercisesInv'
<1> USE DEF MayBecome
<1>1. req' \in [Requests -> Request] /\ req'[r] = v /\ \A q \in Requests \ {r} : req'[q] = req[q]
  BY DEF ExercisesInv, TypeOK
<1>3. TypeOK' BY <1>1 DEF ExercisesInv, TypeOK
<1>4. Updatable' BY <1>1 DEF ExercisesInv, Updatable
<1>5. Anchored' BY <1>1 DEF ExercisesInv, Anchored, Through, SubmitsBuilder
<1>6. ASSUME "results" \notin raced' PROVE Calm'
  <2>1. "results" \notin raced /\ Calm BY <1>6 DEF ExercisesInv
  <2>2. Apart' BY <1>1, <1>6, <2>1 DEF Calm, Apart, Removing, Adding, Busy
  <2>3. Alive' BY <1>1, <1>6, <2>1 DEF Calm, Alive, SubmitsBuilder, There
  <2>4. Swept' BY <1>1, <1>6, <2>1 DEF Calm, Swept, LinksOf
  <2>5. OfLiving' BY <2>1 DEF Calm, OfLiving
  <2>6. Covered' BY <1>1, <1>6, <2>1 DEF Calm, Covered, ToRemove
  <2> QED BY <2>2, <2>3, <2>4, <2>5, <2>6 DEF Calm
<1> QED BY <1>3, <1>4, <1>5, <1>6 DEF ExercisesInv

\* A request that is accepted.
LEMMA AcceptAsks ==
    ASSUME ExercisesInv, NEW r \in Requests, NEW v \in Request, Accept(r, v),
           UNCHANGED <<kind, doc, link, result, best>>,
           v.op = "update" /\ v.fresh => doc[v.doc].edition < MaxEdition,
           v.op = "submit" => v.at \in {"load", "link"},
           v.op = "link" \/ v.at = "link" => There(v.doc),
           v.op = "delete" => v.at = "links"
    PROVE  ExercisesInv'
<1>1. req' = [req EXCEPT ![r] = v] /\ req[r].op = "idle" BY DEF Accept
<1>2. raced' = raced \cup Clash(v) BY DEF Accept
<1>3. Clash(v) \subseteq Topics BY DEF Clash
<1>4. raced \subseteq raced' /\ raced' \subseteq Topics
  BY <1>2, <1>3 DEF ExercisesInv, TypeOK
<1>5. ASSUME "results" \notin raced'
      PROVE  /\ v.op \in {"delete", "unlink"} => ~Busy({"link", "submit"})
             /\ v.op \in {"link", "submit"} => ~Busy({"delete", "unlink"})
  BY <1>2, <1>5 DEF Clash, Topics
<1>6. MayBecome(r, v)
  BY <1>1, <1>5 DEF MayBecome
<1>7. best' \in [Users -> Best] BY DEF ExercisesInv, TypeOK
<1> QED BY <1>1, <1>4, <1>6, <1>7, OneAsks

LEMMA BeginType ==
    ASSUME NEW op \in Ops, NEW at \in Stages, NEW d \in Docs,
           NEW b, b = Begin(op, at, d)
    PROVE  b \in Request /\ b.op = op /\ b.at = at /\ b.doc = d
BY ExercisesIdle DEF Begin, Request

LEMMA AcceptsKeep ==
    ASSUME ExercisesInv, NEW r \in Requests, NEW d \in Docs, NEW yes \in BOOLEAN,
           \/ Create(r, d, yes) \/ Update(r, d, yes) \/ MakeLink(r, d, yes) \/ Delete(r, d)
           \/ \E l \in Links : DropLink(r, d, l)
           \/ \E l \in Links \cup {NoLink} : SoloBattle(r, d, l) \/ Attempt(r, d, l, yes)
    PROVE  ExercisesInv'
<1>2. CASE Create(r, d, yes)
  <2> DEFINE b == Begin("create", "save", d)
  <2> DEFINE v == [b EXCEPT !.yes = yes]
  <2>1. b \in Request /\ b.op = "create" /\ b.at = "save" /\ b.doc = d
    BY BeginType DEF Ops, Stages
  <2>2. v \in Request /\ v.op = "create" /\ v.at = "save" /\ v.doc = d
    <3> HIDE DEF b
    <3> QED BY <2>1 DEF Request
  <2>3. Accept(r, v) /\ UNCHANGED <<kind, doc, link, result, best>> BY <1>2 DEF Create
  <2> HIDE DEF v
  <2> QED BY <2>2, <2>3, AcceptAsks
<1>3. CASE Update(r, d, yes)
  <2> DEFINE b == Begin("update", "save", d)
  <2> DEFINE v == [b EXCEPT !.yes = yes]
  <2>1. b \in Request /\ b.op = "update" /\ b.at = "save" /\ b.doc = d
    BY BeginType DEF Ops, Stages
  <2>2. v \in Request /\ v.op = "update" /\ v.at = "save" /\ v.doc = d
    <3> HIDE DEF b
    <3> QED BY <2>1 DEF Request
  <2>3. Accept(r, v) /\ UNCHANGED <<kind, doc, link, result, best>> /\ doc[d].edition < MaxEdition
    BY <1>3 DEF Update
  <2> HIDE DEF v
  <2> QED BY <2>2, <2>3, AcceptAsks
<1>4. CASE MakeLink(r, d, yes)
  <2> DEFINE b == Begin("link", "count", d)
  <2> DEFINE v == [b EXCEPT !.yes = yes]
  <2>1. b \in Request /\ b.op = "link" /\ b.at = "count" /\ b.doc = d
    BY BeginType DEF Ops, Stages
  <2>2. v \in Request /\ v.op = "link" /\ v.at = "count" /\ v.doc = d
    <3> HIDE DEF b
    <3> QED BY <2>1 DEF Request
  <2>3. Accept(r, v) /\ UNCHANGED <<kind, doc, link, result, best>> /\ There(d)
    BY <1>4 DEF MakeLink
  <2> HIDE DEF v
  <2> QED BY <2>2, <2>3, AcceptAsks
<1>5. CASE Delete(r, d)
  <2> DEFINE v == Begin("delete", "links", d)
  <2>1. v \in Request /\ v.op = "delete" /\ v.at = "links" /\ v.doc = d
    BY BeginType DEF Ops, Stages
  <2>2. Accept(r, v) /\ UNCHANGED <<kind, doc, link, result, best>> BY <1>5 DEF Delete
  <2> HIDE DEF v
  <2> QED BY <2>1, <2>2, AcceptAsks
<1>6. ASSUME NEW l \in Links, DropLink(r, d, l) PROVE ExercisesInv'
  <2> DEFINE b == Begin("unlink", "save", d)
  <2> DEFINE v == [b EXCEPT !.link = l]
  <2>1. b \in Request /\ b.op = "unlink" /\ b.at = "save" /\ b.doc = d
    BY BeginType DEF Ops, Stages
  <2>2. v \in Request /\ v.op = "unlink" /\ v.at = "save" /\ v.doc = d
    <3> HIDE DEF b
    <3> QED BY <2>1 DEF Request
  <2>3. Accept(r, v) /\ UNCHANGED <<kind, doc, link, result, best>> BY <1>6 DEF DropLink
  <2> HIDE DEF v
  <2> QED BY <2>2, <2>3, AcceptAsks
<1>7. ASSUME NEW l \in Links \cup {NoLink}, SoloBattle(r, d, l) PROVE ExercisesInv'
  <2> DEFINE b == Begin("submit", "load", d)
  <2> DEFINE v == [b EXCEPT !.link = l]
  <2>1. b \in Request /\ b.op = "submit" /\ b.at = "load" /\ b.doc = d
    BY BeginType DEF Ops, Stages
  <2>2. v \in Request /\ v.op = "submit" /\ v.at = "load" /\ v.doc = d
    <3> HIDE DEF b
    <3> QED BY <2>1 DEF Request
  <2>3. Accept(r, v) /\ UNCHANGED <<kind, doc, link, result, best>> BY <1>7 DEF SoloBattle
  <2> HIDE DEF v
  <2> QED BY <2>2, <2>3, AcceptAsks
<1>8. ASSUME NEW l \in Links \cup {NoLink}, Attempt(r, d, l, yes) PROVE ExercisesInv'
  <2> DEFINE b == Begin("submit", "link", d)
  <2> DEFINE v == [b EXCEPT !.link = l]
  <2>1. b \in Request /\ b.op = "submit" /\ b.at = "link" /\ b.doc = d
    BY BeginType DEF Ops, Stages
  <2>2. v \in Request /\ v.op = "submit" /\ v.at = "link" /\ v.doc = d
    <3> HIDE DEF b
    <3> QED BY <2>1 DEF Request
  <2>3. Accept(r, v) /\ UNCHANGED <<kind, doc, link, result, best>> /\ There(d)
    BY <1>8 DEF Attempt
  <2> HIDE DEF v
  <2> QED BY <2>2, <2>3, AcceptAsks
<1> QED BY <1>2, <1>3, <1>4, <1>5, <1>6, <1>7, <1>8

LEMMA PlayKeeps ==
    ASSUME ExercisesInv, NEW r \in Requests, NEW u \in Users, NEW score \in Scores,
           NEW time \in Times, Play(r, u, score, time)
    PROVE  ExercisesInv'
<1> DEFINE v == [Begin("play", "save", ADoc) EXCEPT !.user = u, !.score = score, !.time = time]
<1>2. score \in Nat /\ time \in Nat BY ConstantsAssumption
<1> DEFINE b == Begin("play", "save", ADoc)
<1>3. b \in Request /\ b.op = "play" /\ b.at = "save"
  BY ExercisesIdle, BeginType DEF Ops, Stages
<1>4. v \in Request /\ v.op = "play" /\ v.at = "save"
  <2> HIDE DEF b
  <2>1. v = [b EXCEPT !.user = u, !.score = score, !.time = time] BY DEF b
  <2> QED BY <1>2, <1>3, <2>1 DEF Request
<1>5. Accept(r, v) /\ UNCHANGED <<kind, doc, link, result, best>> BY DEF Play
<1> HIDE DEF v
<1> QED BY <1>4, <1>5, AcceptAsks

\* A request that ends, with nothing changed or a game stored.
LEMMA EndKeeps ==
    ASSUME ExercisesInv, NEW r \in Requests, Done(r),
           UNCHANGED <<kind, doc, link, result>>, best' \in [Users -> Best],
           raced \subseteq raced', raced' \subseteq Topics,
           req[r].at = "results" => "results" \in raced'
    PROVE  ExercisesInv'
<1>2. MayBecome(r, Idle) BY ExercisesIdle DEF MayBecome
<1>3. req' = [req EXCEPT ![r] = Idle] BY DEF Done
<1> QED BY <1>2, <1>3, OneAsks

LEMMA EndsKeep ==
    ASSUME ExercisesInv, NEW r \in Requests, Cut(r) \/ PlaySave(r)
    PROVE  ExercisesInv'
<1>1. raced \subseteq Topics /\ best \in [Users -> Best] /\ req[r] \in Request
  BY DEF ExercisesInv, TypeOK
<1>2. CASE Cut(r)
  <2>1. raced \subseteq raced' /\ raced' \subseteq Topics BY <1>1, <1>2 DEF Cut, Topics
  <2>2. req[r].at = "results" => "results" \in raced' BY <1>2 DEF Cut
  <2>3. UNCHANGED <<kind, doc, link, result, best>> /\ Done(r) BY <1>2 DEF Cut
  <2> QED BY <1>1, <2>1, <2>2, <2>3, EndKeeps
<1>3. CASE PlaySave(r)
  <2>1. best' \in [Users -> Best] BY <1>1, <1>3 DEF PlaySave, Best, Request
  <2>2. req[r].at # "results" /\ UNCHANGED <<kind, doc, link, result, raced>> /\ Done(r)
    BY <1>3 DEF PlaySave, At
  <2> QED BY <1>1, <2>1, <2>2, EndKeeps
<1> QED BY <1>2, <1>3

\* A request that goes on to a further stage, or ends.
LEMMA GotoKeeps ==
    ASSUME ExercisesInv, NEW r \in Requests, NEW at \in {"link", "save"}, Goto(r, at),
           UNCHANGED <<kind, doc, link, result, best, raced>>,
           \/ req[r].op = "link" /\ req[r].at = "count"
           \/ req[r].op = "submit" /\ at = "link" /\ There(req[r].doc)
           \/ /\ req[r].op = "submit" /\ req[r].at = "link" /\ at = "save"
              /\ kind = "builder" => req[r].link \in LinksOf(req[r].doc)
    PROVE  ExercisesInv'
<1> DEFINE v == [req[r] EXCEPT !.at = at]
<1>1. req \in [Requests -> Request] /\ raced \subseteq Topics /\ best \in [Users -> Best]
  BY DEF ExercisesInv, TypeOK
<1>2. v \in Request /\ v.op = req[r].op /\ v.at = at /\ v.doc = req[r].doc /\ v.link = req[r].link
  BY <1>1 DEF Request, Stages
<1>3. req' = [req EXCEPT ![r] = v] BY <1>1 DEF Goto
<1>4. kind = "builder" /\ v.op = "submit" /\ v.at = "save"
        => Through(v.link, v.doc) /\ link[v.link].state = "there"
  BY <1>2 DEF LinksOf, Through
<1>5. ASSUME "results" \notin raced'
      PROVE  /\ ~Busy({"delete", "unlink"})
             /\ v.op = "link" \/ (v.op = "submit" /\ v.at # "load") => There(v.doc)
  <2>1. Apart /\ Alive BY <1>5 DEF ExercisesInv, Calm
  <2>2. Adding(r) BY DEF Adding
  <2> QED BY <1>2, <2>1, <2>2 DEF Apart, Alive, Busy, Removing
<1>6. v.op \in {"link", "submit"} BY <1>2
<1>7. MayBecome(r, v)
  <2> HIDE DEF v
  <2> QED BY <1>2, <1>4, <1>5, <1>6 DEF MayBecome
<1> HIDE DEF v
<1> QED BY <1>1, <1>3, <1>7, OneAsks

LEMMA ChecksKeep ==
    ASSUME ExercisesInv, NEW r \in Requests,
           MakeLinkCount(r) \/ AttemptLink(r) \/ SoloBattleLoad(r) \/ SoloBattleLink(r)
    PROVE  ExercisesInv'
<1>1. UNCHANGED <<kind, doc, link, result, best, raced>>
  BY DEF MakeLinkCount, AttemptLink, SoloBattleLoad, SoloBattleLink
<1>2. raced \subseteq Topics /\ best \in [Users -> Best] BY DEF ExercisesInv, TypeOK
<1>3. CASE Done(r)
  <2>1. req[r].at # "results"
    BY DEF MakeLinkCount, AttemptLink, SoloBattleLoad, SoloBattleLink, At
  <2> QED BY <1>1, <1>2, <1>3, <2>1, EndKeeps
<1>4. CASE MakeLinkCount(r) /\ ~Done(r)
  BY <1>1, <1>4, GotoKeeps DEF MakeLinkCount, At
<1>5. CASE AttemptLink(r) /\ ~Done(r)
  BY <1>1, <1>5, GotoKeeps DEF AttemptLink, At
<1>6. CASE SoloBattleLoad(r) /\ ~Done(r)
  BY <1>1, <1>6, GotoKeeps DEF SoloBattleLoad, At
<1>7. CASE SoloBattleLink(r) /\ ~Done(r)
  BY <1>1, <1>7, GotoKeeps DEF SoloBattleLink, At
<1> QED BY <1>3, <1>4, <1>5, <1>6, <1>7

-----------------------------------------------------------------------------
(* The steps that store, one for each collection *)

\* What the collections are, and the requests after a step of r.
LEMMA ExercisesFacts ==
    ASSUME ExercisesInv
    PROVE  /\ kind \in {"test", "builder"}
           /\ doc \in [Docs -> Doc] /\ link \in [Links -> Link]
           /\ result \in [Results -> Result] /\ best \in [Users -> Best]
           /\ req \in [Requests -> Request] /\ raced \subseteq Topics
           /\ \A r \in Requests : req[r].doc \in Docs /\ req[r].link \in Links \cup {NoLink}
BY DEF ExercisesInv, TypeOK, Request

\* What a step of r leaves of the requests: only r's changes, and it goes on as what
\* it was or ends.
Onward(r) ==
    /\ req' \in [Requests -> Request]
    /\ \A q \in Requests \ {r} : req'[q] = req[q]
    /\ \/ req'[r].op = "idle"
       \/ /\ req'[r].op = req[r].op /\ req'[r].doc = req[r].doc /\ req'[r].link = req[r].link
          /\ req'[r].fresh = req[r].fresh

LEMMA OnwardStep ==
    ASSUME ExercisesInv, NEW r \in Requests
    PROVE  /\ Done(r) => Onward(r) /\ req'[r].op = "idle"
           /\ \A at \in Stages : Goto(r, at) => Onward(r) /\ req'[r].op = req[r].op /\ req'[r].at = at
<1>1. req \in [Requests -> Request] BY ExercisesFacts
<1>2. ASSUME Done(r) PROVE Onward(r) /\ req'[r].op = "idle"
  <2>1. req' = [req EXCEPT ![r] = Idle] BY <1>2 DEF Done
  <2>2. Idle \in Request /\ Idle.op = "idle" BY <1>1, ExercisesIdle
  <2>3. req' \in [Requests -> Request] /\ req'[r].op = "idle" /\ \A q \in Requests \ {r} : req'[q] = req[q]
    BY <1>1, <2>1, <2>2
  <2>4. Onward(r) BY <2>3 DEF Onward
  <2> QED BY <2>3, <2>4
<1>3. ASSUME NEW at \in Stages, Goto(r, at)
      PROVE  Onward(r) /\ req'[r].op = req[r].op /\ req'[r].at = at
  <2> DEFINE v == [req[r] EXCEPT !.at = at]
  <2>1. v \in Request /\ v.op = req[r].op /\ v.at = at /\ v.doc = req[r].doc /\ v.link = req[r].link
        /\ v.fresh = req[r].fresh
    BY <1>1 DEF Request
  <2>2. req' = [req EXCEPT ![r] = v] BY <1>1, <1>3 DEF Goto
  <2> HIDE DEF v
  <2>3. req' \in [Requests -> Request] /\ req'[r] = v /\ \A q \in Requests \ {r} : req'[q] = req[q]
    BY <1>1, <2>1, <2>2
  <2> QED BY <2>1, <2>3 DEF Onward
<1> QED BY <1>2, <1>3

LEMMA UpdatableKept ==
    ASSUME ExercisesInv, NEW r \in Requests, Onward(r), doc' = doc
    PROVE  Updatable'
BY DEF ExercisesInv, Updatable, Onward

LEMMA ApartKept ==
    ASSUME Apart, NEW r \in Requests, Onward(r)
    PROVE  Apart'
BY DEF Apart, Removing, Adding, Onward

\* Documents
LEMMA CreateSaveKeeps ==
    ASSUME ExercisesInv, NEW r \in Requests, CreateSave(r)
    PROVE  ExercisesInv'
<1> DEFINE d == req[r].doc
<1>1. Onward(r) /\ req'[r].op = "idle" /\ req[r].op = "create" BY OnwardStep DEF CreateSave, At
<1>2. UNCHANGED <<kind, link, result, best, raced>> BY DEF CreateSave
<1>3. d \in Docs /\ doc \in [Docs -> Doc] /\ req[r].yes \in BOOLEAN
  BY DEF ExercisesInv, TypeOK, Request
<1>4. /\ doc' \in [Docs -> Doc] /\ doc'[d].state = "there"
      /\ \A e \in Docs : doc'[e].edition = doc[e].edition /\ (e # d => doc'[e] = doc[e])
  <2>1. doc' = [doc EXCEPT ![d] = [doc[d] EXCEPT !.state = "there", !.isPublic = req[r].yes]]
    BY <1>3 DEF CreateSave
  <2>2. [doc[d] EXCEPT !.state = "there", !.isPublic = req[r].yes] \in Doc
    BY <1>3 DEF Doc, States
  <2> QED BY <1>3, <2>1, <2>2 DEF Doc
<1> HIDE DEF d
<1>5. TypeOK' BY <1>1, <1>2, <1>4 DEF ExercisesInv, TypeOK, Onward
<1>6. Updatable' BY <1>1, <1>4, ExercisesFacts DEF ExercisesInv, Updatable, Onward
<1>7. Anchored' BY <1>1, <1>2 DEF ExercisesInv, Anchored, Through, SubmitsBuilder, Onward
<1>8. ASSUME "results" \notin raced' PROVE Calm'
  <2>1. Calm BY <1>2, <1>8 DEF ExercisesInv
  <2>2. Apart' BY <1>1, <2>1, ApartKept DEF Calm
  <2>3. Alive' BY <1>1, <1>2, <1>4, <2>1, ExercisesFacts DEF Calm, Alive, SubmitsBuilder, There, Onward
  <2>4. Swept' BY <1>1, <1>2, <2>1 DEF Calm, Swept, LinksOf, Onward
  <2>5. OfLiving'
    <3>1. \A e \in Docs : doc[e].state # "gone" => doc'[e].state # "gone" BY <1>4
    <3>2. \A l \in Links : link[l].doc \in Docs BY ExercisesFacts DEF Link
    <3>3. \A a \in Results : result[a].doc \in Docs BY ExercisesFacts DEF Result
    <3> QED BY <1>2, <2>1, <3>1, <3>2, <3>3 DEF Calm, OfLiving
  <2>6. Covered' BY <1>1, <1>2, <2>1 DEF Calm, Covered, ToRemove, Onward
  <2> QED BY <2>2, <2>3, <2>4, <2>5, <2>6 DEF Calm
<1> QED BY <1>5, <1>6, <1>7, <1>8 DEF ExercisesInv

\* What an update stores makes the other requests for the document stale.
LEMMA UpdateSaveKeeps ==
    ASSUME ExercisesInv, NEW r \in Requests, UpdateSave(r)
    PROVE  ExercisesInv'
<1> DEFINE d == req[r].doc
<1> DEFINE stale(q) == [req[q] EXCEPT !.fresh = @ /\ req[q].doc # d]
<1>1. UNCHANGED <<kind, link, result, best, raced>> /\ req[r].op = "update"
  BY DEF UpdateSave, At
<1>2. d \in Docs /\ doc \in [Docs -> Doc] /\ req[r].yes \in BOOLEAN /\ req \in [Requests -> Request]
  BY DEF ExercisesInv, TypeOK, Request
<1>3. CASE Done(r) /\ UNCHANGED doc
  <2>1. raced \subseteq Topics /\ best \in [Users -> Best] BY ExercisesFacts
  <2>2. req[r].at # "results" BY DEF UpdateSave, At
  <2> QED BY <1>1, <1>3, <2>1, <2>2, EndKeeps
<1>4. CASE There(d) /\ req[r].fresh
  <2>1. doc[d].edition < MaxEdition /\ doc[d].edition \in 1 .. MaxEdition /\ MaxEdition \in Nat
    BY <1>1, <1>2, <1>4, ConstantsAssumption DEF ExercisesInv, Updatable, Doc
  <2> DEFINE D == [doc[d] EXCEPT !.edition = @ + 1, !.isPublic = req[r].yes]
  <2>2. D \in Doc /\ D.state = "there"
    <3>1. doc[d] \in Doc /\ doc[d].state = "there" BY <1>2, <1>4 DEF There
    <3>2. doc[d].edition + 1 \in 1 .. MaxEdition BY <2>1
    <3> QED BY <1>2, <3>1, <3>2 DEF Doc
  <2>3. doc' = [doc EXCEPT ![d] = D] BY <1>2, <1>4 DEF UpdateSave
  <2> HIDE DEF D
  <2>4. /\ doc' \in [Docs -> Doc]
        /\ \A e \in Docs : doc'[e].state = doc[e].state /\ (e # d => doc'[e] = doc[e])
    BY <1>2, <1>4, <2>2, <2>3 DEF There
  <2>5. \A q \in Requests : /\ stale(q) \in Request /\ stale(q).op = req[q].op /\ stale(q).at = req[q].at
                            /\ stale(q).doc = req[q].doc /\ stale(q).link = req[q].link
                            /\ stale(q).fresh => req[q].fresh /\ req[q].doc # d
    <3> TAKE q \in Requests
    <3>1. req[q] \in Request BY <1>2
    <3> QED BY <3>1 DEF Request
  <2>6. req' = [q \in Requests |-> IF q = r THEN Idle ELSE stale(q)] BY <1>4 DEF UpdateSave
  <2>7. Idle \in Request /\ Idle.op = "idle" BY <1>2, ExercisesIdle
  <2> HIDE DEF stale
  <2>8. /\ req' \in [Requests -> Request] /\ req'[r].op = "idle"
        /\ \A q \in Requests \ {r} :
             /\ req'[q].op = req[q].op /\ req'[q].at = req[q].at /\ req'[q].doc = req[q].doc
             /\ req'[q].link = req[q].link
             /\ req'[q].fresh => req[q].fresh /\ req[q].doc # d
    BY <2>5, <2>6, <2>7
  <2> HIDE DEF d
  <2>9. TypeOK' BY <1>1, <2>4, <2>8 DEF ExercisesInv, TypeOK
  <2>10. Updatable' BY <2>4, <2>8, ExercisesFacts DEF ExercisesInv, Updatable
  <2>11. Anchored' BY <1>1, <2>8 DEF ExercisesInv, Anchored, Through, SubmitsBuilder
  <2>12. ASSUME "results" \notin raced' PROVE Calm'
    <3>1. Calm BY <1>1, <2>12 DEF ExercisesInv
    <3>2. Apart' BY <2>8, <3>1 DEF Calm, Apart, Removing, Adding
    <3>3. Alive' BY <1>1, <2>4, <2>8, <3>1, ExercisesFacts DEF Calm, Alive, SubmitsBuilder, There
    <3>4. Swept' BY <1>1, <2>8, <3>1 DEF Calm, Swept, LinksOf
    <3>5. OfLiving'
      <4>1. \A l \in Links : link[l].doc \in Docs BY ExercisesFacts DEF Link
      <4>2. \A a \in Results : result[a].doc \in Docs BY ExercisesFacts DEF Result
      <4> QED BY <1>1, <2>4, <3>1, <4>1, <4>2 DEF Calm, OfLiving
    <3>6. Covered'
      <4>1. \A a \in Results : ToRemove(a) => ToRemove(a)' BY <1>1, <2>8 DEF ToRemove
      <4> QED BY <1>1, <3>1, <4>1 DEF Calm, Covered
    <3> QED BY <3>2, <3>3, <3>4, <3>5, <3>6 DEF Calm
  <2> QED BY <2>9, <2>10, <2>11, <2>12 DEF ExercisesInv
<1> QED BY <1>3, <1>4 DEF UpdateSave

\* Nothing that is kept is of a document that a finished deletion removes.
LEMMA DeleteDocumentKeeps ==
    ASSUME ExercisesInv, NEW r \in Requests, DeleteDocument(r)
    PROVE  ExercisesInv'
<1> DEFINE d == req[r].doc
<1>1. /\ Onward(r) /\ req'[r].op = "idle" /\ req[r].op = "delete" /\ req[r].at = "drop"
      /\ UNCHANGED <<kind, link, result, best, raced>>
  BY OnwardStep DEF DeleteDocument, At
<1>2. d \in Docs /\ doc \in [Docs -> Doc] BY ExercisesFacts
<1>3. /\ doc' \in [Docs -> Doc]
      /\ \A e \in Docs : doc'[e].edition = doc[e].edition /\ (e # d => doc'[e] = doc[e])
  <2>1. doc' = [doc EXCEPT ![d] = [doc[d] EXCEPT !.state = "gone"]] BY <1>2 DEF DeleteDocument
  <2>2. [doc[d] EXCEPT !.state = "gone"] \in Doc BY <1>2 DEF Doc, States
  <2> QED BY <1>2, <2>1, <2>2 DEF Doc
<1>4. TypeOK' BY <1>1, <1>3 DEF ExercisesInv, TypeOK, Onward
<1>5. Updatable'
  BY <1>1, <1>3, ExercisesFacts DEF ExercisesInv, Updatable, Onward
<1>6. Anchored' BY <1>1 DEF ExercisesInv, Anchored, Through, SubmitsBuilder, Onward
<1>7. ASSUME "results" \notin raced' PROVE Calm'
  <2>1. Calm BY <1>1, <1>7 DEF ExercisesInv
  <2>2. Apart' BY <1>1, <2>1, ApartKept DEF Calm
  <2>3. \A q \in Requests : ~Adding(q) BY <1>1, <2>1 DEF Calm, Apart, Removing
  <2>4. Alive' BY <1>1, <2>3 DEF Alive, SubmitsBuilder, Adding, Onward
  <2>5. Swept' BY <1>1, <2>1 DEF Calm, Swept, LinksOf, Onward
  <2>6. OfLiving'
    <3>1. \A l \in Links : link[l].state = "there" => link[l].doc \in Docs \ {d}
      BY <1>1, <2>1, ExercisesFacts DEF Calm, Swept, LinksOf, Link
    <3>2. \A a \in Results : result[a].state = "there" => result[a].doc \in Docs \ {d}
      BY <1>1, <2>1, ExercisesFacts DEF Calm, Swept, Result
    <3> HIDE DEF d
    <3> QED BY <1>1, <1>3, <2>1, <3>1, <3>2 DEF Calm, OfLiving
  <2>7. Covered' BY <1>1, <2>1 DEF Calm, Covered, ToRemove, Onward
  <2> QED BY <2>2, <2>4, <2>5, <2>6, <2>7 DEF Calm
<1> QED BY <1>4, <1>5, <1>6, <1>7 DEF ExercisesInv

\* Links that are withdrawn: those of gone leave the rest as it was.
Withdrawn(gone) ==
    /\ link' \in [Links -> Link]
    /\ \A l \in Links : /\ l \in gone => link'[l].state = "gone" /\ link'[l].doc = link[l].doc
                        /\ l \notin gone => link'[l] = link[l]

LEMMA WithdrawnKeeps ==
    ASSUME ExercisesInv, NEW r \in Requests, Onward(r), Removing(r),
           NEW gone \in SUBSET Links, Withdrawn(gone), \A l \in gone : link[l].state = "there",
           UNCHANGED <<kind, doc, result, best, raced>>,
           req'[r].op = "delete" => gone = LinksOf(req[r].doc) /\ req'[r].at = "results",
           req[r].at # "results",
           \A l \in gone : kind = "builder" =>
               /\ req'[r].at = "results"
               /\ \/ req'[r].op = "unlink" /\ req[r].link = l
                  \/ req'[r].op = "delete" /\ req[r].doc = link[l].doc
    PROVE  ExercisesInv'
<1>1. TypeOK' BY DEF ExercisesInv, TypeOK, Onward, Withdrawn
<1>2. Updatable' BY UpdatableKept
<1>3. \A l \in Links, d \in Docs : Through(l, d) => Through(l, d)' BY DEF Through, Withdrawn
<1>4. Anchored'
  <2>1. \A a \in Results : result[a].doc \in Docs BY ExercisesFacts DEF Result
  <2>2. \A l : \A d : Through(l, d) => l \in Links BY DEF Through
  <2>3. \A q \in Requests : SubmitsBuilder(q)' => SubmitsBuilder(q) /\ req'[q] = req[q]
    BY DEF SubmitsBuilder, Onward, Removing
  <2> QED BY <1>3, <2>1, <2>2, <2>3, ExercisesFacts DEF ExercisesInv, Anchored
<1>5. ASSUME "results" \notin raced' PROVE Calm'
  <2>1. Calm BY <1>5 DEF ExercisesInv
  <2>2. Apart' BY <2>1, ApartKept DEF Calm
  <2>3. \A q \in Requests : ~Adding(q) BY <2>1 DEF Calm, Apart
  <2>4. Alive' BY <2>3 DEF Alive, SubmitsBuilder, Adding, Onward, Removing
  <2>5. Swept'
    <3>1. \A l \in Links : link'[l].state = "there" => l \notin gone /\ link'[l] = link[l]
      BY DEF Withdrawn
    <3>2. ASSUME NEW q \in Requests, req'[q].op = "delete", NEW l \in Links,
                 link'[l].state = "there", req'[q].at # "links"
          PROVE  link'[l].doc # req'[q].doc
      <4>1. CASE q # r
        <5>1. req'[q] = req[q] BY <4>1 DEF Onward
        <5>2. l \notin LinksOf(req[q].doc) BY <2>1, <3>2, <5>1 DEF Calm, Swept
        <5> QED BY <3>1, <3>2, <5>1, <5>2 DEF LinksOf
      <4>2. CASE q = r
        <5>1. req'[r].doc = req[r].doc BY <3>2, <4>2 DEF Onward
        <5>2. l \notin LinksOf(req[r].doc) BY <3>1, <3>2, <4>2
        <5> QED BY <3>1, <3>2, <4>2, <5>1, <5>2 DEF LinksOf
      <4> QED BY <4>1, <4>2
    <3>3. ASSUME NEW q \in Requests, req'[q].op = "delete"
          PROVE  /\ req'[q].at \in {"links", "results", "drop"}
                 /\ req'[q].at = "drop" =>
                      \A a \in Results : result'[a].state = "there" => result'[a].doc # req'[q].doc
      <4>1. CASE q # r
        <5>1. req'[q] = req[q] BY <4>1 DEF Onward
        <5> QED BY <2>1, <3>3, <5>1 DEF Calm, Swept
      <4>2. CASE q = r BY <3>3, <4>2
      <4> QED BY <4>1, <4>2
    <3> QED BY <3>2, <3>3 DEF Swept, LinksOf
  <2>6. OfLiving'
    <3>1. \A l \in Links : link'[l].state = "there" => link'[l] = link[l] BY DEF Withdrawn
    <3> QED BY <2>1, <3>1 DEF Calm, OfLiving
  <2>7. Covered'
    <3> SUFFICES ASSUME NEW a \in Results, result[a].state = "there", result[a].link \in Links,
                        link'[result[a].link].state = "gone"
                 PROVE  ToRemove(a)'
      BY DEF Covered
    <3>1. kind = "builder" /\ link[result[a].link].doc = result[a].doc
      <4>1. NoLink \notin Links BY ConstantsAssumption
      <4> QED BY <4>1 DEF ExercisesInv, Anchored, Through
    <3>2. CASE result[a].link \in gone
      <4>1. req'[r].link = req[r].link /\ req'[r].doc = req[r].doc BY <3>1, <3>2 DEF Onward
      <4> QED BY <3>1, <3>2, <4>1 DEF ToRemove
    <3>3. CASE result[a].link \notin gone
      <4>1. ToRemove(a) BY <3>3, <2>1 DEF Calm, Covered, Withdrawn
      <4>2. PICK q \in Requests : /\ req[q].at = "results"
                                  /\ \/ req[q].op = "unlink" /\ req[q].link = result[a].link
                                     \/ req[q].op = "delete" /\ req[q].doc = result[a].doc
        BY <4>1 DEF ToRemove
      <4>3. req'[q] = req[q] BY <4>2 DEF Onward
      <4> QED BY <4>2, <4>3 DEF ToRemove
    <3> QED BY <3>2, <3>3
  <2> QED BY <2>2, <2>4, <2>5, <2>6, <2>7 DEF Calm
<1> QED BY <1>1, <1>2, <1>4, <1>5 DEF ExercisesInv

LEMMA DeleteLinksKeeps ==
    ASSUME ExercisesInv, NEW r \in Requests, DeleteLinks(r)
    PROVE  ExercisesInv'
<1> DEFINE gone == LinksOf(req[r].doc)
<1>1. "results" \in Stages BY DEF Stages
<1>2. /\ Onward(r) /\ req'[r].op = "delete" /\ req'[r].at = "results"
      /\ Removing(r) /\ req[r].at = "links"
  BY <1>1, OnwardStep DEF DeleteLinks, At, Removing
<1>3. link \in [Links -> Link] BY ExercisesFacts
<1>4. gone \in SUBSET Links /\ \A l \in gone : link[l].state = "there" /\ link[l].doc = req[r].doc
  BY DEF LinksOf
<1>5. Withdrawn(gone)
  <2>1. \A l \in Links : /\ [link[l] EXCEPT !.state = "gone"] \in Link
                         /\ [link[l] EXCEPT !.state = "gone"].doc = link[l].doc
                         /\ [link[l] EXCEPT !.state = "gone"].state = "gone"
    BY <1>3 DEF Link, States
  <2>2. link' = [l \in Links |-> IF l \in gone THEN [link[l] EXCEPT !.state = "gone"] ELSE link[l]]
    BY DEF DeleteLinks
  <2> HIDE DEF gone
  <2> QED BY <1>3, <2>1, <2>2 DEF Withdrawn
<1>6. UNCHANGED <<kind, doc, result, best, raced>> BY DEF DeleteLinks
<1>7. \A l \in gone : kind = "builder" =>
               /\ req'[r].at = "results"
               /\ \/ req'[r].op = "unlink" /\ req[r].link = l
                  \/ req'[r].op = "delete" /\ req[r].doc = link[l].doc
  BY <1>2, <1>4
<1> QED BY <1>2, <1>4, <1>5, <1>6, <1>7, WithdrawnKeeps

LEMMA DropLinkSaveKeeps ==
    ASSUME ExercisesInv, NEW r \in Requests, DropLinkSave(r)
    PROVE  ExercisesInv'
<1> DEFINE l == req[r].link
<1> DEFINE gone == {l}
<1>1. /\ UNCHANGED <<kind, doc, result, best, raced>> /\ kind \in {"test", "builder"}
      /\ req[r].op = "unlink" /\ req[r].at = "save"
  BY ExercisesFacts DEF DropLinkSave, At
<1>2. CASE Done(r) /\ UNCHANGED link
  <2>1. raced \subseteq Topics /\ best \in [Users -> Best] BY ExercisesFacts
  <2> QED BY <1>1, <1>2, <2>1, EndKeeps
<1>3. CASE l \in LinksOf(req[r].doc)
  <2>1. l \in Links /\ link[l].state = "there" /\ link \in [Links -> Link]
    BY <1>3, ExercisesFacts DEF LinksOf
  <2>2. link' = [link EXCEPT ![l] = [link[l] EXCEPT !.state = "gone"]]
    BY <1>3, <2>1 DEF DropLinkSave
  <2>3. Withdrawn(gone)
    <3>1. [link[l] EXCEPT !.state = "gone"] \in Link BY <2>1 DEF Link, States
    <3>2. [link[l] EXCEPT !.state = "gone"].state = "gone" /\ [link[l] EXCEPT !.state = "gone"].doc = link[l].doc
      BY <2>1 DEF Link
    <3> HIDE DEF l
    <3> QED BY <2>1, <2>2, <3>1, <3>2 DEF Withdrawn
  <2>4. IF kind = "builder" THEN Goto(r, "results") ELSE Done(r) BY <1>3 DEF DropLinkSave
  <2>5. "results" \in Stages BY DEF Stages
  <2>6. /\ Onward(r) /\ req'[r].op \in {"idle", "unlink"}
        /\ kind = "builder" => req'[r].op = "unlink" /\ req'[r].at = "results"
    BY <1>1, <2>4, <2>5, OnwardStep
  <2>7. Removing(r) BY <1>1 DEF Removing
  <2>8. \A k \in gone : kind = "builder" =>
               /\ req'[r].at = "results"
               /\ \/ req'[r].op = "unlink" /\ req[r].link = k
                  \/ req'[r].op = "delete" /\ req[r].doc = link[k].doc
    BY <2>6
  <2>9. gone \in SUBSET Links /\ \A k \in gone : link[k].state = "there" BY <2>1
  <2> HIDE DEF l, gone
  <2> QED BY <1>1, <2>3, <2>6, <2>7, <2>8, <2>9, WithdrawnKeeps
<1> QED BY <1>2, <1>3 DEF DropLinkSave

\* A link that is made, while no deletion is under way unless it is raced for.
LEMMA MakeLinkSaveKeeps ==
    ASSUME ExercisesInv, NEW r \in Requests, NEW l \in Links, MakeLinkSave(r, l)
    PROVE  ExercisesInv'
<1> DEFINE new == [state |-> "there", doc |-> req[r].doc, persist |-> req[r].yes]
<1>1. /\ Onward(r) /\ req'[r].op = "idle" /\ req[r].op = "link" /\ link[l].state = "new"
      /\ UNCHANGED <<kind, doc, result, best, raced>>
  BY OnwardStep DEF MakeLinkSave, At
<1>2. req[r].doc \in Docs /\ req[r].yes \in BOOLEAN /\ link \in [Links -> Link]
  BY ExercisesFacts DEF Request
<1>3. new \in Link /\ new.state = "there" /\ new.doc = req[r].doc BY <1>2 DEF Link, States
<1>4. link' = [link EXCEPT ![l] = new] BY DEF MakeLinkSave
<1> HIDE DEF new
<1>5. link' \in [Links -> Link] /\ link'[l] = new /\ \A k \in Links \ {l} : link'[k] = link[k]
  BY <1>2, <1>3, <1>4
<1>6. TypeOK' BY <1>1, <1>5 DEF ExercisesInv, TypeOK, Onward
<1>7. Updatable' BY <1>1, UpdatableKept
<1>8. Anchored'
  <2>1. \A k, d : Through(k, d) => k # l /\ link'[k] = link[k] BY <1>1, <1>5 DEF Through
  <2> QED BY <1>1, <2>1 DEF ExercisesInv, Anchored, SubmitsBuilder, Onward, Through
<1>9. ASSUME "results" \notin raced' PROVE Calm'
  <2>1. Calm BY <1>1, <1>9 DEF ExercisesInv
  <2>2. Apart' BY <1>1, <2>1, ApartKept DEF Calm
  <2>3. \A q \in Requests : ~Removing(q) /\ ~Removing(q)'
    BY <1>1, <2>1 DEF Calm, Apart, Adding, Removing, Onward
  <2>4. Alive'
    <3>1. ASSUME NEW q \in Requests, SubmitsBuilder(q)'
          PROVE  link'[req'[q].link].state = "there"
      <4>1. req'[q] = req[q] /\ SubmitsBuilder(q) BY <1>1, <3>1 DEF SubmitsBuilder, Onward
      <4>2. link[req[q].link].state = "there" /\ req[q].link \in Links
        BY <2>1, <4>1 DEF Calm, Alive, ExercisesInv, Anchored, Through
      <4>3. req[q].link # l BY <1>1, <4>2
      <4> QED BY <1>5, <4>1, <4>2, <4>3
    <3> QED BY <1>1, <2>1, <3>1 DEF Calm, Alive, There, Onward
  <2>5. Swept' BY <2>3 DEF Swept, Removing
  <2>6. OfLiving'
    <3>1. doc[req[r].doc].state = "there" BY <1>1, <2>1 DEF Calm, Alive, There
    <3> QED BY <1>1, <1>3, <1>5, <2>1, <3>1 DEF Calm, OfLiving
  <2>7. Covered'
    <3>1. \A k \in Links : link'[k].state = "gone" => link[k].state = "gone" BY <1>3, <1>5
    <3> QED BY <1>1, <2>1, <3>1 DEF Calm, Covered, ToRemove, Onward
  <2> QED BY <2>2, <2>4, <2>5, <2>6, <2>7 DEF Calm
<1> QED BY <1>6, <1>7, <1>8, <1>9 DEF ExercisesInv

\* A result that is stored.
LEMMA SubmitSaveKeeps ==
    ASSUME ExercisesInv, NEW r \in Requests, NEW a \in Results, SubmitSave(r, a)
    PROVE  ExercisesInv'
<1> DEFINE new == [state |-> "there", doc |-> req[r].doc,
                   link |-> IF kind = "builder" THEN req[r].link ELSE NoLink]
<1>1. /\ Onward(r) /\ req'[r].op = "idle" /\ req[r].op = "submit" /\ req[r].at = "save"
      /\ UNCHANGED <<kind, doc, link, best, raced>>
  BY OnwardStep DEF SubmitSave, At
<1>2. req[r].doc \in Docs /\ req[r].link \in Links \cup {NoLink} /\ result \in [Results -> Result]
  BY ExercisesFacts
<1>3. /\ new \in Result /\ new.state = "there" /\ new.doc = req[r].doc
      /\ new.link = IF kind = "builder" THEN req[r].link ELSE NoLink
  BY <1>2 DEF Result, States
<1>4. result' = [result EXCEPT ![a] = new] BY DEF SubmitSave
<1> HIDE DEF new
<1>5. result' \in [Results -> Result] /\ result'[a] = new /\ \A b \in Results \ {a} : result'[b] = result[b]
  BY <1>2, <1>3, <1>4
<1>6. TypeOK' BY <1>1, <1>5 DEF ExercisesInv, TypeOK, Onward
<1>7. Updatable' BY <1>1, UpdatableKept
<1>8. Anchored'
  BY <1>1, <1>3, <1>5 DEF ExercisesInv, Anchored, SubmitsBuilder, Onward, Through
<1>9. ASSUME "results" \notin raced' PROVE Calm'
  <2>1. Calm BY <1>1, <1>9 DEF ExercisesInv
  <2>2. Apart' BY <1>1, <2>1, ApartKept DEF Calm
  <2>3. \A q \in Requests : ~Removing(q) /\ ~Removing(q)'
    BY <1>1, <2>1 DEF Calm, Apart, Adding, Removing, Onward
  <2>4. Alive' BY <1>1, <2>1 DEF Calm, Alive, SubmitsBuilder, There, Onward
  <2>5. Swept' BY <2>3 DEF Swept, Removing
  <2>6. OfLiving'
    <3>1. doc[req[r].doc].state = "there" BY <1>1, <2>1 DEF Calm, Alive, There
    <3> QED BY <1>1, <1>3, <1>5, <2>1, <3>1 DEF Calm, OfLiving
  <2>7. Covered'
    <3>1. new.link \in Links => link[new.link].state # "gone"
      <4>1. NoLink \notin Links BY ConstantsAssumption
      <4> QED BY <1>1, <1>3, <2>1, <4>1 DEF Calm, Alive, SubmitsBuilder
    <3>2. \A b \in Results \ {a} : ToRemove(b) => FALSE BY <2>3 DEF ToRemove, Removing
    <3> QED BY <1>1, <1>5, <2>1, <3>1, <3>2 DEF Calm, Covered
  <2> QED BY <2>2, <2>4, <2>5, <2>6, <2>7 DEF Calm
<1> QED BY <1>6, <1>7, <1>8, <1>9 DEF ExercisesInv

\* Results that are removed: all of a document, or all that came through a link.
LEMMA RemovedType ==
    ASSUME ExercisesInv, NEW gone, result' = Removed(gone)
    PROVE  /\ result' \in [Results -> Result]
           /\ \A a \in Results : result'[a].state = "there" => a \notin gone /\ result'[a] = result[a]
<1>1. result \in [Results -> Result] BY ExercisesFacts
<1>2. \A a \in Results : [result[a] EXCEPT !.state = "gone"] \in Result
                         /\ [result[a] EXCEPT !.state = "gone"].state = "gone"
  BY <1>1 DEF Result, States
<1> QED BY <1>1, <1>2 DEF Removed

LEMMA RemovesKeep ==
    ASSUME ExercisesInv, NEW r \in Requests, Onward(r), Removing(r), req[r].at = "results",
           UNCHANGED <<kind, doc, link, best, raced>>,
           result' \in [Results -> Result],
           \A a \in Results : result'[a].state = "there" =>
               /\ result'[a] = result[a]
               /\ req[r].op = "unlink" => result[a].link # req[r].link
               /\ req[r].op = "delete" => result[a].doc # req[r].doc,
           req[r].op = "delete" => req'[r].op = "delete" /\ req'[r].at = "drop",
           req[r].op = "unlink" => req'[r].op = "idle"
    PROVE  ExercisesInv'
<1>1. TypeOK' BY DEF ExercisesInv, TypeOK, Onward
<1>2. Updatable' BY UpdatableKept
<1>3. \A q \in Requests : SubmitsBuilder(q)' => SubmitsBuilder(q) /\ req'[q] = req[q]
  BY DEF SubmitsBuilder, Onward, Removing
<1>4. Anchored' BY <1>3 DEF ExercisesInv, Anchored, Through
<1>5. ASSUME "results" \notin raced' PROVE Calm'
  <2>1. Calm BY <1>5 DEF ExercisesInv
  <2>2. Apart' BY <2>1, ApartKept DEF Calm
  <2>3. \A q \in Requests : ~Adding(q) BY <2>1 DEF Calm, Apart
  <2>4. Alive' BY <2>3 DEF Alive, SubmitsBuilder, Adding, Onward, Removing
  <2>5. Swept'
    <3>1. ASSUME NEW q \in Requests, req'[q].op = "delete", NEW l \in Links,
                 link[l].state = "there", req'[q].at # "links"
          PROVE  link[l].doc # req'[q].doc
      BY <2>1, <3>1 DEF Calm, Swept, Onward, Removing, LinksOf
    <3>2. ASSUME NEW q \in Requests, req'[q].op = "delete"
          PROVE  /\ req'[q].at \in {"links", "results", "drop"}
                 /\ req'[q].at = "drop" =>
                      \A a \in Results : result'[a].state = "there" => result'[a].doc # req'[q].doc
      BY <2>1, <3>2 DEF Calm, Swept, Onward, Removing
    <3> QED BY <3>1, <3>2 DEF Swept, LinksOf
  <2>6. OfLiving' BY <2>1 DEF Calm, OfLiving
  <2>7. Covered'
    <3> SUFFICES ASSUME NEW a \in Results, result'[a].state = "there", result'[a].link \in Links,
                        link[result'[a].link].state = "gone"
                 PROVE  ToRemove(a)'
      BY DEF Covered
    <3>1. result'[a] = result[a] OBVIOUS
    <3>2. PICK q \in Requests : /\ req[q].at = "results"
                                /\ \/ req[q].op = "unlink" /\ req[q].link = result[a].link
                                   \/ req[q].op = "delete" /\ req[q].doc = result[a].doc
      BY <2>1, <3>1 DEF Calm, Covered, ToRemove
    <3>3. q # r BY <3>2
    <3>4. req'[q] = req[q] BY <3>3 DEF Onward
    <3> QED BY <3>1, <3>2, <3>4 DEF ToRemove
  <2> QED BY <2>2, <2>4, <2>5, <2>6, <2>7 DEF Calm
<1> QED BY <1>1, <1>2, <1>4, <1>5 DEF ExercisesInv

LEMMA ResultsRemoved ==
    ASSUME ExercisesInv, NEW r \in Requests, DeleteResults(r) \/ DropLinkResults(r)
    PROVE  ExercisesInv'
<1>1. "drop" \in Stages BY DEF Stages
<1>2. UNCHANGED <<kind, doc, link, best, raced>> /\ req[r].at = "results" /\ Removing(r)
  BY DEF DeleteResults, DropLinkResults, At, Removing
<1>3. CASE DeleteResults(r)
  <2>1. Onward(r) /\ req[r].op = "delete" /\ req'[r].op = "delete" /\ req'[r].at = "drop"
    BY <1>1, <1>3, OnwardStep DEF DeleteResults, At
  <2>2. /\ result' \in [Results -> Result]
        /\ \A a \in Results : result'[a].state = "there" =>
             result'[a] = result[a] /\ result[a].doc # req[r].doc
    BY <1>3, RemovedType DEF DeleteResults
  <2> QED BY <1>2, <2>1, <2>2, RemovesKeep
<1>4. CASE DropLinkResults(r)
  <2>1. Onward(r) /\ req[r].op = "unlink" /\ req'[r].op = "idle"
    BY <1>4, OnwardStep DEF DropLinkResults, At
  <2>2. /\ result' \in [Results -> Result]
        /\ \A a \in Results : result'[a].state = "there" =>
             result'[a] = result[a] /\ result[a].link # req[r].link
    BY <1>4, RemovedType DEF DropLinkResults
  <2> QED BY <1>2, <2>1, <2>2, RemovesKeep
<1> QED BY <1>3, <1>4

-----------------------------------------------------------------------------
(* The theorems *)

LEMMA ExercisesInit == Init => ExercisesInv
<1> SUFFICES ASSUME Init PROVE ExercisesInv OBVIOUS
<1>1. Idle \in Request /\ Idle.op = "idle" /\ ADoc \in Docs BY ExercisesIdle
<1>2. 1 \in 1 .. MaxEdition BY ConstantsAssumption
<1>3. req \in [Requests -> Request] /\ \A r \in Requests : req[r].op = "idle" BY <1>1 DEF Init
<1>4. doc \in [Docs -> Doc] BY <1>2 DEF Init, Doc, States
<1>5. link \in [Links -> Link] /\ \A l \in Links : link[l].state = "new"
  BY <1>1 DEF Init, Link, States
<1>6. result \in [Results -> Result] /\ \A a \in Results : result[a].state = "new"
  BY <1>1 DEF Init, Result, States
<1>7. best \in [Users -> Best] BY DEF Init, Best
<1>8. TypeOK BY <1>3, <1>4, <1>5, <1>6, <1>7 DEF Init, TypeOK
<1>9. Updatable /\ Anchored BY <1>3, <1>6 DEF Updatable, Anchored, SubmitsBuilder
<1>10. Apart /\ Alive BY <1>3 DEF Apart, Alive, Removing, Adding, SubmitsBuilder
<1>11. Swept /\ OfLiving /\ Covered BY <1>3, <1>5, <1>6 DEF Swept, OfLiving, Covered
<1> QED BY <1>8, <1>9, <1>10, <1>11 DEF ExercisesInv, Calm

LEMMA ExercisesNext == ExercisesInv /\ [Next]_vars => ExercisesInv'
<1> SUFFICES ASSUME ExercisesInv, [Next]_vars PROVE ExercisesInv' OBVIOUS
<1>1. ASSUME NEW r \in Requests, NEW d \in Docs, NEW yes \in BOOLEAN,
             Create(r, d, yes) \/ Update(r, d, yes) \/ MakeLink(r, d, yes)
      PROVE  ExercisesInv'
  BY <1>1, AcceptsKeep
<1>2. ASSUME NEW r \in Requests, NEW d \in Docs,
             Delete(r, d) \/ \E l \in Links : DropLink(r, d, l)
      PROVE  ExercisesInv'
  <2>1. TRUE \in BOOLEAN OBVIOUS
  <2> QED BY <1>2, <2>1, AcceptsKeep
<1>3. ASSUME NEW r \in Requests, NEW d \in Docs, NEW l \in Links \cup {NoLink},
             SoloBattle(r, d, l) \/ \E own \in BOOLEAN : Attempt(r, d, l, own)
      PROVE  ExercisesInv'
  <2>1. PICK own \in BOOLEAN : SoloBattle(r, d, l) \/ Attempt(r, d, l, own) BY <1>3
  <2> QED BY <2>1, AcceptsKeep
<1>4. ASSUME NEW r \in Requests, CreateSave(r) \/ UpdateSave(r)
      PROVE  ExercisesInv'
  BY <1>4, CreateSaveKeeps, UpdateSaveKeeps
<1>5. ASSUME NEW r \in Requests, DeleteLinks(r) \/ DeleteResults(r) \/ DeleteDocument(r)
      PROVE  ExercisesInv'
  BY <1>5, DeleteLinksKeeps, ResultsRemoved, DeleteDocumentKeeps
<1>6. ASSUME NEW r \in Requests,
             MakeLinkCount(r) \/ AttemptLink(r) \/ SoloBattleLoad(r) \/ SoloBattleLink(r)
      PROVE  ExercisesInv'
  BY <1>6, ChecksKeep
<1>7. ASSUME NEW r \in Requests, NEW l \in Links, MakeLinkSave(r, l)
      PROVE  ExercisesInv'
  BY <1>7, MakeLinkSaveKeeps
<1>8. ASSUME NEW r \in Requests, DropLinkSave(r) \/ DropLinkResults(r)
      PROVE  ExercisesInv'
  BY <1>8, DropLinkSaveKeeps, ResultsRemoved
<1>9. ASSUME NEW r \in Requests, NEW a \in Results, SubmitSave(r, a)
      PROVE  ExercisesInv'
  BY <1>9, SubmitSaveKeeps
<1>10. ASSUME NEW r \in Requests, NEW u \in Users, NEW score \in Scores, NEW time \in Times,
              Play(r, u, score, time)
       PROVE  ExercisesInv'
  BY <1>10, PlayKeeps
<1>11. ASSUME NEW r \in Requests, PlaySave(r) \/ Cut(r)
       PROVE  ExercisesInv'
  BY <1>11, EndsKeep
<1>12. CASE UNCHANGED vars
  <2>1. UNCHANGED <<kind, doc, link, result, best, req, raced>> BY <1>12 DEF vars
  <2>2. TypeOK' BY <2>1 DEF ExercisesInv, TypeOK
  <2>3. Updatable' /\ Anchored'
    BY <2>1 DEF ExercisesInv, Updatable, Anchored, SubmitsBuilder, Through
  <2>4. Calm <=> Calm'
    BY <2>1 DEF Calm, Apart, Alive, Swept, OfLiving, Covered, Removing, Adding, SubmitsBuilder,
               ToRemove, There, LinksOf
  <2> QED BY <2>1, <2>2, <2>3, <2>4 DEF ExercisesInv
<1> QED
  BY <1>1, <1>2, <1>3, <1>4, <1>5, <1>6, <1>7, <1>8, <1>9, <1>10, <1>11, <1>12 DEF Next

\* Types: the documents, links, results, best games and the requests under way are
\* what TypeOK says.
THEOREM ExercisesTypeCorrect == Spec => []TypeOK
<1>1. ExercisesInv => TypeOK BY DEF ExercisesInv
<1> QED BY <1>1, ExercisesInit, ExercisesNext, PTL DEF Spec

\* Whatever tests, builders, links and requests there are: what has been deleted leaves
\* nothing behind, unless it was added to meanwhile or the deletion was cut short.
THEOREM NothingLeftCorrect == Spec => []NothingLeft
<1>1. ExercisesInv => NothingLeft
  <2> SUFFICES ASSUME ExercisesInv, "results" \notin raced
               PROVE  /\ OfLiving
                      /\ \A a \in Results, l \in Links :
                           result[a].state = "there" /\ result[a].link = l /\ link[l].state = "gone"
                             => Busy({"delete", "unlink"})
    BY DEF NothingLeft, OfLiving
  <2>1. Calm BY DEF ExercisesInv
  <2> QED BY <2>1 DEF Calm, Covered, ToRemove, Busy
<1> QED BY <1>1, ExercisesInit, ExercisesNext, PTL DEF Spec

-----------------------------------------------------------------------------
(* The leader board of the memory games *)

Game(r) == [there |-> TRUE, score |-> req[r].score, time |-> req[r].time]

\* While no two games of one player have been saved at a time, a game about to be
\* stored is better than the one it replaces, and the only one of its player.
Better ==
    "best" \notin raced =>
        \A r \in Requests : req[r].op = "play" =>
            /\ Replaces(Game(r), best[req[r].user])
            /\ \A q \in Requests : req[q].op = "play" /\ req[q].user = req[r].user => q = r

GamesInv == ExercisesInv /\ Better

\* A step that neither accepts a game nor stores one.
NoGame ==
    /\ best' = best /\ raced \subseteq raced'
    /\ \A q \in Requests : req'[q].op = "play" =>
         /\ req[q].op = "play" /\ req'[q].user = req[q].user
         /\ req'[q].score = req[q].score /\ req'[q].time = req[q].time

LEMMA NoGameKeeps ==
    ASSUME Better, NoGame
    PROVE  Better'
BY DEF Better, NoGame, Game, Replaces, Above

LEMMA AcceptsNoGame ==
    ASSUME ExercisesInv, NEW r \in Requests, NEW v, v.op # "play", Accept(r, v), best' = best
    PROVE  NoGame
<1>1. req' = [req EXCEPT ![r] = v] /\ raced \subseteq raced' BY DEF Accept
<1>2. \A q \in Requests : req'[q] = IF q = r THEN v ELSE req[q] BY <1>1, ExercisesFacts
<1> QED BY <1>1, <1>2 DEF NoGame

LEMMA StepsNoGame ==
    ASSUME ExercisesInv, NEW r \in Requests, best' = best, raced \subseteq raced',
           Done(r) \/ \E at \in Stages : Goto(r, at)
    PROVE  NoGame
<1>1. Onward(r) BY OnwardStep
<1>2. CASE Done(r)
  <2>1. req'[r].op = "idle" BY <1>2, OnwardStep
  <2> QED BY <1>1, <2>1 DEF NoGame, Onward
<1>3. ASSUME NEW at \in Stages, Goto(r, at) PROVE NoGame
  <2> DEFINE v == [req[r] EXCEPT !.at = at]
  <2>1. req[r] \in Request /\ req \in [Requests -> Request] BY ExercisesFacts
  <2>2. v.op = req[r].op /\ v.user = req[r].user /\ v.score = req[r].score /\ v.time = req[r].time
    BY <2>1 DEF Request
  <2>3. req' = [req EXCEPT ![r] = v] BY <2>1, <1>3 DEF Goto
  <2> HIDE DEF v
  <2>4. req'[r] = v BY <2>1, <2>3
  <2> QED BY <1>1, <2>2, <2>4 DEF NoGame, Onward
<1> QED BY <1>2, <1>3

LEMMA BeginsNoGame ==
    ASSUME ExercisesInv, NEW op \in Ops \ {"play"}, NEW at \in Stages, NEW d \in Docs,
           NEW yes, NEW l, NEW b, b = Begin(op, at, d)
    PROVE  b.op # "play" /\ [b EXCEPT !.yes = yes].op # "play" /\ [b EXCEPT !.link = l].op # "play"
<1>2. b \in Request /\ b.op = op BY BeginType
<1> QED BY <1>2 DEF Request

LEMMA RequestsNoGame ==
    ASSUME ExercisesInv, NEW r \in Requests, NEW d \in Docs, NEW yes \in BOOLEAN,
           \/ Create(r, d, yes) \/ Update(r, d, yes) \/ MakeLink(r, d, yes) \/ Delete(r, d)
           \/ \E l \in Links : DropLink(r, d, l)
           \/ \E l \in Links \cup {NoLink} : SoloBattle(r, d, l) \/ Attempt(r, d, l, yes)
    PROVE  NoGame
<1>1. best' = best
  BY DEF Create, Update, MakeLink, Delete, DropLink, SoloBattle, Attempt
<1>2. \E op \in Ops \ {"play"}, at \in Stages, l \in Links \cup {NoLink} :
         \/ Accept(r, Begin(op, at, d))
         \/ Accept(r, [Begin(op, at, d) EXCEPT !.yes = yes])
         \/ Accept(r, [Begin(op, at, d) EXCEPT !.link = l])
  <2>1. {"create", "update", "delete", "link", "unlink", "submit"} \subseteq Ops \ {"play"}
        /\ {"save", "count", "links", "load", "link"} \subseteq Stages
    BY DEF Ops, Stages
  <2> QED BY <2>1 DEF Create, Update, MakeLink, Delete, DropLink, SoloBattle, Attempt
<1>3. PICK op \in Ops \ {"play"}, at \in Stages, l \in Links \cup {NoLink} :
         \/ Accept(r, Begin(op, at, d))
         \/ Accept(r, [Begin(op, at, d) EXCEPT !.yes = yes])
         \/ Accept(r, [Begin(op, at, d) EXCEPT !.link = l])
  BY <1>2
<1> DEFINE b == Begin(op, at, d)
<1>4. b.op # "play" /\ [b EXCEPT !.yes = yes].op # "play" /\ [b EXCEPT !.link = l].op # "play"
  BY BeginsNoGame
<1>5. \/ Accept(r, b) \/ Accept(r, [b EXCEPT !.yes = yes]) \/ Accept(r, [b EXCEPT !.link = l])
  BY <1>3
<1> HIDE DEF b
<1> QED BY <1>1, <1>4, <1>5, AcceptsNoGame

LEMMA ResultsNoGame ==
    ASSUME ExercisesInv, NEW r \in Requests,
           \/ CreateSave(r) \/ UpdateSave(r) \/ Cut(r)
           \/ DeleteLinks(r) \/ DeleteResults(r) \/ DeleteDocument(r)
           \/ MakeLinkCount(r) \/ AttemptLink(r) \/ SoloBattleLoad(r) \/ SoloBattleLink(r)
           \/ DropLinkSave(r) \/ DropLinkResults(r)
           \/ \E l \in Links : MakeLinkSave(r, l)
           \/ \E a \in Results : SubmitSave(r, a)
    PROVE  NoGame
<1>1. best' = best /\ raced \subseteq raced'
  BY DEF CreateSave, UpdateSave, Cut, DeleteLinks, DeleteResults, DeleteDocument,
         MakeLinkCount, AttemptLink, SoloBattleLoad, SoloBattleLink, DropLinkSave,
         DropLinkResults, MakeLinkSave, SubmitSave
<1>2. CASE UpdateSave(r) /\ ~Done(r)
  <2> DEFINE stale(q) == [req[q] EXCEPT !.fresh = @ /\ req[q].doc # req[r].doc]
  <2>1. req' = [q \in Requests |-> IF q = r THEN Idle ELSE stale(q)] BY <1>2 DEF UpdateSave
  <2>2. \A q \in Requests : /\ stale(q).op = req[q].op /\ stale(q).user = req[q].user
                            /\ stale(q).score = req[q].score /\ stale(q).time = req[q].time
    <3> TAKE q \in Requests
    <3>1. req[q] \in Request BY ExercisesFacts
    <3> QED BY <3>1 DEF Request
  <2>3. Idle.op = "idle" BY ExercisesFacts, ExercisesIdle
  <2> HIDE DEF stale
  <2> QED BY <1>1, <2>1, <2>2, <2>3 DEF NoGame
<1>3. CASE Done(r) \/ \E at \in Stages : Goto(r, at)
  BY <1>1, <1>3, StepsNoGame
<1>4. CASE ~UpdateSave(r)
  <2>1. Done(r) \/ \E at \in {"results", "drop", "save", "link"} : Goto(r, at)
    BY <1>4 DEF CreateSave, Cut, DeleteLinks, DeleteResults, DeleteDocument,
           MakeLinkCount, AttemptLink, SoloBattleLoad, SoloBattleLink, DropLinkSave,
           DropLinkResults, MakeLinkSave, SubmitSave
  <2>2. {"results", "drop", "save", "link"} \subseteq Stages BY DEF Stages
  <2> QED BY <1>3, <2>1, <2>2
<1> QED BY <1>2, <1>3, <1>4

LEMMA PlayBetter ==
    ASSUME GamesInv, NEW r \in Requests, NEW u \in Users, NEW score \in Scores,
           NEW time \in Times, Play(r, u, score, time)
    PROVE  Better'
<1> DEFINE b == Begin("play", "save", ADoc)
<1> DEFINE v == [b EXCEPT !.user = u, !.score = score, !.time = time]
<1>1. req \in [Requests -> Request]
  BY ExercisesFacts DEF GamesInv
<1>2. b \in Request /\ b.op = "play"
  BY <1>1, ExercisesIdle, BeginType DEF Ops, Stages
<1>3. v.op = "play" /\ v.user = u /\ v.score = score /\ v.time = time
  <2> HIDE DEF b
  <2> QED BY <1>2 DEF Request
<1>4. Accept(r, v) /\ best' = best BY DEF Play
<1> HIDE DEF v
<1>5. req' = [req EXCEPT ![r] = v] /\ raced' = raced \cup Clash(v) BY <1>4 DEF Accept
<1>6. req'[r] = v /\ \A q \in Requests \ {r} : req'[q] = req[q] BY <1>1, <1>5
<1>7. Replaces([there |-> TRUE, score |-> score, time |-> time], best[u]) BY DEF Play
<1>8. SUFFICES ASSUME "best" \notin raced', NEW q \in Requests, req'[q].op = "play"
               PROVE  /\ Replaces(Game(q)', best[req'[q].user])
                      /\ \A p \in Requests :
                           req'[p].op = "play" /\ req'[p].user = req'[q].user => p = q
  BY <1>4 DEF Better, Replaces, Above
<1>9. \A p \in Requests : ~(req[p].op = "play" /\ req[p].user = u)
  BY <1>3, <1>5, <1>8 DEF Clash, Topics
<1>10. "best" \notin raced BY <1>5, <1>8
<1>11. CASE q = r
  <2>1. Game(q)' = [there |-> TRUE, score |-> score, time |-> time] BY <1>3, <1>6, <1>11 DEF Game
  <2> QED BY <1>3, <1>6, <1>7, <1>9, <1>11, <2>1
<1>12. CASE q # r
  <2>1. req'[q] = req[q] /\ req[q].op = "play" BY <1>6, <1>8, <1>12
  <2>2. Game(q)' = Game(q) BY <2>1 DEF Game
  <2> QED BY <1>3, <1>6, <1>9, <1>10, <2>1, <2>2 DEF GamesInv, Better
<1> QED BY <1>11, <1>12

LEMMA PlaySaveBetter ==
    ASSUME GamesInv, NEW r \in Requests, PlaySave(r)
    PROVE  Better'
<1>1. best \in [Users -> Best] /\ req[r] \in Request BY ExercisesFacts DEF GamesInv
<1>2. Onward(r) /\ req'[r].op = "idle" /\ req[r].op = "play" /\ raced' = raced
  BY OnwardStep DEF GamesInv, PlaySave, At
<1>3. \A u \in Users \ {req[r].user} : best'[u] = best[u] BY <1>1 DEF PlaySave
<1>4. SUFFICES ASSUME "best" \notin raced, NEW q \in Requests, req'[q].op = "play"
               PROVE  /\ Replaces(Game(q)', best'[req'[q].user])
                      /\ \A p \in Requests :
                           req'[p].op = "play" /\ req'[p].user = req'[q].user => p = q
  BY <1>2 DEF Better, Replaces, Above
<1>5. q # r /\ req'[q] = req[q] BY <1>2, <1>4 DEF Onward
<1>6. req[q].user # req[r].user BY <1>2, <1>4, <1>5 DEF GamesInv, Better
<1>7. req[q].user \in Users BY ExercisesFacts DEF GamesInv, Request
<1>8. best'[req'[q].user] = best[req[q].user] /\ Game(q)' = Game(q) BY <1>3, <1>5, <1>6, <1>7 DEF Game
<1>9. \A p \in Requests : req'[p].op = "play" => req'[p] = req[p] BY <1>2 DEF Onward
<1> QED BY <1>4, <1>5, <1>8, <1>9 DEF GamesInv, Better

LEMMA GamesNext == GamesInv /\ [Next]_vars => GamesInv'
<1> SUFFICES ASSUME GamesInv, [Next]_vars PROVE Better'
  BY ExercisesNext DEF GamesInv
<1>1. ExercisesInv /\ Better BY DEF GamesInv
<1>2. ASSUME NEW r \in Requests, NEW d \in Docs, NEW yes \in BOOLEAN,
             \/ Create(r, d, yes) \/ Update(r, d, yes) \/ MakeLink(r, d, yes) \/ Delete(r, d)
             \/ \E l \in Links : DropLink(r, d, l)
             \/ \E l \in Links \cup {NoLink} : SoloBattle(r, d, l) \/ Attempt(r, d, l, yes)
      PROVE  Better'
  <2>1. NoGame BY <1>1, <1>2, RequestsNoGame
  <2> QED BY <1>1, <2>1, NoGameKeeps
<1>3. ASSUME NEW r \in Requests,
             \/ CreateSave(r) \/ UpdateSave(r) \/ Cut(r)
             \/ DeleteLinks(r) \/ DeleteResults(r) \/ DeleteDocument(r)
             \/ MakeLinkCount(r) \/ AttemptLink(r) \/ SoloBattleLoad(r) \/ SoloBattleLink(r)
             \/ DropLinkSave(r) \/ DropLinkResults(r)
             \/ \E l \in Links : MakeLinkSave(r, l)
             \/ \E a \in Results : SubmitSave(r, a)
      PROVE  Better'
  <2>1. NoGame BY <1>1, <1>3, ResultsNoGame
  <2> QED BY <1>1, <2>1, NoGameKeeps
<1>4. ASSUME NEW r \in Requests, NEW u \in Users, NEW score \in Scores, NEW time \in Times,
             Play(r, u, score, time)
      PROVE  Better'
  BY <1>4, PlayBetter
<1>5. ASSUME NEW r \in Requests, PlaySave(r)
      PROVE  Better'
  BY <1>5, PlaySaveBetter
<1>6. CASE UNCHANGED vars
  <2>1. NoGame BY <1>6 DEF vars, NoGame
  <2> QED BY <1>1, <2>1, NoGameKeeps
<1>7. TRUE \in BOOLEAN OBVIOUS
<1> QED BY <1>2, <1>3, <1>4, <1>5, <1>6, <1>7 DEF Next

\* A better game of u leaves no more players above him.
LEMMA RankKept ==
    ASSUME GamesInv, [Next]_vars, "best" \notin raced', NEW u \in Users,
           best[u].there, best'[u] # best[u]
    PROVE  Rank(u)' <= Rank(u)
<1>1. ExercisesInv BY DEF GamesInv
<1>2. PICK r \in Requests : PlaySave(r)
  BY DEF Next, vars, Create, Update, MakeLink, Delete, DropLink, CreateSave,
         UpdateSave, DeleteLinks, DeleteResults, DeleteDocument, MakeLinkCount,
         MakeLinkSave, DropLinkSave, DropLinkResults, SoloBattle, Attempt, AttemptLink,
         SoloBattleLoad, SoloBattleLink, SubmitSave, Play, Cut
<1>3. /\ best \in [Users -> Best] /\ req[r] \in Request /\ req[r].user \in Users
  BY <1>1, ExercisesFacts DEF Request
<1>4. raced' = raced /\ req[r].op = "play" BY <1>2 DEF PlaySave, At
<1>5. best' = [best EXCEPT ![req[r].user] = Game(r)] BY <1>2 DEF PlaySave, Game
<1>6. req[r].user = u /\ best'[u] = Game(r) /\ \A v \in Users \ {u} : best'[v] = best[v]
  BY <1>3, <1>5
<1>7. Above(Game(r), best[u])
  BY <1>4, <1>6 DEF GamesInv, Better, Replaces
<1> DEFINE before == {v \in Users : best[v].there /\ Above(best[v], best[u])}
<1> DEFINE after == {v \in Users : best'[v].there /\ Above(best'[v], best'[u])}
<1>8. /\ best[u].score \in Nat /\ best[u].time \in Nat
      /\ Game(r).score \in Nat /\ Game(r).time \in Nat
      /\ \A v \in Users : best[v].score \in Nat /\ best[v].time \in Nat
  BY <1>3 DEF Best, Request, Game
<1>9. after \subseteq before
  <2> SUFFICES ASSUME NEW v \in after PROVE v \in before OBVIOUS
  <2>1. v # u
    <3>1. ~Above(Game(r), Game(r)) BY <1>8 DEF Above
    <3> QED BY <1>6, <3>1
  <2>2. best'[v] = best[v] /\ Above(best[v], Game(r)) BY <1>6, <2>1
  <2>3. Above(best[v], best[u]) BY <1>7, <1>8, <2>2 DEF Above
  <2> QED BY <2>2, <2>3
<1>10. IsFiniteSet(before)
  <2>1. IsFiniteSet(Users) BY ConstantsAssumption
  <2> QED BY <2>1, FS_Subset
<1>11. /\ Cardinality(after) <= Cardinality(before)
       /\ Cardinality(after) \in Nat /\ Cardinality(before) \in Nat
  <2> HIDE DEF after, before
  <2> QED BY <1>9, <1>10, FS_Subset, FS_CardinalityType
<1>12. Rank(u) = Cardinality(before) + 1
  <2>1. Rank(u) = Cardinality(before) + 1 BY DEF Rank
  <2> QED BY <2>1
<1>13. Rank(u)' = Cardinality(after) + 1
  <2>1. Rank(u)' = Cardinality(after) + 1 BY DEF Rank, Above
  <2> QED BY <2>1
<1> HIDE DEF after, before
<1> QED BY <1>11, <1>12, <1>13

\* Nobody falls on the leader board by a game of his own, unless two games of his were
\* saved at a time.
THEOREM RankCorrect == Spec => RankNeverFalls
<1>1. Init => GamesInv
  <2> SUFFICES ASSUME Init PROVE Better
    BY ExercisesInit DEF GamesInv
  <2>1. Idle.op = "idle" BY ExercisesIdle
  <2> QED BY <2>1 DEF Better, Init
<1>2. GamesInv /\ [Next]_vars =>
        [\A u \in Users : "best" \notin raced' /\ best[u].there /\ best'[u] # best[u]
                            => Rank(u)' <= Rank(u)]_vars
  BY RankKept
<1> QED BY <1>1, <1>2, GamesNext, PTL DEF Spec, RankNeverFalls

=============================================================================

----------------------------- MODULE Arena_proofs -----------------------------
(***************************************************************************)
(* Proofs about ArenaBattle, for any sockets, accounts, battles and        *)
(* answers under way, and about Flashcards, for any users, editions and    *)
(* requests under way: their type invariants, and each property that the   *)
(* runs check of them.  What a step may do is one relation, Follows for a  *)
(* battle and StepOf for the cards, and it is what the invariants need.    *)
(***************************************************************************)
EXTENDS ArenaBattle, Flashcards, FiniteSetTheorems, TLAPS

-----------------------------------------------------------------------------
(* ArenaBattle: the inductive invariant *)

Begun(R) == R.status \in {"playing", "finished"}

\* The answers of an entry that are under way
Pending(b, e) == {c \in Calls : answers[c] # NoCall /\ answers[c].battle = b /\ answers[c].by = e}

\* The questions that an entry has had the chance to answer
Chances(R, e) == R.currentQuestionIndex + (IF R.participants[e].hasAnsweredCurrent THEN 1 ELSE 0)

\* Were all of k more answers right, the points would still be within the chances.
Within(R, e, k) ==
    R.participants[e] # NoPlayer =>
        /\ R.participants[e].score + 10 * k <= 10 * Chances(R, e)
        /\ R.participants[e].score <= 10 * NQ

\* The lookups, saves and documents of a battle's history together
Records(b) == saving[b].find + saving[b].save + history[b]

PointsSound ==
    /\ \A c \in Calls : answers[c] # NoCall => Begun(battle[answers[c].battle])
    /\ \A b \in Battles, e \in Entry : Within(battle[b], e, Cardinality(Pending(b, e)))

Inv ==
    /\ TypeOK
    /\ PointsSound
    /\ \A b \in Battles : Records(b) <= 1 /\ (battle[b].status # "finished" => Records(b) = 0)

-----------------------------------------------------------------------------
(* ArenaBattle: what a step does to a battle *)

\* N may come after R: a battle that has begun goes on, and points that are within
\* the chances stay so; answers are under way only in a battle that has begun.
Follows(R, N) ==
    /\ N \in BattleRoom
    /\ Begun(R) => Begun(N)
    /\ R.status = "finished" => N.status = "finished"
    /\ \A e \in Entry, k \in Nat : (Begun(R) \/ k = 0) /\ Within(R, e, k) => Within(N, e, k)

LEMMA FollowsSelf ==
    ASSUME NEW R \in BattleRoom
    PROVE  Follows(R, R)
BY DEF Follows, BattleRoom

LEMMA FollowsTwice ==
    ASSUME NEW R, NEW M, NEW N, Follows(R, M), Follows(M, N)
    PROVE  Follows(R, N)
BY DEF Follows

\* One participant's entry is replaced.
Put(R, e, p) == [R EXCEPT !.participants[e] = p]

LEMMA PutFields ==
    ASSUME NEW R \in BattleRoom, NEW e \in Entry, NEW p \in Player \cup {NoPlayer}
    PROVE  /\ Put(R, e, p) \in BattleRoom
           /\ Put(R, e, p).status = R.status
           /\ Put(R, e, p).currentQuestionIndex = R.currentQuestionIndex
           /\ Put(R, e, p).participants[e] = p
           /\ \A f \in Entry \ {e} : Put(R, e, p).participants[f] = R.participants[f]
BY DEF Put, BattleRoom

\* The entry of someone who joins before the battle begins, or leaves
LEMMA PutFollows ==
    ASSUME NEW R \in BattleRoom, NEW e \in Entry, NEW p \in Player \cup {NoPlayer},
           p = NoPlayer \/ (p = NewPlayer /\ ~Begun(R))
    PROVE  Follows(R, Put(R, e, p))
<1> DEFINE N == Put(R, e, p)
<1>1. /\ N \in BattleRoom /\ N.status = R.status /\ N.currentQuestionIndex = R.currentQuestionIndex
      /\ N.participants[e] = p /\ \A f \in Entry \ {e} : N.participants[f] = R.participants[f]
  BY PutFields
<1>2. R.currentQuestionIndex \in Nat /\ NQ \in Nat BY ConstantsAssumption DEF BattleRoom
<1> HIDE DEF N
<1>3. ASSUME NEW f \in Entry, NEW k \in Nat, Begun(R) \/ k = 0, Within(R, f, k)
      PROVE  Within(N, f, k)
  <2>1. CASE f # e BY <1>1, <1>3, <2>1 DEF Within, Chances
  <2>2. CASE f = e /\ p = NoPlayer BY <1>1, <2>2 DEF Within
  <2>3. CASE f = e /\ p = NewPlayer /\ ~Begun(R)
    <3>1. k = 0 /\ N.participants[f].score = 0 /\ N.participants[f].hasAnsweredCurrent = FALSE
      BY <1>1, <1>3, <2>3 DEF NewPlayer
    <3>2. Chances(N, f) = R.currentQuestionIndex BY <1>1, <1>2, <3>1 DEF Chances
    <3> QED BY <1>2, <3>1, <3>2 DEF Within
  <2> QED BY <2>1, <2>2, <2>3
<1> QED BY <1>1, <1>3 DEF Follows, Begun, N

\* Whoever has answered is given the chance of the next question.
LEMMA AdvanceFollows ==
    ASSUME NEW R \in BattleRoom
    PROVE  Follows(R, Advance(R)) /\ Advance(R).status = R.status
<1> DEFINE N == Advance(R)
<1> DEFINE P == [e \in Entry |-> IF R.participants[e] = NoPlayer THEN NoPlayer
                                 ELSE [R.participants[e] EXCEPT !.hasAnsweredCurrent = FALSE]]
<1>1. P \in [Entry -> Player \cup {NoPlayer}]
  <2> SUFFICES ASSUME NEW e \in Entry, R.participants[e] # NoPlayer
               PROVE  [R.participants[e] EXCEPT !.hasAnsweredCurrent = FALSE] \in Player
    OBVIOUS
  <2>1. R.participants[e] \in Player BY DEF BattleRoom
  <2> QED BY <2>1 DEF Player
<1>2. ASSUME NEW e \in Entry, P[e] # NoPlayer
      PROVE  /\ R.participants[e] # NoPlayer /\ R.participants[e].score \in Nat
             /\ P[e].score = R.participants[e].score /\ P[e].hasAnsweredCurrent = FALSE
  <2>1. R.participants[e] # NoPlayer BY <1>2
  <2>2. R.participants[e] \in Player BY <2>1 DEF BattleRoom
  <2> QED BY <2>1, <2>2 DEF Player
<1> DEFINE M == [R EXCEPT !.currentQuestionIndex = R.currentQuestionIndex + 1]
<1>3. N = [M EXCEPT !.participants = P] BY DEF Advance
<1>4. /\ M \in BattleRoom /\ M.currentQuestionIndex = R.currentQuestionIndex + 1
      /\ M.status = R.status /\ R.currentQuestionIndex \in Nat
  BY DEF BattleRoom
<1> HIDE DEF M, N, P
<1>5. N.participants = P /\ N.status = R.status
  BY <1>3, <1>4 DEF BattleRoom
<1>6. /\ N \in BattleRoom /\ N.currentQuestionIndex = R.currentQuestionIndex + 1
      /\ R.currentQuestionIndex \in Nat /\ NQ \in Nat
  BY <1>1, <1>3, <1>4, ConstantsAssumption DEF BattleRoom
<1>7. ASSUME NEW e \in Entry, NEW k \in Nat, Within(R, e, k), N.participants[e] # NoPlayer
      PROVE  /\ N.participants[e].score + 10 * k <= 10 * Chances(N, e)
             /\ N.participants[e].score <= 10 * NQ
  <2>1. /\ R.participants[e] # NoPlayer /\ R.participants[e].score \in Nat
        /\ N.participants[e].score = R.participants[e].score
        /\ N.participants[e].hasAnsweredCurrent = FALSE
    BY <1>2, <1>5, <1>7
  <2>2. Chances(N, e) = R.currentQuestionIndex + 1 BY <1>6, <2>1 DEF Chances
  <2>3. Chances(R, e) \in Nat /\ Chances(R, e) <= R.currentQuestionIndex + 1 BY <1>6 DEF Chances
  <2>4. /\ R.participants[e].score + 10 * k <= 10 * Chances(R, e)
        /\ R.participants[e].score <= 10 * NQ
    BY <1>7, <2>1 DEF Within
  <2> QED BY <1>6, <2>1, <2>2, <2>3, <2>4
<1>8. \A e \in Entry, k \in Nat : Within(R, e, k) => Within(N, e, k) BY <1>7 DEF Within
<1> QED BY <1>5, <1>6, <1>8 DEF Follows, Begun, N

LEMMA StatusFollows ==
    ASSUME NEW R \in BattleRoom, NEW status \in {"playing", "finished"},
           status = "playing" => R.status = "waiting"
    PROVE  Follows(R, [R EXCEPT !.status = status]) /\ [R EXCEPT !.status = status].status = status
<1> DEFINE N == [R EXCEPT !.status = status]
<1>1. /\ N \in BattleRoom /\ N.status = status /\ N.participants = R.participants
      /\ N.currentQuestionIndex = R.currentQuestionIndex
  BY DEF BattleRoom
<1> HIDE DEF N
<1>2. \A e \in Entry : N.participants[e] = R.participants[e] /\ Chances(N, e) = Chances(R, e)
  BY <1>1 DEF Chances
<1>3. \A e \in Entry, k \in Nat : Within(R, e, k) => Within(N, e, k) BY <1>2 DEF Within
<1> QED BY <1>1, <1>3 DEF Follows, Begun, N

\* Marking an answer spends one that was under way; no question is marked that the
\* test does not have.
LEMMA ScoredIs ==
    ASSUME NEW R \in BattleRoom, NEW e \in Entry, NEW right \in BOOLEAN
    PROVE  LET N == Scored(R, e, right)
           IN /\ N \in BattleRoom /\ N.status = R.status
              /\ \A f \in Entry \ {e}, k \in Nat : Within(R, f, k) => Within(N, f, k)
              /\ \A k \in Nat : Within(R, e, k + 1) => Within(N, e, k)
<1> DEFINE N == Scored(R, e, right)
<1> DEFINE p == [R.participants[e] EXCEPT !.score = R.participants[e].score + 10]
<1>1. R.currentQuestionIndex \in Nat /\ NQ \in Nat BY ConstantsAssumption DEF BattleRoom
<1>2. R.participants[e] # NoPlayer => R.participants[e] \in Player BY DEF BattleRoom
<1>3. CASE right /\ R.currentQuestionIndex < NQ /\ R.participants[e] # NoPlayer
  <2>1. R.participants[e] \in Player BY <1>2, <1>3
  <2>2. /\ p \in Player /\ p.hasAnsweredCurrent = R.participants[e].hasAnsweredCurrent
        /\ R.participants[e].score \in Nat /\ p.score = R.participants[e].score + 10
    BY <2>1 DEF Player
  <2>3. N = Put(R, e, p) BY <1>3 DEF Scored, Put
  <2> HIDE DEF p, N
  <2>4. /\ N \in BattleRoom /\ N.status = R.status
        /\ N.currentQuestionIndex = R.currentQuestionIndex /\ N.participants[e] = p
        /\ \A f \in Entry \ {e} : N.participants[f] = R.participants[f]
    BY <2>2, <2>3, PutFields
  <2>5. \A f \in Entry \ {e}, k \in Nat : Within(R, f, k) => Within(N, f, k)
    BY <2>4 DEF Within, Chances
  <2>6. ASSUME NEW k \in Nat, Within(R, e, k + 1) PROVE Within(N, e, k)
    <3>1. Chances(N, e) = Chances(R, e) BY <2>2, <2>4 DEF Chances
    <3>2. Chances(R, e) \in Nat /\ Chances(R, e) <= R.currentQuestionIndex + 1 BY <1>1 DEF Chances
    <3>3. R.participants[e].score + 10 * (k + 1) <= 10 * Chances(R, e) BY <1>3, <2>6 DEF Within
    <3>4. p.score + 10 * k <= 10 * Chances(R, e) BY <2>2, <3>2, <3>3
    <3>5. p.score <= 10 * NQ BY <1>1, <1>3, <2>2, <3>2, <3>4
    <3> QED BY <2>4, <3>1, <3>4, <3>5 DEF Within
  <2> QED BY <2>4, <2>5, <2>6 DEF N
<1>4. CASE ~(right /\ R.currentQuestionIndex < NQ /\ R.participants[e] # NoPlayer)
  <2>1. N = R BY <1>4 DEF Scored
  <2>2. ASSUME NEW k \in Nat, Within(R, e, k + 1) PROVE Within(R, e, k)
    <3> SUFFICES ASSUME R.participants[e] # NoPlayer
                 PROVE  /\ R.participants[e].score + 10 * k <= 10 * Chances(R, e)
                        /\ R.participants[e].score <= 10 * NQ
      BY DEF Within
    <3>1. R.participants[e].score \in Nat BY <1>2 DEF Player
    <3>2. Chances(R, e) \in Nat BY <1>1 DEF Chances
    <3>3. /\ R.participants[e].score + 10 * (k + 1) <= 10 * Chances(R, e)
          /\ R.participants[e].score <= 10 * NQ
      BY <2>2 DEF Within
    <3> QED BY <3>1, <3>2, <3>3
  <2> QED BY <2>1, <2>2
<1> QED BY <1>3, <1>4

-----------------------------------------------------------------------------
(* ArenaBattle: the answers under way *)

LEMMA PendingFinite ==
    ASSUME NEW b, NEW e
    PROVE  IsFiniteSet(Pending(b, e)) /\ Cardinality(Pending(b, e)) \in Nat
<1>1. Pending(b, e) \subseteq Calls BY DEF Pending
<1>2. IsFiniteSet(Pending(b, e)) BY <1>1, ConstantsAssumption, FS_Subset
<1> QED BY <1>2, FS_CardinalityType

\* Nothing is under way before a battle begins.
LEMMA PendingBegun ==
    ASSUME Inv, NEW b \in Battles, NEW e \in Entry, ~Begun(battle[b])
    PROVE  Cardinality(Pending(b, e)) = 0
<1>1. Pending(b, e) = {} BY DEF Inv, PointsSound, Pending
<1> QED BY <1>1, FS_EmptySet

\* A call ends.
LEMMA CallEnds ==
    ASSUME Inv, NEW c \in Calls, answers[c] # NoCall, answers' = [answers EXCEPT ![c] = NoCall]
    PROVE  /\ \A b \in Battles, e \in Entry :
                IF b = answers[c].battle /\ e = answers[c].by
                THEN Cardinality(Pending(b, e)) = Cardinality(Pending(b, e)') + 1
                ELSE Pending(b, e)' = Pending(b, e)
           /\ answers' \in [Calls -> Answer \cup {NoCall}]
           /\ \A d \in Calls : answers'[d] = answers[d] \/ answers'[d] = NoCall
<1>1. answers \in [Calls -> Answer \cup {NoCall}] BY DEF Inv, TypeOK
<1>2. answers'[c] = NoCall /\ \A d \in Calls \ {c} : answers'[d] = answers[d] BY <1>1
<1>3. ASSUME NEW b \in Battles, NEW e \in Entry, b = answers[c].battle, e = answers[c].by
      PROVE  Cardinality(Pending(b, e)) = Cardinality(Pending(b, e)') + 1
  <2> DEFINE S == Pending(b, e)
  <2>1. IsFiniteSet(S) /\ Cardinality(S) \in Nat BY PendingFinite
  <2>4. c \in S BY <1>3 DEF Pending
  <2>2. Pending(b, e)' = S \ {c} BY <1>2 DEF Pending
  <2>3. Cardinality(S \ {c}) = Cardinality(S) - 1 BY <2>1, <2>4, FS_RemoveElement
  <2> QED BY <2>1, <2>2, <2>3
<1>4. ASSUME NEW b \in Battles, NEW e \in Entry, ~(b = answers[c].battle /\ e = answers[c].by)
      PROVE  Pending(b, e)' = Pending(b, e)
  BY <1>2, <1>4 DEF Pending
<1> QED BY <1>1, <1>2, <1>3, <1>4

\* One battle changes, and only in such a way.
LEMMA OneChanges ==
    ASSUME TypeOK, NEW b \in Battles, NEW N, Follows(battle[b], N),
           battle' = [battle EXCEPT ![b] = N]
    PROVE  /\ battle' \in [Battles -> BattleRoom]
           /\ battle'[b] = N
           /\ \A a \in Battles : Follows(battle[a], battle'[a])
<1>1. battle \in [Battles -> BattleRoom] BY DEF TypeOK
<1>2. N \in BattleRoom BY DEF Follows
<1>3. battle' \in [Battles -> BattleRoom] /\ battle'[b] = N BY <1>1, <1>2
<1>4. ASSUME NEW a \in Battles PROVE Follows(battle[a], battle'[a])
  <2>1. CASE a = b BY <1>3, <2>1
  <2>2. CASE a # b
    <3>1. battle'[a] = battle[a] /\ battle[a] \in BattleRoom BY <1>1, <2>2
    <3> QED BY <3>1, FollowsSelf
  <2> QED BY <2>1, <2>2
<1> QED BY <1>3, <1>4

-----------------------------------------------------------------------------
(* ArenaBattle: what keeps the invariant *)

\* Steps that leave the answers alone
LEMMA PointsKept ==
    ASSUME Inv, \A b \in Battles : Follows(battle[b], battle'[b]), answers' = answers
    PROVE  PointsSound'
<1>1. ASSUME NEW b \in Battles, NEW e \in Entry
      PROVE  Within(battle'[b], e, Cardinality(Pending(b, e)'))
  <2> DEFINE k == Cardinality(Pending(b, e))
  <2>1. k \in Nat BY PendingFinite
  <2>5. Pending(b, e)' = Pending(b, e) BY DEF Pending
  <2>2. Begun(battle[b]) \/ k = 0 BY PendingBegun
  <2>3. Within(battle[b], e, k) BY DEF Inv, PointsSound
  <2>4. Within(battle'[b], e, k) BY <2>1, <2>2, <2>3 DEF Follows
  <2> QED BY <2>4, <2>5
<1>2. ASSUME NEW c \in Calls, answers'[c] # NoCall PROVE Begun(battle'[answers'[c].battle])
  <2>1. answers[c] \in Answer /\ answers'[c] = answers[c] BY <1>2 DEF Inv, TypeOK
  <2>2. answers[c].battle \in Battles BY <2>1 DEF Answer
  <2> QED BY <1>2, <2>1, <2>2 DEF Inv, PointsSound, Follows
<1> QED BY <1>1, <1>2 DEF PointsSound, Begun, Within, Chances

\* A call ends, and may mark its answer in its battle first.
LEMMA PointsMarked ==
    ASSUME Inv, NEW c \in Calls, answers[c] # NoCall, NEW right \in BOOLEAN, NEW N,
           Follows(Scored(battle[answers[c].battle], answers[c].by, right), N),
           battle' = [battle EXCEPT ![answers[c].battle] = N],
           answers' = [answers EXCEPT ![c] = NoCall]
    PROVE  /\ PointsSound'
           /\ battle' \in [Battles -> BattleRoom] /\ answers' \in [Calls -> Answer \cup {NoCall}]
           /\ battle'[answers[c].battle] = N
           /\ \A b \in Battles : battle[b].status = "finished" => battle'[b].status = "finished"
<1> DEFINE a == answers[c].battle
           e == answers[c].by
           M == Scored(battle[a], e, right)
<1>1. answers[c] \in Answer /\ battle \in [Battles -> BattleRoom] BY DEF Inv, TypeOK
<1>2. a \in Battles /\ e \in Entry BY <1>1 DEF Answer
<1>3. battle[a] \in BattleRoom BY <1>1, <1>2
<1>4. /\ M \in BattleRoom /\ M.status = battle[a].status
      /\ \A f \in Entry \ {e}, k \in Nat : Within(battle[a], f, k) => Within(M, f, k)
      /\ \A k \in Nat : Within(battle[a], e, k + 1) => Within(M, e, k)
  BY <1>2, <1>3, ScoredIs
<1>5. /\ \A b \in Battles, f \in Entry :
           IF b = a /\ f = e THEN Cardinality(Pending(b, f)) = Cardinality(Pending(b, f)') + 1
           ELSE Pending(b, f)' = Pending(b, f)
      /\ answers' \in [Calls -> Answer \cup {NoCall}]
      /\ \A d \in Calls : answers'[d] = answers[d] \/ answers'[d] = NoCall
  BY CallEnds
<1>6. Begun(battle[a]) BY DEF Inv, PointsSound
<1>7. Follows(M, N) /\ battle' = [battle EXCEPT ![a] = N] OBVIOUS
<1> HIDE DEF a, e, M
<1>8. /\ Begun(M) /\ N \in BattleRoom /\ Begun(N)
      /\ \A f \in Entry, k \in Nat : Within(M, f, k) => Within(N, f, k)
      /\ battle[a].status = "finished" => N.status = "finished"
  BY <1>4, <1>6, <1>7 DEF Follows, Begun
<1>9. /\ battle' \in [Battles -> BattleRoom] /\ battle'[a] = N
      /\ \A b \in Battles \ {a} : battle'[b] = battle[b]
  BY <1>1, <1>2, <1>7, <1>8
<1>10. ASSUME NEW b \in Battles, NEW f \in Entry
       PROVE  Within(battle'[b], f, Cardinality(Pending(b, f)'))
  <2>1. Within(battle[b], f, Cardinality(Pending(b, f))) BY DEF Inv, PointsSound
  <2>2. CASE b # a
    <3>1. Pending(b, f)' = Pending(b, f) /\ battle'[b] = battle[b] BY <1>5, <1>9, <2>2
    <3> QED BY <2>1, <3>1
  <2>3. CASE b = a /\ f # e
    <3>1. Pending(b, f)' = Pending(b, f) BY <1>5, <2>3
    <3>2. Cardinality(Pending(b, f)) \in Nat BY PendingFinite
    <3>3. Within(N, f, Cardinality(Pending(b, f))) BY <1>4, <1>8, <2>1, <2>3, <3>2
    <3> QED BY <1>9, <2>3, <3>1, <3>3
  <2>4. CASE b = a /\ f = e
    <3>1. Cardinality(Pending(b, f)) = Cardinality(Pending(b, f)') + 1 BY <1>5, <2>4
    <3>2. Pending(b, f)' \subseteq Pending(b, f) BY <1>5 DEF Pending
    <3>3. IsFiniteSet(Pending(b, f)') BY <3>2, PendingFinite, FS_Subset
    <3>4. Cardinality(Pending(b, f)') \in Nat BY <3>3, FS_CardinalityType
    <3>5. Within(battle[a], e, Cardinality(Pending(b, f)') + 1) BY <2>1, <2>4, <3>1
    <3>6. Within(M, e, Cardinality(Pending(b, f)')) BY <1>4, <3>4, <3>5
    <3>7. Within(N, e, Cardinality(Pending(b, f)')) BY <1>2, <1>8, <3>4, <3>6
    <3> QED BY <1>9, <2>4, <3>7
  <2> QED BY <2>2, <2>3, <2>4
<1>11. ASSUME NEW d \in Calls, answers'[d] # NoCall PROVE Begun(battle'[answers'[d].battle])
  <2>1. answers'[d] = answers[d] /\ answers[d] \in Answer BY <1>5, <1>11 DEF Inv, TypeOK
  <2>2. answers[d].battle \in Battles /\ Begun(battle[answers[d].battle])
    BY <1>11, <2>1 DEF Answer, Inv, PointsSound
  <2>3. Begun(battle'[answers[d].battle]) BY <1>8, <1>9, <2>2
  <2> QED BY <2>1, <2>3
<1>12. PointsSound' BY <1>10, <1>11 DEF PointsSound, Begun, Within, Chances
<1>13. \A b \in Battles : battle[b].status = "finished" => battle'[b].status = "finished"
  BY <1>8, <1>9
<1> QED BY <1>5, <1>9, <1>12, <1>13 DEF a

\* Steps that leave the history alone
LEMMA BattlesKeep ==
    ASSUME Inv, TypeOK', PointsSound',
           \A b \in Battles : battle[b].status = "finished" => battle'[b].status = "finished",
           UNCHANGED <<saving, history>>
    PROVE  Inv'
<1>1. ASSUME NEW b \in Battles
      PROVE  Records(b)' <= 1 /\ (battle'[b].status # "finished" => Records(b)' = 0)
  <2>1. Records(b)' = Records(b) BY DEF Records
  <2> QED BY <2>1 DEF Inv
<1> QED BY <1>1 DEF Inv

LEMMA FollowsKeep ==
    ASSUME Inv, TypeOK', \A b \in Battles : Follows(battle[b], battle'[b]),
           UNCHANGED <<answers, saving, history>>
    PROVE  Inv'
<1>1. PointsSound' BY PointsKept
<1>2. \A b \in Battles : battle[b].status = "finished" => battle'[b].status = "finished"
  BY DEF Follows
<1> QED BY <1>1, <1>2, BattlesKeep

\* Steps that only save, or delete, what a battle has left to the history
LEMMA RecordsKeep ==
    ASSUME Inv, TypeOK', UNCHANGED <<battle, answers>>,
           \A b \in Battles : Records(b)' <= Records(b)
    PROVE  Inv'
<1>1. \A b \in Battles : Records(b) \in Nat /\ Records(b)' \in Nat
  <2> SUFFICES ASSUME NEW b \in Battles PROVE Records(b) \in Nat /\ Records(b)' \in Nat
    OBVIOUS
  <2>1. saving[b].find \in Nat /\ saving[b].save \in Nat /\ history[b] \in Nat BY DEF Inv, TypeOK
  <2>2. saving'[b].find \in Nat /\ saving'[b].save \in Nat /\ history'[b] \in Nat BY DEF TypeOK
  <2> QED BY <2>1, <2>2 DEF Records
<1>2. ASSUME NEW b \in Battles
      PROVE  Records(b)' <= 1 /\ (battle'[b].status # "finished" => Records(b)' = 0)
  <2>1. Records(b) <= 1 /\ (battle[b].status # "finished" => Records(b) = 0) BY DEF Inv
  <2> QED BY <1>1, <2>1
<1>3. \A b \in Battles : Follows(battle[b], battle'[b]) BY FollowsSelf DEF Inv, TypeOK
<1>4. PointsSound' BY <1>3, PointsKept
<1> QED BY <1>2, <1>4 DEF Inv

\* A battle that had not finished finishes and leaves one lookup behind.
LEMMA FinishKeeps ==
    ASSUME Inv, NEW b \in Battles, battle[b].status # "finished", battle'[b].status = "finished",
           battle' \in [Battles -> BattleRoom], answers' \in [Calls -> Answer \cup {NoCall}],
           \A a \in Battles : battle[a].status = "finished" => battle'[a].status = "finished",
           PointsSound', StartSave(b), timer' = timer \cup {b},
           UNCHANGED <<conn, known, active, history, test>>
    PROVE  Inv'
<1>1. TypeOK BY DEF Inv
<1>2. saving \in [Battles -> [find : Nat, save : Nat]] BY <1>1 DEF TypeOK
<1>3. /\ saving' \in [Battles -> [find : Nat, save : Nat]]
      /\ saving'[b].find = saving[b].find + 1 /\ saving'[b].save = saving[b].save
      /\ \A a \in Battles \ {b} : saving'[a] = saving[a]
  BY <1>2 DEF StartSave
<1>4. TypeOK' BY <1>1, <1>3 DEF TypeOK
<1>5. ASSUME NEW a \in Battles
      PROVE  Records(a)' <= 1 /\ (battle'[a].status # "finished" => Records(a)' = 0)
  <2>1. CASE a = b
    <3>1. Records(b) = 0 BY DEF Inv
    <3>2. saving[b].find \in Nat /\ saving[b].save \in Nat /\ history[b] \in Nat BY <1>1, <1>2 DEF TypeOK
    <3>3. saving[b].find = 0 /\ saving[b].save = 0 /\ history[b] = 0 BY <3>1, <3>2 DEF Records
    <3>4. saving'[b].find = 1 /\ saving'[b].save = 0 /\ history'[b] = 0 BY <1>3, <3>3
    <3>5. Records(b)' = 1 BY <3>4 DEF Records
    <3> QED BY <2>1, <3>5
  <2>2. CASE a # b
    <3>1. Records(a)' = Records(a) BY <1>3, <2>2 DEF Records
    <3> QED BY <3>1 DEF Inv
  <2> QED BY <2>1, <2>2
<1> QED BY <1>4, <1>5 DEF Inv

-----------------------------------------------------------------------------
(* ArenaBattle: one lemma per handler *)

LEMMA UnbornType ==
    /\ Unborn \in BattleRoom
    /\ Unborn.status = "none" /\ Unborn.currentQuestionIndex = 0
    /\ \A e \in Entry : Unborn.participants[e] = NoPlayer
BY DEF Unborn, BattleRoom

LEMMA NewPlayerType == NewPlayer \in Player
BY DEF NewPlayer, Player

LEMMA InitInv == Init => Inv
<1> SUFFICES ASSUME Init PROVE Inv OBVIOUS
<1>1. TypeOK BY UnbornType DEF Init, TypeOK
<1>2. ASSUME NEW c \in Calls PROVE answers[c] = NoCall BY DEF Init
<1>3. ASSUME NEW b \in Battles, NEW e \in Entry PROVE battle[b].participants[e] = NoPlayer
  BY UnbornType DEF Init
<1>4. ASSUME NEW b \in Battles PROVE Records(b) = 0
  <2>1. saving[b].find = 0 /\ saving[b].save = 0 /\ history[b] = 0 BY DEF Init
  <2> QED BY <2>1 DEF Records
<1>5. PointsSound BY <1>2, <1>3 DEF PointsSound, Within
<1> QED BY <1>1, <1>4, <1>5 DEF Inv

LEMMA CreateBattleKeeps ==
    ASSUME Inv, NEW s \in Sockets, NEW b \in Battles, CreateBattle(s, b)
    PROVE  Inv'
<1> DEFINE e == [sock |-> s, as |-> "account"]
           U == [hostId |-> UserOf[s], status |-> "waiting", currentQuestionIndex |-> 0,
                 participants |-> Unborn.participants]
           N == [hostId |-> UserOf[s], status |-> "waiting", currentQuestionIndex |-> 0,
                 participants |-> [Unborn.participants EXCEPT ![e] = NewPlayer]]
<1>1. e \in Entry BY DEF Entry
<1>2. UserOf[s] \in Accounts BY ConstantsAssumption
<1>3. /\ U \in BattleRoom /\ U.status = "waiting" /\ \A f \in Entry : U.participants[f] = NoPlayer
  BY <1>2, UnbornType DEF BattleRoom
<1>4. N = Put(U, e, NewPlayer) BY DEF Put
<1>5. battle[b] = Unborn /\ battle' = [battle EXCEPT ![b] = N] BY DEF CreateBattle
<1> HIDE DEF e, U, N
<1>6. ~Begun(U) BY <1>3 DEF Begun
<1>7. Follows(U, N) BY <1>1, <1>3, <1>4, <1>6, NewPlayerType, PutFollows
<1>8. Follows(Unborn, U) BY <1>3, UnbornType DEF Follows, Begun, Within
<1>9. Follows(battle[b], N) BY <1>5, <1>7, <1>8, FollowsTwice
<1>10. TypeOK BY DEF Inv
<1>11. battle' \in [Battles -> BattleRoom] /\ \A a \in Battles : Follows(battle[a], battle'[a])
  BY <1>5, <1>9, <1>10, OneChanges
<1>12. TypeOK' BY <1>10, <1>11 DEF TypeOK, CreateBattle
<1> QED BY <1>11, <1>12, FollowsKeep DEF CreateBattle

LEMMA JoinBattleKeeps ==
    ASSUME Inv, NEW s \in Sockets, NEW b \in Battles, JoinBattle(s, b)
    PROVE  Inv'
<1>1. TypeOK /\ battle[b] \in BattleRoom BY DEF Inv, TypeOK
<1>2. EntryOf(s) \in Entry BY DEF EntryOf, Entry
<1>3. battle' = [battle EXCEPT ![b] = Put(battle[b], EntryOf(s), NewPlayer)] BY DEF JoinBattle, Put
<1>4. ~Begun(battle[b]) BY DEF JoinBattle, Begun
<1>5. Follows(battle[b], Put(battle[b], EntryOf(s), NewPlayer))
  BY <1>1, <1>2, <1>4, NewPlayerType, PutFollows
<1>6. battle' \in [Battles -> BattleRoom] /\ \A a \in Battles : Follows(battle[a], battle'[a])
  BY <1>1, <1>3, <1>5, OneChanges
<1>7. TypeOK' BY <1>1, <1>6 DEF TypeOK, JoinBattle
<1> QED BY <1>6, <1>7, FollowsKeep DEF JoinBattle

LEMMA WithoutEntryFollows ==
    ASSUME NEW R \in BattleRoom, NEW e \in Entry
    PROVE  Follows(R, WithoutEntry(R, e))
<1>1. WithoutEntry(R, e) = Put(R, e, NoPlayer) BY DEF WithoutEntry, Put
<1>2. Follows(R, Put(R, e, NoPlayer)) BY PutFollows
<1> QED BY <1>1, <1>2

LEMMA EntryLeaves ==
    ASSUME Inv, NEW b \in Battles, NEW e \in Entry,
           battle' = [battle EXCEPT ![b] = WithoutEntry(battle[b], e)]
    PROVE  battle' \in [Battles -> BattleRoom] /\ \A a \in Battles : Follows(battle[a], battle'[a])
<1>1. TypeOK /\ battle[b] \in BattleRoom BY DEF Inv, TypeOK
<1>2. Follows(battle[b], WithoutEntry(battle[b], e)) BY <1>1, WithoutEntryFollows
<1> QED BY <1>1, <1>2, OneChanges

LEMMA LeaveBattleKeeps ==
    ASSUME Inv, NEW s \in Sockets, NEW b \in Battles, LeaveBattle(s, b)
    PROVE  Inv'
<1>1. PICK e \in Entry : battle' = [battle EXCEPT ![b] = WithoutEntry(battle[b], e)]
  BY DEF LeaveBattle
<1>2. battle' \in [Battles -> BattleRoom] /\ \A a \in Battles : Follows(battle[a], battle'[a])
  BY <1>1, EntryLeaves
<1>3. TypeOK' BY <1>2 DEF Inv, TypeOK, LeaveBattle
<1> QED BY <1>2, <1>3, FollowsKeep DEF LeaveBattle

LEMMA HandleDisconnectKeeps ==
    ASSUME Inv, NEW s \in Sockets, HandleDisconnect(s)
    PROVE  Inv'
<1>1. TypeOK BY DEF Inv
<1>2. battle' \in [Battles -> BattleRoom] /\ \A a \in Battles : Follows(battle[a], battle'[a])
  <2>1. CASE UNCHANGED battle BY <1>1, <2>1, FollowsSelf DEF TypeOK
  <2>2. ASSUME NEW b \in active, NEW e \in Entry,
               battle' = [battle EXCEPT ![b] = WithoutEntry(battle[b], e)]
        PROVE  battle' \in [Battles -> BattleRoom] /\ \A a \in Battles : Follows(battle[a], battle'[a])
    <3>1. b \in Battles BY <1>1 DEF TypeOK
    <3> QED BY <2>2, <3>1, EntryLeaves
  <2> QED BY <2>1, <2>2 DEF HandleDisconnect
<1>3. TypeOK' BY <1>1, <1>2 DEF TypeOK, HandleDisconnect
<1> QED BY <1>2, <1>3, FollowsKeep DEF HandleDisconnect

LEMMA HandleConnectionKeeps ==
    ASSUME Inv, NEW s \in Sockets, HandleConnection(s)
    PROVE  Inv'
<1>1. TypeOK /\ TypeOK' BY DEF Inv, TypeOK, HandleConnection
<1>2. \A b \in Battles : Follows(battle[b], battle'[b])
  BY <1>1, FollowsSelf DEF TypeOK, HandleConnection
<1> QED BY <1>1, <1>2, FollowsKeep DEF HandleConnection

LEMMA StartBattleKeeps ==
    ASSUME Inv, NEW s \in Sockets, NEW b \in Battles, StartBattle(s, b)
    PROVE  Inv'
<1>1. TypeOK /\ battle[b] \in BattleRoom BY DEF Inv, TypeOK
<1>2. battle[b].status = "waiting" BY DEF StartBattle
<1>3. Follows(battle[b], [battle[b] EXCEPT !.status = "playing"]) BY <1>1, <1>2, StatusFollows
<1>4. battle' = [battle EXCEPT ![b] = [battle[b] EXCEPT !.status = "playing"]] BY DEF StartBattle
<1>5. battle' \in [Battles -> BattleRoom] /\ \A a \in Battles : Follows(battle[a], battle'[a])
  BY <1>1, <1>3, <1>4, OneChanges
<1>6. TypeOK' BY <1>1, <1>5 DEF TypeOK, StartBattle
<1> QED BY <1>5, <1>6, FollowsKeep DEF StartBattle

LEMMA NextQuestionKeeps ==
    ASSUME Inv, NEW s \in Sockets, NEW b \in Battles, NextQuestion(s, b)
    PROVE  Inv'
<1>1. TypeOK /\ battle[b] \in BattleRoom BY DEF Inv, TypeOK
<1>2. battle' = [battle EXCEPT ![b] = Advance(battle[b])] BY DEF NextQuestion
<1>3. Follows(battle[b], Advance(battle[b])) BY <1>1, AdvanceFollows
<1>4. battle' \in [Battles -> BattleRoom] /\ \A a \in Battles : Follows(battle[a], battle'[a])
  BY <1>1, <1>2, <1>3, OneChanges
<1>5. TypeOK' BY <1>1, <1>4 DEF TypeOK, NextQuestion
<1> QED BY <1>4, <1>5, FollowsKeep DEF NextQuestion

LEMMA EndBattleKeeps ==
    ASSUME Inv, NEW s \in Sockets, NEW b \in Battles, EndBattle(s, b)
    PROVE  Inv'
<1> DEFINE N == [battle[b] EXCEPT !.status = "finished"]
<1>1. TypeOK /\ battle[b] \in BattleRoom /\ answers' \in [Calls -> Answer \cup {NoCall}]
  BY DEF Inv, TypeOK, EndBattle
<1>2. Follows(battle[b], N) /\ N.status = "finished" BY <1>1, StatusFollows
<1>3. battle[b].status # "finished" BY DEF EndBattle, Ends
<1>4. battle' = [battle EXCEPT ![b] = N] BY DEF EndBattle
<1> HIDE DEF N
<1>5. /\ battle' \in [Battles -> BattleRoom] /\ battle'[b] = N
      /\ \A a \in Battles : Follows(battle[a], battle'[a])
  BY <1>1, <1>2, <1>4, OneChanges
<1>6. answers' = answers /\ StartSave(b) /\ timer' = timer \cup {b}
        /\ UNCHANGED <<conn, known, active, history, test>>
  BY DEF EndBattle
<1>7. PointsSound' BY <1>5, <1>6, PointsKept
<1>8. \A a \in Battles : battle[a].status = "finished" => battle'[a].status = "finished"
  BY <1>5 DEF Follows
<1> QED BY <1>1, <1>2, <1>3, <1>5, <1>6, <1>7, <1>8, FinishKeeps

\* One more answer is under way, and one chance more has been used.
LEMMA SubmitAnswerKeeps ==
    ASSUME Inv, NEW s \in Sockets, NEW b \in Battles, NEW c \in Calls, SubmitAnswer(s, b, c)
    PROVE  Inv'
<1>1. PICK e \in Entry :
        /\ IsFirst(e, s, b) /\ ~battle[b].participants[e].hasAnsweredCurrent
        /\ battle' = [battle EXCEPT ![b].participants[e].hasAnsweredCurrent = TRUE]
        /\ answers' = [answers EXCEPT ![c] = [battle |-> b, by |-> e]]
  BY DEF SubmitAnswer
<1> DEFINE R == battle[b]
           p == [R.participants[e] EXCEPT !.hasAnsweredCurrent = TRUE]
           a == [battle |-> b, by |-> e]
           N == Put(R, e, p)
<1>2. TypeOK /\ R \in BattleRoom BY DEF Inv, TypeOK
<1>3. R.status = "playing" /\ R.participants[e] # NoPlayer
  BY <1>1 DEF SubmitAnswer, IsFirst, EntriesOf, Playing
<1>4. R.participants[e] \in Player BY <1>2, <1>3 DEF BattleRoom
<1>5. p \in Player /\ p.hasAnsweredCurrent /\ p.score = R.participants[e].score
        /\ p.score \in Nat
  BY <1>4 DEF Player
<1>6. battle' = [battle EXCEPT ![b] = N] BY <1>1 DEF Put
<1>7. /\ answers[c] = NoCall /\ answers' = [answers EXCEPT ![c] = a]
      /\ UNCHANGED <<conn, known, active, saving, history, timer, test>>
  BY <1>1 DEF SubmitAnswer
<1>8. a \in Answer /\ a.battle = b /\ a.by = e BY DEF Answer
<1>9. ~R.participants[e].hasAnsweredCurrent BY <1>1
<1> HIDE DEF p, a
<1>10. /\ N \in BattleRoom /\ N.status = R.status
       /\ N.currentQuestionIndex = R.currentQuestionIndex /\ N.participants[e] = p
       /\ \A f \in Entry \ {e} : N.participants[f] = R.participants[f]
  BY <1>2, <1>5, PutFields
<1> HIDE DEF N
<1>11. battle \in [Battles -> BattleRoom] /\ answers \in [Calls -> Answer \cup {NoCall}]
  BY <1>2 DEF TypeOK
<1>12. /\ battle' \in [Battles -> BattleRoom] /\ battle'[b] = N
       /\ \A d \in Battles \ {b} : battle'[d] = battle[d]
  BY <1>6, <1>10, <1>11
<1>13. /\ answers' \in [Calls -> Answer \cup {NoCall}] /\ answers'[c] = a
       /\ \A d \in Calls \ {c} : answers'[d] = answers[d]
  BY <1>7, <1>8, <1>11
<1>14. TypeOK' BY <1>2, <1>7, <1>12, <1>13 DEF TypeOK
<1>15. ASSUME NEW d \in Battles, NEW f \in Entry
       PROVE  Within(battle'[d], f, Cardinality(Pending(d, f)'))
  <2> DEFINE k == Cardinality(Pending(d, f))
  <2>1. Within(battle[d], f, k) BY DEF Inv, PointsSound
  <2>2. CASE d # b
    <3>1. Pending(d, f)' = Pending(d, f) BY <1>7, <1>8, <1>13, <2>2 DEF Pending
    <3> QED BY <1>12, <2>1, <2>2, <3>1
  <2>3. CASE d = b /\ f # e
    <3>1. Pending(d, f)' = Pending(d, f) BY <1>7, <1>8, <1>13, <2>3 DEF Pending
    <3>2. Within(N, f, k) BY <1>10, <2>1, <2>3 DEF Within, Chances
    <3> QED BY <1>12, <2>3, <3>1, <3>2
  <2>4. CASE d = b /\ f = e
    <3>1. IsFiniteSet(Pending(d, f)) /\ k \in Nat BY PendingFinite
    <3>2. Pending(d, f)' \subseteq Pending(d, f) \cup {c} BY <1>13 DEF Pending
    <3> DEFINE S == Pending(d, f)
    <3>12. /\ IsFiniteSet(S \cup {c})
           /\ Cardinality(S \cup {c}) = IF c \in S THEN Cardinality(S) ELSE Cardinality(S) + 1
      <4> HIDE DEF S
      <4> QED BY <3>1, FS_AddElement DEF S
    <3>3. /\ IsFiniteSet(Pending(d, f) \cup {c}) /\ Cardinality(Pending(d, f) \cup {c}) \in Nat
          /\ Cardinality(Pending(d, f) \cup {c}) <= k + 1
      BY <3>1, <3>12
    <3>4. IsFiniteSet(Pending(d, f)') /\ Cardinality(Pending(d, f)') \in Nat
      BY <3>2, <3>3, FS_Subset, FS_CardinalityType
    <3>5. Cardinality(Pending(d, f)') <= Cardinality(Pending(d, f) \cup {c})
      BY <3>2, <3>3, FS_Subset
    <3> DEFINE n == Cardinality(Pending(d, f)')
    <3>6. n \in Nat /\ n <= k + 1 BY <3>1, <3>3, <3>4, <3>5
    <3>7. R.currentQuestionIndex \in Nat BY <1>2 DEF BattleRoom
    <3>8. Chances(N, e) = R.currentQuestionIndex + 1 BY <1>5, <1>10 DEF Chances
    <3>9. /\ R.participants[e].score + 10 * k <= 10 * R.currentQuestionIndex
          /\ R.participants[e].score <= 10 * NQ
      BY <1>3, <1>9, <2>1, <2>4, <3>7 DEF Within, Chances
    <3> HIDE DEF k, n
    <3>10. p.score + 10 * n <= 10 * Chances(N, e) BY <1>5, <3>1, <3>6, <3>7, <3>8, <3>9
    <3>11. Within(N, e, n) BY <1>5, <1>10, <3>9, <3>10 DEF Within
    <3> QED BY <1>12, <2>4, <3>11 DEF n
  <2> QED BY <2>2, <2>3, <2>4
<1>16. ASSUME NEW d \in Calls, answers'[d] # NoCall PROVE Begun(battle'[answers'[d].battle])
  <2>1. CASE d = c BY <1>3, <1>8, <1>10, <1>12, <1>13, <2>1 DEF Begun
  <2>2. CASE d # c
    <3>1. answers'[d] = answers[d] /\ answers[d] \in Answer BY <1>11, <1>13, <1>16, <2>2
    <3>2. answers[d].battle \in Battles /\ Begun(battle[answers[d].battle])
      BY <1>16, <3>1 DEF Answer, Inv, PointsSound
    <3>3. Begun(battle'[answers[d].battle]) BY <1>10, <1>12, <3>2 DEF Begun
    <3> QED BY <3>1, <3>3
  <2> QED BY <2>1, <2>2
<1>17. PointsSound' BY <1>15, <1>16 DEF PointsSound, Begun, Within, Chances
<1>18. \A d \in Battles : battle[d].status = "finished" => battle'[d].status = "finished"
  BY <1>10, <1>12
<1> QED BY <1>7, <1>14, <1>17, <1>18, BattlesKeep

LEMMA MarkAnswerKeeps ==
    ASSUME Inv, NEW c \in Calls, NEW right \in BOOLEAN, MarkAnswer(c, right)
    PROVE  Inv'
<1> DEFINE b == answers[c].battle
           e == answers[c].by
           R == Scored(battle[b], e, right)
<1>1. TypeOK /\ answers \in [Calls -> Answer \cup {NoCall}] BY DEF Inv, TypeOK
<1>2. answers[c] \in Answer /\ answers[c] # NoCall BY <1>1 DEF MarkAnswer
<1>3. b \in Battles /\ e \in Entry BY <1>2 DEF Answer
<1>4. battle[b] \in BattleRoom BY <1>1, <1>3 DEF TypeOK
<1>5. /\ answers' = [answers EXCEPT ![c] = NoCall]
      /\ UNCHANGED <<conn, known, active, history, test>>
  BY DEF MarkAnswer
<1>6. \/ /\ battle' = [battle EXCEPT ![b] = Advance(R)]
         /\ UNCHANGED <<saving, timer>>
      \/ /\ Ends(e.sock, b)
         /\ battle' = [battle EXCEPT ![b] = [R EXCEPT !.status = "finished"]]
         /\ StartSave(b)
         /\ timer' = timer \cup {b}
      \/ /\ battle' = [battle EXCEPT ![b] = R]
         /\ UNCHANGED <<saving, timer>>
  BY DEF MarkAnswer
<1>7. R \in BattleRoom BY <1>3, <1>4, ScoredIs
<1>8. ASSUME NEW N, Follows(R, N), battle' = [battle EXCEPT ![b] = N]
      PROVE  /\ PointsSound'
             /\ battle' \in [Battles -> BattleRoom] /\ answers' \in [Calls -> Answer \cup {NoCall}]
             /\ battle'[b] = N
             /\ \A d \in Battles : battle[d].status = "finished" => battle'[d].status = "finished"
  BY <1>2, <1>5, <1>8, PointsMarked
<1> HIDE DEF b, e, R
<1>9. ASSUME NEW N, Follows(R, N), battle' = [battle EXCEPT ![b] = N], UNCHANGED <<saving, timer>>
      PROVE  Inv'
  <2>1. /\ PointsSound'
        /\ battle' \in [Battles -> BattleRoom] /\ answers' \in [Calls -> Answer \cup {NoCall}]
        /\ \A d \in Battles : battle[d].status = "finished" => battle'[d].status = "finished"
    BY <1>8, <1>9
  <2>2. TypeOK' BY <1>1, <1>5, <1>9, <2>1 DEF TypeOK
  <2> QED BY <1>5, <1>9, <2>1, <2>2, BattlesKeep
<1>10. CASE battle' = [battle EXCEPT ![b] = Advance(R)] /\ UNCHANGED <<saving, timer>>
  BY <1>7, <1>9, <1>10, AdvanceFollows
<1>11. CASE battle' = [battle EXCEPT ![b] = R] /\ UNCHANGED <<saving, timer>>
  BY <1>7, <1>9, <1>11, FollowsSelf
<1>12. CASE /\ Ends(e.sock, b) /\ battle' = [battle EXCEPT ![b] = [R EXCEPT !.status = "finished"]]
            /\ StartSave(b) /\ timer' = timer \cup {b}
  <2> DEFINE N == [R EXCEPT !.status = "finished"]
  <2>1. battle[b].status # "finished" BY <1>12 DEF Ends
  <2>2. Follows(R, N) /\ N.status = "finished" BY <1>7, StatusFollows
  <2>3. battle' = [battle EXCEPT ![b] = N] BY <1>12
  <2> HIDE DEF N
  <2>4. /\ PointsSound'
        /\ battle' \in [Battles -> BattleRoom] /\ answers' \in [Calls -> Answer \cup {NoCall}]
        /\ battle'[b] = N
        /\ \A d \in Battles : battle[d].status = "finished" => battle'[d].status = "finished"
    BY <1>8, <2>2, <2>3
  <2> QED BY <1>3, <1>5, <1>12, <2>1, <2>2, <2>4, FinishKeeps
<1> QED BY <1>6, <1>10, <1>11, <1>12

\* An answer that is not marked is one that is marked wrong, but for the index.
LEMMA MarkFailsKeeps ==
    ASSUME Inv, NEW c \in Calls, MarkFails(c)
    PROVE  Inv'
<1> DEFINE b == answers[c].battle
<1>1. TypeOK /\ answers[c] # NoCall /\ answers[c] \in Answer BY DEF Inv, TypeOK, MarkFails
<1>2. b \in Battles BY <1>1 DEF Answer
<1>3. battle[b] \in BattleRoom /\ battle \in [Battles -> BattleRoom] BY <1>1, <1>2 DEF TypeOK
<1>4. Scored(battle[b], answers[c].by, FALSE) = battle[b] BY DEF Scored
<1>5. Follows(Scored(battle[b], answers[c].by, FALSE), battle[b]) BY <1>3, <1>4, FollowsSelf
<1>6. battle' = [battle EXCEPT ![b] = battle[b]] /\ answers' = [answers EXCEPT ![c] = NoCall]
  BY <1>3 DEF MarkFails
<1>7. /\ PointsSound' /\ answers' \in [Calls -> Answer \cup {NoCall}]
      /\ \A d \in Battles : battle[d].status = "finished" => battle'[d].status = "finished"
  BY <1>1, <1>5, <1>6, PointsMarked
<1>8. TypeOK' BY <1>1, <1>7 DEF TypeOK, MarkFails
<1> QED BY <1>7, <1>8, BattlesKeep DEF MarkFails

\* The steps of saveBattleHistory turn a lookup into at most one save, and a save
\* into at most one document.
LEMMA SavingType ==
    ASSUME TypeOK, NEW b \in Battles
    PROVE  saving[b] \in [find : Nat, save : Nat] /\ history[b] \in Nat
BY DEF TypeOK

LEMMA HistoryLookupKeeps ==
    ASSUME Inv, NEW b \in Battles, HistoryLookup(b)
    PROVE  Inv'
<1> DEFINE n == [find |-> saving[b].find - 1,
                 save |-> IF history[b] > 0 THEN saving[b].save ELSE saving[b].save + 1]
<1>1. TypeOK BY DEF Inv
<1>2. saving[b].find > 0 /\ saving' = [saving EXCEPT ![b] = n] BY DEF HistoryLookup
<1>3. saving[b].find \in Nat /\ saving[b].save \in Nat /\ history[b] \in Nat BY <1>1, SavingType
<1>4. n \in [find : Nat, save : Nat] /\ n.find + n.save <= saving[b].find + saving[b].save
  BY <1>2, <1>3
<1> HIDE DEF n
<1>5. saving \in [Battles -> [find : Nat, save : Nat]] BY <1>1 DEF TypeOK
<1>6. /\ saving' \in [Battles -> [find : Nat, save : Nat]] /\ saving'[b] = n
      /\ \A a \in Battles \ {b} : saving'[a] = saving[a]
  BY <1>2, <1>4, <1>5
<1>7. TypeOK' BY <1>1, <1>6 DEF TypeOK, HistoryLookup
<1>8. ASSUME NEW a \in Battles PROVE Records(a)' <= Records(a)
  <2>1. history'[a] = history[a] /\ history[a] \in Nat /\ saving[a] \in [find : Nat, save : Nat]
        /\ saving'[a] \in [find : Nat, save : Nat]
    BY <1>1, <1>6, SavingType DEF HistoryLookup
  <2>2. saving'[a].find + saving'[a].save <= saving[a].find + saving[a].save
    BY <1>3, <1>4, <1>6, <2>1
  <2> QED BY <2>1, <2>2 DEF Records
<1> QED BY <1>7, <1>8, RecordsKeep DEF HistoryLookup

LEMMA SaveEndsKeeps ==
    ASSUME Inv, NEW b \in Battles, HistorySaved(b) \/ HistoryFails(b)
    PROVE  Inv'
<1>1. TypeOK BY DEF Inv
<1>2. /\ saving[b].save > 0 /\ saving' = [saving EXCEPT ![b].save = saving[b].save - 1]
      /\ UNCHANGED <<conn, known, battle, active, answers, timer, test>>
      /\ \/ history' = [history EXCEPT ![b] = history[b] + 1]
         \/ history' = history
  BY DEF HistorySaved, HistoryFails
<1>3. saving \in [Battles -> [find : Nat, save : Nat]] /\ history \in [Battles -> Nat]
  BY <1>1 DEF TypeOK
<1>4. saving[b].save \in Nat /\ saving[b].save - 1 \in Nat BY <1>1, <1>2, SavingType
<1>5. /\ saving' \in [Battles -> [find : Nat, save : Nat]]
      /\ saving'[b].find = saving[b].find /\ saving'[b].save = saving[b].save - 1
      /\ \A a \in Battles \ {b} : saving'[a] = saving[a]
  BY <1>2, <1>3, <1>4
<1>6. /\ history' \in [Battles -> Nat] /\ history'[b] <= history[b] + 1
      /\ \A a \in Battles \ {b} : history'[a] = history[a]
  BY <1>2, <1>3
<1>7. TypeOK' BY <1>1, <1>2, <1>5, <1>6 DEF TypeOK
<1>8. ASSUME NEW a \in Battles PROVE Records(a)' <= Records(a)
  <2>1. /\ saving[a].find \in Nat /\ saving[a].save \in Nat /\ history[a] \in Nat
        /\ saving'[a].find \in Nat /\ saving'[a].save \in Nat /\ history'[a] \in Nat
    BY <1>3, <1>5, <1>6
  <2>2. CASE a = b BY <1>5, <1>6, <2>1, <2>2 DEF Records
  <2>3. CASE a # b
    <3>1. saving'[a] = saving[a] /\ history'[a] = history[a] BY <1>5, <1>6, <2>3
    <3> QED BY <2>1, <3>1 DEF Records
  <2> QED BY <2>2, <2>3
<1> QED BY <1>2, <1>7, <1>8, RecordsKeep

LEMMA HousekeepingKeeps ==
    ASSUME Inv,
           \/ \E b \in Battles : RemoveActiveBattle(b)
           \/ DeleteTestHistories \/ DeleteTestBattles \/ DeleteTestDocument
    PROVE  Inv'
<1>1. TypeOK BY DEF Inv
<1>2. TypeOK' BY <1>1
      DEF TypeOK, RemoveActiveBattle, DeleteTestHistories, DeleteTestBattles, DeleteTestDocument
<1>3. UNCHANGED <<battle, answers, saving>>
  BY DEF RemoveActiveBattle, DeleteTestHistories, DeleteTestBattles, DeleteTestDocument
<1>4. ASSUME NEW b \in Battles PROVE Records(b)' <= Records(b)
  <2>1. /\ saving[b].find \in Nat /\ saving[b].save \in Nat /\ history[b] \in Nat
    BY <1>1, SavingType
  <2>2. history'[b] = history[b] \/ history'[b] = 0
    BY DEF RemoveActiveBattle, DeleteTestHistories, DeleteTestBattles, DeleteTestDocument
  <2> QED BY <1>3, <2>1, <2>2 DEF Records
<1> QED BY <1>2, <1>3, <1>4, RecordsKeep

-----------------------------------------------------------------------------
LEMMA NextKeeps ==
    ASSUME Inv, [Next]_vars
    PROVE  Inv'
<1>1. CASE \E s \in Sockets : HandleConnection(s) \/ HandleDisconnect(s)
  BY <1>1, HandleConnectionKeeps, HandleDisconnectKeeps
<1>2. ASSUME NEW s \in Sockets, NEW b \in Battles,
             \/ CreateBattle(s, b) \/ JoinBattle(s, b) \/ LeaveBattle(s, b)
             \/ StartBattle(s, b) \/ NextQuestion(s, b) \/ EndBattle(s, b)
             \/ \E c \in Calls : SubmitAnswer(s, b, c)
      PROVE  Inv'
  BY <1>2, CreateBattleKeeps, JoinBattleKeeps, LeaveBattleKeeps, StartBattleKeeps,
     NextQuestionKeeps, EndBattleKeeps, SubmitAnswerKeeps
<1>3. ASSUME NEW c \in Calls, MarkFails(c) \/ \E right \in BOOLEAN : MarkAnswer(c, right)
      PROVE  Inv'
  BY <1>3, MarkFailsKeeps, MarkAnswerKeeps
<1>4. ASSUME NEW b \in Battles,
             HistoryLookup(b) \/ HistorySaved(b) \/ HistoryFails(b) \/ RemoveActiveBattle(b)
      PROVE  Inv'
  BY <1>4, HistoryLookupKeeps, SaveEndsKeeps, HousekeepingKeeps
<1>5. CASE DeleteTestHistories \/ DeleteTestBattles \/ DeleteTestDocument
  BY <1>5, HousekeepingKeeps
<1>6. CASE UNCHANGED vars
  <2>1. TypeOK' /\ \A b \in Battles : Records(b)' <= Records(b)
    <3>1. TypeOK BY DEF Inv
    <3>2. TypeOK' BY <1>6, <3>1 DEF TypeOK, vars
    <3>3. ASSUME NEW b \in Battles PROVE Records(b)' <= Records(b)
      <4>1. /\ saving[b].find \in Nat /\ saving[b].save \in Nat /\ history[b] \in Nat
        BY <3>1, SavingType
      <4> QED BY <1>6, <4>1 DEF Records, vars
    <3> QED BY <3>2, <3>3
  <2> QED BY <1>6, <2>1, RecordsKeep DEF vars
<1> QED BY <1>1, <1>2, <1>3, <1>4, <1>5, <1>6 DEF Next, Handlers, Background

LEMMA Invariance == Spec => []Inv
BY InitInv, NextKeeps, PTL DEF Spec

-----------------------------------------------------------------------------
(* ArenaBattle: the theorems *)

\* The type invariant
THEOREM TypeCorrect == Spec => []TypeOK
<1>1. Inv => TypeOK BY DEF Inv
<1> QED BY <1>1, Invariance, PTL

\* However submit_answer, its late continuations, next_question, joins under two ids
\* and departures interleave, no listed participant has more points than the
\* questions asked, and those of the test, are worth.
THEOREM PointsCorrect == Spec => []PointsOfQuestions
<1>1. Inv => PointsOfQuestions
  <2> SUFFICES ASSUME Inv, NEW b \in Battles, NEW e \in Playing(b)
               PROVE  /\ battle[b].participants[e].score <= 10 * (battle[b].currentQuestionIndex + 1)
                      /\ battle[b].participants[e].score <= 10 * NQ
    BY DEF PointsOfQuestions
  <2> DEFINE R == battle[b]
             k == Cardinality(Pending(b, e))
  <2>1. e \in Entry /\ R.participants[e] # NoPlayer /\ R \in BattleRoom
    BY DEF Playing, Inv, TypeOK
  <2>2. R.participants[e].score \in Nat /\ R.currentQuestionIndex \in Nat
    <3>1. R.participants[e] \in Player BY <2>1 DEF BattleRoom
    <3> QED BY <2>1, <3>1 DEF BattleRoom, Player
  <2>3. Within(R, e, k) /\ k \in Nat BY <2>1, PendingFinite DEF Inv, PointsSound
  <2>4. Chances(R, e) \in Nat /\ Chances(R, e) <= R.currentQuestionIndex + 1 BY <2>2 DEF Chances
  <2>5. /\ R.participants[e].score + 10 * k <= 10 * Chances(R, e)
        /\ R.participants[e].score <= 10 * NQ
    BY <2>1, <2>3 DEF Within
  <2> HIDE DEF R, k
  <2>6. R.participants[e].score <= 10 * (R.currentQuestionIndex + 1) BY <2>2, <2>3, <2>4, <2>5
  <2> QED BY <2>5, <2>6 DEF R
<1> QED BY <1>1, Invariance, PTL

\* A battle that is ended by its host, by players and by any number of late answers
\* leaves at most one document in the history.
THEOREM HistoryOnceCorrect == Spec => []HistoryOnce
<1>1. Inv => HistoryOnce
  <2> SUFFICES ASSUME Inv, NEW b \in Battles PROVE history[b] + saving[b].save <= 1
    BY DEF HistoryOnce
  <2>1. saving[b].find \in Nat /\ saving[b].save \in Nat /\ history[b] \in Nat
    BY SavingType DEF Inv
  <2>2. Records(b) <= 1 BY DEF Inv
  <2> QED BY <2>1, <2>2 DEF Records
<1> QED BY <1>1, Invariance, PTL

-----------------------------------------------------------------------------
(* Flashcards: the inductive invariant *)

NoProgress == \A u \in Users, e \in Editions : ~progress[u][e].there

\* While no review and deletion have been raced for: what is reviewed is there, and
\* there is no progress where a deletion has passed.
Learned ==
    /\ \A r, q \in Requests : ~(req[r].op = "review" /\ req[q].op = "delete")
    /\ \A r \in Requests : req[r].op = "review" => There
    /\ \A r \in Requests : req[r].op = "delete" =>
         req[r].at \in {"cleanup", "drop"} /\ (req[r].at = "drop" => NoProgress)
    /\ deck.state = "gone" => NoProgress

JoinsSome(r) == req[r].op \in {"joinDeck", "joinFolder"}

\* While nothing has been raced for among members: who joins is no member yet, once at
\* a time; and a copy of the members that would still be stored is the current array
\* without who leaves, nobody updating the deck through its folder meanwhile.
Own ==
    /\ \A r, q \in Requests : ~(req[r].op = "leaveDeck" /\ req[q].op \in OfFolder)
    /\ \A r, q \in Requests : JoinsSome(r) /\ JoinsSome(q) /\ req[r].user = req[q].user => r = q
    /\ \A r \in Requests :
         /\ req[r].op = "joinDeck" => deck.members[req[r].user] = 0
         /\ req[r].op = "joinFolder" /\ req[r].at = "save" => folder.members[req[r].user] = 0
         /\ req[r].op = "leaveDeck" /\ req[r].fresh =>
              req[r].members = Without(deck.members, req[r].user)
         /\ req[r].op = "leaveFolder" /\ req[r].at = "save" /\ req[r].fresh =>
              req[r].members = Without(folder.members, req[r].user)

CardsInv ==
    /\ CardsTypeOK
    /\ "progress" \notin raced => Learned
    /\ "members" \notin raced => Own

-----------------------------------------------------------------------------
(* Flashcards: what a step of a request may do *)

\* r goes on as what it was, or ends; the others are as they were, or stale.
GoesOn(r) ==
    /\ \A q \in Requests \ {r} :
         /\ req'[q].op = req[q].op /\ req'[q].at = req[q].at /\ req'[q].user = req[q].user
         /\ req'[q].members = req[q].members
         /\ req'[q].fresh => req[q].fresh
    /\ \/ req'[r].op = "idle"
       \/ /\ req'[r].op = req[r].op /\ req'[r].user = req[r].user /\ req'[r].members = req[r].members
          /\ req'[r].fresh => req[r].fresh
          /\ req'[r].op \in OfFolder /\ req'[r].at = "save" => req[r].at = "save"

\* Only a review adds progress; only a deletion that has removed it ends the deck.
Learns(r) ==
    /\ \/ deck'.state = deck.state
       \/ deck.state = "new" /\ deck'.state = "there"
       \/ deck'.state = "gone" /\ req[r].op = "delete" /\ req[r].at = "drop"
    /\ req[r].op # "review" => (NoProgress => NoProgress')
    /\ req'[r].op = "delete" => req'[r].at = "drop" /\ NoProgress'

\* A step that changes members changes who it is about, and either makes the copies of
\* the others stale or goes through the folder of the deck.
DeckMembers(r) ==
    \/ deck'.members = deck.members
    \/ /\ \A u \in Users \ {req[r].user} : deck'.members[u] = deck.members[u]
       /\ req'[r] # req[r]
       /\ \/ JoinsSome(r) /\ deck'.members[req[r].user] = 1 /\ req'[r].op = "idle"
          \/ req[r].op \in {"leaveDeck", "leaveFolder"} /\ deck'.members[req[r].user] = 0
       /\ \/ req[r].op \in OfFolder
          \/ req'[r].op = "idle" /\ \A q \in Requests \ {r} : req[q].op \in OfDeck => ~req'[q].fresh
FolderMembers(r) ==
    \/ folder'.members = folder.members
    \/ /\ \A u \in Users \ {req[r].user} : folder'.members[u] = folder.members[u]
       /\ req'[r] # req[r]
       /\ \/ req[r].op = "joinFolder" /\ folder'.members[req[r].user] = 1 /\ req'[r].at = "cleanup"
          \/ req[r].op = "leaveFolder" /\ folder'.members[req[r].user] = 0 /\ req'[r].at = "find"
       /\ \A q \in Requests \ {r} : req[q].op \in OfFolder => ~req'[q].fresh

StepOf(r) ==
    /\ CardsTypeOK' /\ raced' = raced
    /\ GoesOn(r) /\ Learns(r)
    /\ "members" \notin raced => DeckMembers(r) /\ FolderMembers(r)

LEMMA LearnedKept ==
    ASSUME Learned, NEW r \in Requests, GoesOn(r), Learns(r)
    PROVE  Learned'
<1>1. \A q \in Requests : req'[q].op = "review" => req[q].op = "review" BY DEF GoesOn
<1>2. \A q \in Requests : req'[q].op = "delete" => req[q].op = "delete" BY DEF GoesOn
<1>3. \A p, q \in Requests : ~(req'[p].op = "review" /\ req'[q].op = "delete")
  BY <1>1, <1>2 DEF Learned
<1>4. ASSUME NEW q \in Requests, req'[q].op = "review" PROVE There'
  <2>1. req[q].op = "review" /\ There BY <1>1, <1>4 DEF Learned
  <2>2. req[r].op # "delete" BY <2>1 DEF Learned
  <2> QED BY <2>1, <2>2 DEF Learns, There
<1>5. ASSUME NEW q \in Requests, req'[q].op = "delete"
      PROVE  req'[q].at \in {"cleanup", "drop"} /\ (req'[q].at = "drop" => NoProgress')
  <2>1. CASE q = r BY <1>5, <2>1 DEF Learns
  <2>2. CASE q # r
    <3>1. req[q].op = "delete" /\ req'[q].at = req[q].at BY <1>5, <2>2 DEF GoesOn
    <3>2. req[r].op # "review" BY <3>1 DEF Learned
    <3> QED BY <3>1, <3>2 DEF Learned, Learns
  <2> QED BY <2>1, <2>2
<1>6. ASSUME deck'.state = "gone" PROVE NoProgress'
  <2>1. CASE deck.state = "gone"
    <3>1. req[r].op # "review" BY <2>1 DEF Learned, There
    <3> QED BY <2>1, <3>1 DEF Learned, Learns
  <2>2. CASE req[r].op = "delete" /\ req[r].at = "drop" BY <2>2 DEF Learned, Learns
  <2> QED BY <1>6, <2>1, <2>2 DEF Learns
<1> QED BY <1>3, <1>4, <1>5, <1>6 DEF Learned

LEMMA WithoutIs ==
    ASSUME NEW m \in Members, NEW u \in Users
    PROVE  /\ Without(m, u) \in Members
           /\ Without(m, u)[u] = 0
           /\ \A v \in Users \ {u} : Without(m, u)[v] = m[v]
BY DEF Without, Members

LEMMA OwnKept ==
    ASSUME CardsTypeOK, CardsTypeOK', Own, NEW r \in Requests, GoesOn(r), DeckMembers(r), FolderMembers(r)
    PROVE  Own'
<1>1. /\ \A q \in Requests : req[q].user \in Users
      /\ deck.members \in Members /\ deck'.members \in Members
      /\ folder.members \in Members /\ folder'.members \in Members
  BY DEF CardsTypeOK, Request, Deck, Folder
<1>2. \A q \in Requests : req'[q].op = "idle" \/ (req'[q].op = req[q].op /\ req'[q].user = req[q].user)
  BY DEF GoesOn
<1>3. \A p, q \in Requests : ~(req'[p].op = "leaveDeck" /\ req'[q].op \in OfFolder)
  BY <1>2 DEF Own, OfFolder
<1>4. \A p, q \in Requests :
        req'[p].op \in {"joinDeck", "joinFolder"} /\ req'[q].op \in {"joinDeck", "joinFolder"}
          /\ req'[p].user = req'[q].user => p = q
  BY <1>2 DEF Own, JoinsSome
<1>5. ASSUME NEW q \in Requests, req'[q].op = "joinDeck" PROVE deck'.members[req'[q].user] = 0
  <2>1. req[q].op = "joinDeck" /\ req'[q].user = req[q].user /\ deck.members[req[q].user] = 0
    BY <1>2, <1>5 DEF Own
  <2>2. CASE deck'.members = deck.members BY <2>1, <2>2
  <2>3. CASE req[q].user # req[r].user BY <1>1, <2>1, <2>3 DEF DeckMembers
  <2>4. CASE req[q].user = req[r].user /\ ~JoinsSome(r)
    BY <2>1, <2>2, <2>4 DEF DeckMembers
  <2>5. CASE req[q].user = req[r].user /\ JoinsSome(r)
    <3>1. q = r BY <2>1, <2>5 DEF Own, JoinsSome
    <3> QED BY <1>5, <2>1, <2>2, <3>1 DEF DeckMembers
  <2> QED BY <2>3, <2>4, <2>5
<1>6. ASSUME NEW q \in Requests, req'[q].op = "joinFolder", req'[q].at = "save"
      PROVE  folder'.members[req'[q].user] = 0
  <2>1. /\ req[q].op = "joinFolder" /\ req'[q].user = req[q].user /\ req[q].at = "save"
        /\ folder.members[req[q].user] = 0
    BY <1>6 DEF Own, GoesOn, OfFolder
  <2>2. CASE folder'.members = folder.members BY <2>1, <2>2
  <2>3. CASE req[q].user # req[r].user BY <1>1, <2>1, <2>3 DEF FolderMembers
  <2>4. CASE req[q].user = req[r].user /\ req[r].op # "joinFolder"
    BY <2>1, <2>2, <2>4 DEF FolderMembers
  <2>5. CASE req[q].user = req[r].user /\ req[r].op = "joinFolder"
    <3>1. q = r BY <2>1, <2>5 DEF Own, JoinsSome
    <3> QED BY <1>6, <2>1, <2>2, <3>1 DEF FolderMembers
  <2> QED BY <2>3, <2>4, <2>5
<1>7. ASSUME NEW q \in Requests, req'[q].op = "leaveDeck", req'[q].fresh
      PROVE  req'[q].members = Without(deck'.members, req'[q].user)
  <2>1. /\ req[q].op = "leaveDeck" /\ req'[q].user = req[q].user /\ req'[q].members = req[q].members
        /\ req[q].fresh /\ req[q].members = Without(deck.members, req[q].user)
    BY <1>7 DEF Own, GoesOn
  <2>2. req[r].op \notin OfFolder BY <2>1 DEF Own
  <2>3. deck'.members = deck.members BY <1>7, <2>1, <2>2 DEF DeckMembers, OfDeck
  <2> QED BY <2>1, <2>3
<1>8. ASSUME NEW q \in Requests, req'[q].op = "leaveFolder", req'[q].at = "save", req'[q].fresh
      PROVE  req'[q].members = Without(folder'.members, req'[q].user)
  <2>1. /\ req[q].op = "leaveFolder" /\ req'[q].user = req[q].user /\ req'[q].members = req[q].members
        /\ req[q].at = "save" /\ req[q].fresh
        /\ req[q].members = Without(folder.members, req[q].user)
    BY <1>8 DEF Own, GoesOn, OfFolder
  <2>2. folder'.members = folder.members BY <1>8, <2>1 DEF FolderMembers, OfFolder
  <2> QED BY <2>1, <2>2
<1> QED BY <1>3, <1>4, <1>5, <1>6, <1>7, <1>8 DEF Own, JoinsSome, Without

LEMMA StepKeeps ==
    ASSUME CardsInv, NEW r \in Requests, StepOf(r)
    PROVE  CardsInv'
<1>2. "progress" \notin raced' => Learned' BY LearnedKept DEF CardsInv, StepOf
<1>3. "members" \notin raced' => Own' BY OwnKept DEF CardsInv, StepOf
<1> QED BY <1>2, <1>3 DEF CardsInv, StepOf

-----------------------------------------------------------------------------
(* Flashcards: requests *)

LEMMA CardsFacts ==
    ASSUME CardsInv
    PROVE  /\ deck \in Deck /\ slug \in Slugs \cup {NoSlug} /\ folder \in Folder
           /\ progress \in [Users -> [Editions -> Row]] /\ reviews \in 0 .. MaxReviews
           /\ req \in [Requests -> Request] /\ raced \subseteq Topics
           /\ \A r \in Requests : /\ req[r].user \in Users /\ req[r].edition \in Editions
                                  /\ req[r].members \in Members
BY DEF CardsInv, CardsTypeOK, Request

LEMMA NoRowIs == NoRow \in Row /\ ~NoRow.there
BY DEF NoRow, Row

LEMMA CardsIdle ==
    Idle \in Request /\ Idle.op = "idle" /\ Idle.fresh = FALSE
<1>1. Nobody \in Members BY DEF Nobody, Members
<1>2. 1 \in Editions BY CardsAssumption DEF Editions
<1> QED BY <1>1, <1>2, NoRowIs, CardsAssumption DEF Idle, Request, Ops, Stages

\* r's request becomes v; the others are as they were, or stale.
Becomes(r, v) ==
    /\ req' \in [Requests -> Request] /\ req'[r] = v
    /\ \A q \in Requests \ {r} :
         /\ req'[q].op = req[q].op /\ req'[q].at = req[q].at /\ req'[q].user = req[q].user
         /\ req'[q].members = req[q].members
         /\ req'[q].fresh => req[q].fresh

LEMMA BecomesOne ==
    ASSUME CardsInv, NEW r \in Requests, NEW v \in Request, req' = [req EXCEPT ![r] = v]
    PROVE  Becomes(r, v)
BY CardsFacts DEF Becomes

LEMMA DoneBecomes ==
    ASSUME CardsInv, NEW r \in Requests, Done(r)
    PROVE  Becomes(r, Idle) /\ Idle.op = "idle"
<1>1. Idle \in Request /\ Idle.op = "idle" BY CardsFacts, CardsIdle
<1>2. req' = [req EXCEPT ![r] = Idle] BY DEF Done
<1> QED BY <1>1, <1>2, BecomesOne

LEMMA GotoBecomes ==
    ASSUME CardsInv, NEW r \in Requests, NEW at \in Stages, Goto(r, at)
    PROVE  /\ Becomes(r, req'[r])
           /\ req'[r].op = req[r].op /\ req'[r].at = at /\ req'[r].user = req[r].user
           /\ req'[r].members = req[r].members /\ req'[r].fresh = req[r].fresh
<1> DEFINE v == [req[r] EXCEPT !.at = at]
<1>1. req[r] \in Request /\ req \in [Requests -> Request] BY CardsFacts
<1>2. /\ v \in Request /\ v.op = req[r].op /\ v.at = at /\ v.user = req[r].user
      /\ v.members = req[r].members /\ v.fresh = req[r].fresh
  BY <1>1 DEF Request
<1>3. req' = [req EXCEPT ![r] = v] BY <1>1 DEF Goto
<1> HIDE DEF v
<1>4. Becomes(r, v) /\ req'[r] = v BY <1>1, <1>2, <1>3, BecomesOne
<1> QED BY <1>2, <1>4

LEMMA RaisingBecomes ==
    ASSUME CardsInv, NEW r \in Requests, NEW ops, NEW v \in Request, Raising(r, ops, v)
    PROVE  /\ Becomes(r, v)
           /\ \A q \in Requests \ {r} : req[q].op \in ops => ~req'[q].fresh
<1> DEFINE stale(q) == [req[q] EXCEPT !.fresh = FALSE]
<1>1. req \in [Requests -> Request] BY CardsFacts
<1>2. \A q \in Requests : /\ stale(q) \in Request /\ stale(q).op = req[q].op /\ stale(q).at = req[q].at
                          /\ stale(q).user = req[q].user /\ stale(q).members = req[q].members
                          /\ stale(q).fresh = FALSE
  BY <1>1 DEF Request
<1>3. req' = [q \in Requests |-> IF q = r THEN v ELSE IF req[q].op \in ops THEN stale(q) ELSE req[q]]
  BY DEF Raising
<1> HIDE DEF stale
<1>4. req' \in [Requests -> Request] BY <1>1, <1>2, <1>3
<1>5. \A q \in Requests : req'[q] = IF q = r THEN v ELSE IF req[q].op \in ops THEN stale(q) ELSE req[q]
  BY <1>3
<1> QED BY <1>2, <1>4, <1>5 DEF Becomes

\* A request that ends changes members or leaves them; one that goes on keeps its subject.
LEMMA BecomesGoesOn ==
    ASSUME NEW r \in Requests, NEW v, Becomes(r, v),
           \/ v.op = "idle"
           \/ /\ v.op = req[r].op /\ v.user = req[r].user /\ v.members = req[r].members
              /\ v.fresh => req[r].fresh
              /\ v.op \in OfFolder => v.at # "save"
    PROVE  GoesOn(r)
BY DEF Becomes, GoesOn

\* Steps that change neither progress nor members.
LEMMA QuietKeeps ==
    ASSUME CardsInv, NEW r \in Requests, NEW v, Becomes(r, v), GoesOn(r),
           v.op # "delete", raced' = raced,
           UNCHANGED <<progress, reviews>>, slug' \in Slugs \cup {NoSlug},
           deck' \in Deck, deck'.members = deck.members,
           \/ deck'.state = deck.state \/ (deck.state = "new" /\ deck'.state = "there")
           \/ deck'.state = "gone" /\ req[r].op = "delete" /\ req[r].at = "drop",
           folder' \in Folder, folder'.members = folder.members
    PROVE  StepOf(r)
<1>1. CardsTypeOK' BY CardsFacts DEF CardsTypeOK, Becomes
<1>2. Learns(r) BY DEF Learns, NoProgress, Becomes
<1>3. DeckMembers(r) /\ FolderMembers(r) BY DEF DeckMembers, FolderMembers
<1> QED BY <1>1, <1>2, <1>3 DEF StepOf

LEMMA DoneQuiet ==
    ASSUME CardsInv, NEW r \in Requests, Done(r),
           UNCHANGED <<deck, folder, progress, reviews, raced>>, slug' \in Slugs \cup {NoSlug}
    PROVE  StepOf(r)
<1>1. Becomes(r, Idle) /\ Idle.op = "idle" BY DoneBecomes
<1>2. GoesOn(r) BY <1>1, BecomesGoesOn
<1>3. deck' \in Deck /\ folder' \in Folder BY CardsFacts
<1> QED BY <1>1, <1>2, <1>3, QuietKeeps

LEMMA GotoQuiet ==
    ASSUME CardsInv, NEW r \in Requests, NEW at \in Stages, Goto(r, at),
           req[r].op # "delete", req[r].op \in OfFolder => at # "save",
           UNCHANGED <<progress, reviews, raced>>, slug' = slug,
           deck' \in Deck, deck'.members = deck.members, deck'.state = deck.state, folder' = folder
    PROVE  StepOf(r)
<1>1. /\ Becomes(r, req'[r]) /\ req'[r].op = req[r].op /\ req'[r].at = at
      /\ req'[r].user = req[r].user /\ req'[r].members = req[r].members /\ req'[r].fresh = req[r].fresh
  BY GotoBecomes
<1>2. GoesOn(r) BY <1>1, BecomesGoesOn
<1>3. folder' \in Folder /\ slug' \in Slugs \cup {NoSlug} BY CardsFacts
<1> QED BY <1>1, <1>2, <1>3, QuietKeeps

-----------------------------------------------------------------------------
(* Flashcards: the steps, one lemma for each group of them *)

LEMMA CutSteps ==
    ASSUME CardsInv, NEW r \in Requests, Cut(r) \/ ViewDeckSlug(r)
    PROVE  StepOf(r)
<1>1. Done(r) /\ UNCHANGED <<deck, folder, progress, reviews, raced>> /\ slug' \in Slugs \cup {NoSlug}
  BY CardsFacts DEF Cut, ViewDeckSlug, EnsureSlug
<1> QED BY <1>1, DoneQuiet

LEMMA FolderChecked ==
    ASSUME CardsInv, NEW r \in Requests, UpdateDeckFolder(r) \/ LeaveFolderFind(r)
    PROVE  StepOf(r)
<1>1. /\ UNCHANGED <<deck, slug, folder, progress, reviews, raced>>
      /\ req[r].op \in {"update", "leaveFolder"}
      /\ Done(r) \/ \E at \in {"slug", "save", "cleanup"} :
                        Goto(r, at) /\ (req[r].op = "leaveFolder" => at = "cleanup")
  BY DEF UpdateDeckFolder, LeaveFolderFind, At
<1>2. slug \in Slugs \cup {NoSlug} /\ deck \in Deck BY CardsFacts
<1>3. {"slug", "save", "cleanup"} \subseteq Stages BY DEF Stages
<1> QED BY <1>1, <1>2, <1>3, DoneQuiet, GotoQuiet DEF OfFolder

LEMMA SlugGiven ==
    ASSUME CardsInv, NEW r \in Requests, UpdateDeckSlug(r)
    PROVE  StepOf(r)
<1>1. PICK s \in Slugs : /\ slug' = EnsureSlug(s)
                         /\ req' = [req EXCEPT ![r].at = "save", ![r].slug = s]
  BY DEF UpdateDeckSlug
<1> DEFINE v == [req[r] EXCEPT !.at = "save", !.slug = s]
<1>2. req[r] \in Request /\ req \in [Requests -> Request] BY CardsFacts
<1>3. UNCHANGED <<deck, folder, progress, reviews, raced>> /\ req[r].op = "update"
  BY DEF UpdateDeckSlug, At
<1>4. /\ v \in Request /\ v.op = "update" /\ v.user = req[r].user /\ v.members = req[r].members
      /\ v.fresh = req[r].fresh
  BY <1>2, <1>3 DEF Request, Stages
<1>5. req' = [req EXCEPT ![r] = v] BY <1>1, <1>2
<1> HIDE DEF v
<1>6. Becomes(r, v) BY <1>4, <1>5, BecomesOne
<1>7. GoesOn(r) BY <1>3, <1>4, <1>6, BecomesGoesOn DEF OfFolder
<1>8. slug' \in Slugs \cup {NoSlug} /\ deck' \in Deck /\ folder' \in Folder
  BY <1>1, <1>3, CardsFacts DEF EnsureSlug
<1> QED BY <1>3, <1>4, <1>6, <1>7, <1>8, QuietKeeps

LEMMA DocumentsSaved ==
    ASSUME CardsInv, NEW r \in Requests,
           CreateDeckSave(r) \/ DeleteDeckDocument(r) \/ CreateFolderSave(r) \/ DeleteFolderDocument(r)
    PROVE  StepOf(r)
<1>1. Done(r) /\ UNCHANGED <<progress, reviews, raced>>
  BY DEF CreateDeckSave, DeleteDeckDocument, CreateFolderSave, DeleteFolderDocument
<1>2. Becomes(r, Idle) /\ Idle.op = "idle" BY <1>1, DoneBecomes
<1>3. GoesOn(r) BY <1>2, BecomesGoesOn
<1>4. deck \in Deck /\ folder \in Folder /\ slug \in Slugs \cup {NoSlug} /\ req[r] \in Request
  BY CardsFacts
<1>5. slug' \in Slugs \cup {NoSlug}
  BY <1>4 DEF CreateDeckSave, DeleteDeckDocument, CreateFolderSave, DeleteFolderDocument
<1>6. /\ deck' \in Deck /\ deck'.members = deck.members
      /\ \/ deck'.state = deck.state \/ (deck.state = "new" /\ deck'.state = "there")
         \/ deck'.state = "gone" /\ req[r].op = "delete" /\ req[r].at = "drop"
  <2>1. req[r].inFolder \in BOOLEAN BY <1>4 DEF Request
  <2>2. deck' \in {deck, [deck EXCEPT !.state = "there", !.inFolder = req[r].inFolder],
                   [deck EXCEPT !.state = "gone"]}
    BY DEF CreateDeckSave, DeleteDeckDocument, CreateFolderSave, DeleteFolderDocument
  <2>3. deck' \in Deck /\ deck'.members = deck.members BY <1>4, <2>1, <2>2 DEF Deck, States
  <2>4. CASE CreateDeckSave(r) BY <1>4, <2>3, <2>4 DEF CreateDeckSave, Deck
  <2>5. CASE DeleteDeckDocument(r) BY <1>4, <2>3, <2>5 DEF DeleteDeckDocument, Deck, At
  <2>6. CASE CreateFolderSave(r) \/ DeleteFolderDocument(r)
    BY <2>3, <2>6 DEF CreateFolderSave, DeleteFolderDocument
  <2> QED BY <2>4, <2>5, <2>6
<1>7. folder' \in Folder /\ folder'.members = folder.members
  <2>1. folder' \in {folder, [folder EXCEPT !.state = "there"], [folder EXCEPT !.state = "gone"]}
    BY DEF CreateDeckSave, DeleteDeckDocument, CreateFolderSave, DeleteFolderDocument
  <2> QED BY <1>4, <2>1 DEF Folder, States
<1> QED BY <1>1, <1>2, <1>3, <1>5, <1>6, <1>7, QuietKeeps

LEMMA DeckUpdated ==
    ASSUME CardsInv, NEW r \in Requests, UpdateDeckSave(r)
    PROVE  StepOf(r)
<1>1. UNCHANGED <<folder, progress, reviews, raced>> /\ req[r].op = "update"
  BY DEF UpdateDeckSave, At
<1>2. /\ deck \in Deck /\ folder \in Folder /\ slug \in Slugs \cup {NoSlug} /\ req[r] \in Request
  BY CardsFacts
<1>3. CASE Done(r) /\ UNCHANGED <<deck, slug>>
  BY <1>1, <1>2, <1>3, DoneQuiet
<1>4. CASE There /\ req[r].fresh /\ deck.edition < MaxEdition
  <2>1. /\ deck' = [deck EXCEPT !.inFolder = Placed(r), !.edition = @ + 1]
        /\ slug' = (IF req[r].bare THEN req[r].slug ELSE slug)
        /\ Raising(r, OfDeck, Idle)
    BY <1>4 DEF UpdateDeckSave
  <2>2. Idle \in Request /\ Idle.op = "idle" BY <1>2, CardsIdle
  <2>3. Becomes(r, Idle) BY <2>1, <2>2, RaisingBecomes
  <2>4. GoesOn(r) BY <2>2, <2>3, BecomesGoesOn
  <2>5. Placed(r) \in BOOLEAN BY <1>2 DEF Placed, Deck, Request
  <2>6. deck.edition + 1 \in 1 .. MaxEdition BY <1>2, <1>4, CardsAssumption DEF Deck
  <2>7. deck' \in Deck /\ deck'.members = deck.members /\ deck'.state = deck.state
    BY <1>2, <2>1, <2>5, <2>6 DEF Deck
  <2>8. slug' \in Slugs \cup {NoSlug} BY <1>2, <2>1 DEF Request
  <2> QED BY <1>1, <1>2, <2>2, <2>3, <2>4, <2>7, <2>8, QuietKeeps
<1> QED BY <1>3, <1>4 DEF UpdateDeckSave

LEMMA FolderEmptied ==
    ASSUME CardsInv, NEW r \in Requests, DeleteFolderDecks(r)
    PROVE  StepOf(r)
<1>1. /\ Goto(r, "drop") /\ req[r].op = "deleteFolder"
      /\ UNCHANGED <<slug, folder, progress, reviews, raced>>
  BY DEF DeleteFolderDecks, At
<1>2. deck' = [deck EXCEPT !.inFolder = FALSE] /\ deck \in Deck
  BY CardsFacts DEF DeleteFolderDecks
<1>3. deck' \in Deck /\ deck'.members = deck.members /\ deck'.state = deck.state
  BY <1>2 DEF Deck
<1>4. "drop" \in Stages BY DEF Stages
<1> QED BY <1>1, <1>3, <1>4, GotoQuiet DEF OfFolder

\* Progress that is removed.
LEMMA ProgressRemoved ==
    ASSUME CardsInv, NEW r \in Requests,
           DeleteDeckProgress(r) \/ LeaveDeckProgress(r) \/ LeaveFolderProgress(r)
    PROVE  StepOf(r)
<1>1. UNCHANGED <<deck, slug, folder, reviews, raced>>
  BY DEF DeleteDeckProgress, LeaveDeckProgress, LeaveFolderProgress
<1>2. /\ deck \in Deck /\ folder \in Folder /\ slug \in Slugs \cup {NoSlug}
      /\ progress \in [Users -> [Editions -> Row]] /\ req[r].user \in Users
  BY CardsFacts
<1>3. [e \in Editions |-> NoRow] \in [Editions -> Row] BY NoRowIs
<1>4. progress' \in [Users -> [Editions -> Row]]
  BY <1>2, <1>3 DEF DeleteDeckProgress, LeaveDeckProgress, LeaveFolderProgress
<1>5. NoProgress => NoProgress'
  BY <1>2, NoRowIs DEF DeleteDeckProgress, LeaveDeckProgress, LeaveFolderProgress, NoProgress
<1>6. {"drop", "save"} \subseteq Stages BY DEF Stages
<1>7. GoesOn(r) /\ req' \in [Requests -> Request]
      /\ (req'[r].op = "delete" => req'[r].at = "drop" /\ NoProgress')
  <2>1. CASE DeleteDeckProgress(r)
    <3>1. Goto(r, "drop") /\ req[r].op = "delete" BY <2>1 DEF DeleteDeckProgress, At
    <3>2. /\ Becomes(r, req'[r]) /\ req'[r].op = req[r].op /\ req'[r].at = "drop"
          /\ req'[r].user = req[r].user /\ req'[r].members = req[r].members /\ req'[r].fresh = req[r].fresh
      BY <1>6, <3>1, GotoBecomes
    <3>3. GoesOn(r) BY <3>2, BecomesGoesOn
    <3>4. NoProgress' BY <2>1, NoRowIs DEF DeleteDeckProgress, NoProgress
    <3> QED BY <3>2, <3>3, <3>4 DEF Becomes
  <2>2. CASE LeaveDeckProgress(r)
    <3>1. Goto(r, "save") /\ req[r].op = "leaveDeck" BY <2>2 DEF LeaveDeckProgress, At
    <3>2. /\ Becomes(r, req'[r]) /\ req'[r].op = req[r].op
          /\ req'[r].user = req[r].user /\ req'[r].members = req[r].members /\ req'[r].fresh = req[r].fresh
      BY <1>6, <3>1, GotoBecomes
    <3>3. GoesOn(r) BY <3>1, <3>2, BecomesGoesOn DEF OfFolder
    <3> QED BY <3>1, <3>2, <3>3 DEF Becomes
  <2>3. CASE LeaveFolderProgress(r)
    <3>1. Becomes(r, Idle) /\ Idle.op = "idle" BY <2>3, DoneBecomes DEF LeaveFolderProgress
    <3>2. GoesOn(r) BY <3>1, BecomesGoesOn
    <3> QED BY <3>1, <3>2 DEF Becomes
  <2> QED BY <2>1, <2>2, <2>3, <1>1, <1>2 DEF LeaveFolderProgress
<1>8. CardsTypeOK' BY <1>1, <1>4, <1>7, CardsFacts DEF CardsTypeOK
<1>9. Learns(r) BY <1>1, <1>5, <1>7 DEF Learns
<1>10. DeckMembers(r) /\ FolderMembers(r) BY <1>1 DEF DeckMembers, FolderMembers
<1> QED BY <1>1, <1>7, <1>8, <1>9, <1>10 DEF StepOf

\* A step that changes the members of the deck or of the folder.
LEMMA MembersKeep ==
    ASSUME CardsInv, NEW r \in Requests, NEW v, Becomes(r, v), GoesOn(r), v.op # "delete",
           UNCHANGED <<slug, progress, reviews, raced>>,
           deck' \in Deck, deck'.state = deck.state, folder' \in Folder,
           "members" \notin raced => DeckMembers(r) /\ FolderMembers(r)
    PROVE  StepOf(r)
<1>1. CardsTypeOK' BY CardsFacts DEF CardsTypeOK, Becomes
<1>2. Learns(r) BY DEF Learns, NoProgress, Becomes
<1> QED BY <1>1, <1>2 DEF StepOf

LEMMA WithIs ==
    ASSUME NEW m \in Members, NEW u \in Users
    PROVE  /\ With(m, u) \in Members
           /\ With(m, u)[u] = m[u] + 1
           /\ \A v \in Users \ {u} : With(m, u)[v] = m[v]
BY DEF With, Members

LEMMA DeckWith ==
    ASSUME NEW d \in Deck, NEW m \in Members
    PROVE  LET e == [d EXCEPT !.members = m]
           IN e \in Deck /\ e.members = m /\ e.state = d.state
BY DEF Deck

LEMMA FolderWith ==
    ASSUME NEW d \in Folder, NEW m \in Members
    PROVE  LET e == [d EXCEPT !.members = m]
           IN e \in Folder /\ e.members = m /\ e.state = d.state
BY DEF Folder

LEMMA DeckMembersSaved ==
    ASSUME CardsInv, NEW r \in Requests, JoinDeckSave(r) \/ LeaveDeckSave(r)
    PROVE  StepOf(r)
<1> DEFINE u == req[r].user
<1>1. UNCHANGED <<slug, folder, progress, reviews, raced>>
  BY DEF JoinDeckSave, LeaveDeckSave
<1>2. /\ deck \in Deck /\ folder \in Folder /\ slug \in Slugs \cup {NoSlug}
      /\ u \in Users /\ req[r].members \in Members /\ deck.members \in Members
      /\ Idle \in Request /\ Idle.op = "idle"
  BY CardsFacts, CardsIdle DEF Deck
<1>3. CASE Done(r) /\ UNCHANGED deck BY <1>1, <1>2, <1>3, DoneQuiet
<1>4. CASE Raising(r, OfDeck, Idle)
  <2>1. /\ Becomes(r, Idle)
        /\ \A q \in Requests \ {r} : req[q].op \in OfDeck => ~req'[q].fresh
    BY <1>2, <1>4, RaisingBecomes
  <2>2. GoesOn(r) BY <1>2, <2>1, BecomesGoesOn
  <2>3. req'[r].op = "idle" /\ req[r].op \in {"joinDeck", "leaveDeck"} /\ req'[r] # req[r]
    BY <1>2, <2>1 DEF Becomes, JoinDeckSave, LeaveDeckSave, At
  <2>4. FolderMembers(r) BY <1>1 DEF FolderMembers
  <2>5. CASE JoinDeckSave(r) /\ deck' = [deck EXCEPT !.members = With(deck.members, u)]
    <3> DEFINE m == With(deck.members, u)
    <3>1. m \in Members /\ m[u] = deck.members[u] + 1 /\ \A v \in Users \ {u} : m[v] = deck.members[v]
      BY <1>2, WithIs
    <3>2. deck' \in Deck /\ deck'.members = m /\ deck'.state = deck.state
      <4> HIDE DEF m
      <4>1. deck' = [deck EXCEPT !.members = m] BY <2>5 DEF m
      <4> QED BY <1>2, <3>1, <4>1, DeckWith
    <3>3. req[r].op = "joinDeck" BY <2>5 DEF JoinDeckSave, At
    <3>4. "members" \notin raced => deck.members[u] = 0 BY <3>3 DEF CardsInv, Own
    <3> HIDE DEF m
    <3>5. "members" \notin raced => DeckMembers(r)
      BY <2>1, <2>3, <3>1, <3>2, <3>3, <3>4 DEF DeckMembers, JoinsSome
    <3> QED BY <1>1, <1>2, <2>1, <2>2, <2>4, <3>2, <3>5, MembersKeep
  <2>6. CASE LeaveDeckSave(r) /\ req[r].fresh /\ deck' = [deck EXCEPT !.members = req[r].members]
    <3>1. deck' \in Deck /\ deck'.members = req[r].members /\ deck'.state = deck.state
      BY <1>2, <2>6, DeckWith
    <3>2. req[r].op = "leaveDeck" BY <2>6 DEF LeaveDeckSave, At
    <3>3. "members" \notin raced => req[r].members = Without(deck.members, u)
      BY <2>6, <3>2 DEF CardsInv, Own
    <3>4. "members" \notin raced =>
            deck'.members[u] = 0 /\ \A v \in Users \ {u} : deck'.members[v] = deck.members[v]
      BY <1>2, <3>1, <3>3, WithoutIs
    <3>5. "members" \notin raced => DeckMembers(r)
      BY <2>1, <2>3, <3>2, <3>4 DEF DeckMembers
    <3> QED BY <1>1, <1>2, <2>1, <2>2, <2>4, <3>1, <3>5, MembersKeep
  <2>7. CASE Done(r) /\ UNCHANGED deck BY <2>7, <1>3
  <2> QED BY <2>5, <2>6, <2>7 DEF JoinDeckSave, LeaveDeckSave
<1> QED BY <1>3, <1>4 DEF JoinDeckSave, LeaveDeckSave

LEMMA FolderJoined ==
    ASSUME CardsInv, NEW r \in Requests, JoinFolderSave(r)
    PROVE  StepOf(r)
<1> DEFINE u == req[r].user
<1> DEFINE v == [req[r] EXCEPT !.at = "cleanup"]
<1> DEFINE m == With(folder.members, u)
<1>1. /\ UNCHANGED <<deck, slug, progress, reviews, raced>>
      /\ req[r].op = "joinFolder" /\ req[r].at = "save"
  BY DEF JoinFolderSave, At
<1>2. /\ deck \in Deck /\ folder \in Folder /\ slug \in Slugs \cup {NoSlug}
      /\ u \in Users /\ folder.members \in Members /\ req[r] \in Request
  BY CardsFacts DEF Folder
<1>3. CASE Done(r) /\ UNCHANGED folder BY <1>1, <1>2, <1>3, DoneQuiet
<1>4. CASE Raising(r, OfFolder, v) /\ folder' = [folder EXCEPT !.members = m]
  <2>1. /\ v \in Request /\ v.op = "joinFolder" /\ v.at = "cleanup" /\ v.user = u
        /\ v.members = req[r].members /\ v.fresh = req[r].fresh
    BY <1>1, <1>2 DEF Request, Stages
  <2>2. m \in Members /\ m[u] = folder.members[u] + 1
        /\ \A w \in Users \ {u} : m[w] = folder.members[w]
    BY <1>2, WithIs
  <2> HIDE DEF v, m
  <2>3. /\ Becomes(r, v)
        /\ \A q \in Requests \ {r} : req[q].op \in OfFolder => ~req'[q].fresh
    BY <1>4, <2>1, RaisingBecomes
  <2>4. GoesOn(r) BY <1>1, <2>1, <2>3, BecomesGoesOn
  <2>5. folder' \in Folder /\ folder'.members = m BY <1>2, <1>4, <2>2, FolderWith
  <2>6. DeckMembers(r) BY <1>1 DEF DeckMembers
  <2>7. "members" \notin raced => folder.members[u] = 0 BY <1>1 DEF CardsInv, Own
  <2>8. req'[r].at = "cleanup" /\ req'[r] # req[r] BY <1>1, <2>1, <2>3 DEF Becomes
  <2>9. "members" \notin raced => FolderMembers(r)
    BY <1>1, <2>2, <2>3, <2>5, <2>7, <2>8 DEF FolderMembers
  <2> QED BY <1>1, <1>2, <2>1, <2>3, <2>4, <2>5, <2>6, <2>9, MembersKeep
<1> QED BY <1>3, <1>4 DEF JoinFolderSave

LEMMA FolderLeft ==
    ASSUME CardsInv, NEW r \in Requests, LeaveFolderSave(r)
    PROVE  StepOf(r)
<1> DEFINE u == req[r].user
<1> DEFINE v == [req[r] EXCEPT !.at = "find"]
<1>1. /\ UNCHANGED <<deck, slug, progress, reviews, raced>>
      /\ req[r].op = "leaveFolder" /\ req[r].at = "save"
  BY DEF LeaveFolderSave, At
<1>2. /\ deck \in Deck /\ folder \in Folder /\ slug \in Slugs \cup {NoSlug}
      /\ u \in Users /\ folder.members \in Members /\ req[r] \in Request
      /\ req[r].members \in Members /\ "find" \in Stages
  BY CardsFacts DEF Folder, Stages
<1>3. CASE Done(r) /\ UNCHANGED folder BY <1>1, <1>2, <1>3, DoneQuiet
<1>4. CASE Goto(r, "find") /\ UNCHANGED folder BY <1>1, <1>2, <1>4, GotoQuiet
<1>5. CASE /\ Raising(r, OfFolder, v) /\ folder' = [folder EXCEPT !.members = req[r].members]
           /\ req[r].fresh
  <2>1. /\ v \in Request /\ v.op = "leaveFolder" /\ v.at = "find" /\ v.user = u
        /\ v.members = req[r].members /\ v.fresh = req[r].fresh
    BY <1>1, <1>2 DEF Request, Stages
  <2> HIDE DEF v
  <2>2. /\ Becomes(r, v)
        /\ \A q \in Requests \ {r} : req[q].op \in OfFolder => ~req'[q].fresh
    BY <1>5, <2>1, RaisingBecomes
  <2>3. GoesOn(r) BY <1>1, <2>1, <2>2, BecomesGoesOn
  <2>4. folder' \in Folder /\ folder'.members = req[r].members BY <1>2, <1>5, FolderWith
  <2>5. DeckMembers(r) BY <1>1 DEF DeckMembers
  <2>6. "members" \notin raced => req[r].members = Without(folder.members, u)
    BY <1>1, <1>5 DEF CardsInv, Own
  <2>7. "members" \notin raced =>
          folder'.members[u] = 0 /\ \A w \in Users \ {u} : folder'.members[w] = folder.members[w]
    BY <1>2, <2>4, <2>6, WithoutIs
  <2>8. req'[r].at = "find" /\ req'[r] # req[r] BY <1>1, <2>1, <2>2 DEF Becomes
  <2>9. "members" \notin raced => FolderMembers(r)
    BY <1>1, <2>2, <2>7, <2>8 DEF FolderMembers
  <2> QED BY <1>1, <1>2, <2>1, <2>2, <2>3, <2>4, <2>5, <2>9, MembersKeep
<1> QED BY <1>3, <1>4, <1>5 DEF LeaveFolderSave

LEMMA ThroughFolder ==
    ASSUME CardsInv, NEW r \in Requests, JoinFolderDecks(r) \/ LeaveFolderDecks(r)
    PROVE  StepOf(r)
<1> DEFINE u == req[r].user
<1>1. UNCHANGED <<slug, folder, progress, reviews, raced>>
  BY DEF JoinFolderDecks, LeaveFolderDecks
<1>2. /\ deck \in Deck /\ folder \in Folder /\ u \in Users /\ deck.members \in Members
      /\ "drop" \in Stages
  BY CardsFacts DEF Deck, Stages
<1>3. FolderMembers(r) BY <1>1 DEF FolderMembers
<1>4. CASE JoinFolderDecks(r)
  <2> DEFINE m == With(deck.members, u)
  <2>1. Becomes(r, Idle) /\ Idle.op = "idle" /\ req[r].op = "joinFolder"
    BY <1>4, DoneBecomes DEF JoinFolderDecks, At
  <2>2. GoesOn(r) BY <2>1, BecomesGoesOn
  <2>3. deck' = deck \/ (deck' = [deck EXCEPT !.members = m] /\ deck.members[u] = 0)
    BY <1>4 DEF JoinFolderDecks
  <2>4. m \in Members /\ m[u] = deck.members[u] + 1 /\ \A w \in Users \ {u} : m[w] = deck.members[w]
    BY <1>2, WithIs
  <2> HIDE DEF m
  <2>5. deck' \in Deck /\ deck'.state = deck.state /\ DeckMembers(r)
    <3>1. CASE deck' = deck BY <1>2, <3>1 DEF DeckMembers
    <3>2. CASE deck' = [deck EXCEPT !.members = m] /\ deck.members[u] = 0
      <4>1. deck' \in Deck /\ deck'.state = deck.state /\ deck'.members = m
        BY <1>2, <2>4, <3>2, DeckWith
      <4>2. req'[r].op = "idle" /\ req'[r] # req[r] BY <2>1 DEF Becomes
      <4> QED BY <2>1, <2>4, <3>2, <4>1, <4>2 DEF DeckMembers, JoinsSome, OfFolder
    <3> QED BY <2>3, <3>1, <3>2
  <2> QED BY <1>1, <1>2, <1>3, <2>1, <2>2, <2>5, MembersKeep
<1>5. CASE LeaveFolderDecks(r)
  <2> DEFINE m == Without(deck.members, u)
  <2>1. Goto(r, "drop") /\ req[r].op = "leaveFolder" /\ req[r].at = "cleanup"
    BY <1>5 DEF LeaveFolderDecks, At
  <2>2. /\ Becomes(r, req'[r]) /\ req'[r].op = req[r].op /\ req'[r].at = "drop"
        /\ req'[r].user = req[r].user /\ req'[r].members = req[r].members /\ req'[r].fresh = req[r].fresh
    BY <1>2, <2>1, GotoBecomes
  <2>3. GoesOn(r) BY <2>2, BecomesGoesOn
  <2>4. deck' \in {deck, [deck EXCEPT !.members = m]} BY <1>5 DEF LeaveFolderDecks
  <2>5. m \in Members /\ m[u] = 0 /\ \A w \in Users \ {u} : m[w] = deck.members[w]
    BY <1>2, WithoutIs
  <2> HIDE DEF m
  <2>6. deck' \in Deck /\ deck'.state = deck.state /\ DeckMembers(r)
    <3>1. CASE deck' = deck BY <1>2, <3>1 DEF DeckMembers
    <3>2. CASE deck' = [deck EXCEPT !.members = m]
      <4>1. deck' \in Deck /\ deck'.state = deck.state /\ deck'.members = m
        BY <1>2, <2>5, <3>2, DeckWith
      <4>2. req'[r] # req[r] BY <2>1, <2>2
      <4> QED BY <2>1, <2>5, <4>1, <4>2 DEF DeckMembers, OfFolder
    <3> QED BY <2>4, <3>1, <3>2
  <2> QED BY <1>1, <1>2, <1>3, <2>1, <2>2, <2>3, <2>6, MembersKeep
<1> QED BY <1>4, <1>5

LEMMA ReviewedType ==
    ASSUME NEW row \in Row, NEW quality \in {0, 2, 4, 5}
    PROVE  Reviewed(row, quality) \in Row
<1>1. row.ease \in Nat /\ row.interval \in Nat /\ row.repetitions \in Nat BY DEF Row
<1>2. Eased(row.ease, quality) \in Nat BY <1>1 DEF Eased
<1>3. Interval(row) \in Nat
  <2>1. row.interval * row.ease \in Nat BY <1>1
  <2>2. (row.interval * row.ease + 50) \div 100 \in Nat
    <3> DEFINE n == row.interval * row.ease
    <3>1. n \in Nat BY <2>1
    <3> HIDE DEF n
    <3>2. (n + 50) \div 100 \in Nat BY <3>1
    <3> QED BY <3>2 DEF n
  <2> QED BY <2>2 DEF Interval
<1> QED BY <1>1, <1>2, <1>3 DEF Reviewed, Passed, Row

LEMMA ReviewLoaded ==
    ASSUME CardsInv, NEW r \in Requests, NEW quality \in {0, 2, 4, 5}, ReviewFind(r, quality)
    PROVE  StepOf(r)
<1> DEFINE row == progress[req[r].user][req[r].edition]
<1> DEFINE v == [req[r] EXCEPT !.at = "save", !.row = row, !.next = Reviewed(row, quality)]
<1>1. UNCHANGED <<deck, slug, folder, progress, reviews, raced>> /\ req[r].op = "review"
  BY DEF ReviewFind, At
<1>2. /\ deck \in Deck /\ folder \in Folder /\ slug \in Slugs \cup {NoSlug}
      /\ req[r] \in Request /\ req \in [Requests -> Request] /\ row \in Row
  BY CardsFacts
<1>3. Reviewed(row, quality) \in Row BY <1>2, ReviewedType
<1>4. req' = [req EXCEPT ![r] = v] BY <1>2 DEF ReviewFind
<1> HIDE DEF row
<1>5. /\ v \in Request /\ v.op = "review" /\ v.user = req[r].user /\ v.members = req[r].members
      /\ v.fresh = req[r].fresh
  BY <1>1, <1>2, <1>3 DEF Request, Stages
<1> HIDE DEF v
<1>6. Becomes(r, v) BY <1>4, <1>5, BecomesOne
<1>7. GoesOn(r) BY <1>1, <1>5, <1>6, BecomesGoesOn DEF OfFolder
<1> QED BY <1>1, <1>2, <1>5, <1>6, <1>7, QuietKeeps

LEMMA ReviewStored ==
    ASSUME CardsInv, NEW r \in Requests, ReviewSave(r)
    PROVE  StepOf(r)
<1> DEFINE u == req[r].user
<1> DEFINE e == req[r].edition
<1> DEFINE row == progress[u][e]
<1> DEFINE new == IF row.there THEN Merged(row, req[r].row, req[r].next) ELSE req[r].next
<1>1. UNCHANGED <<deck, slug, folder, reviews, raced>> /\ req[r].op = "review"
  BY DEF ReviewSave, At
<1>2. /\ progress \in [Users -> [Editions -> Row]] /\ u \in Users /\ e \in Editions
      /\ req[r].row \in Row /\ req[r].next \in Row
  BY CardsFacts DEF Request
<1>3. row \in Row BY <1>2
<1>4. new \in Row BY <1>2, <1>3 DEF Merged, Row
<1>5. progress' \in {progress, [progress EXCEPT ![u][e] = new]}
  BY DEF ReviewSave
<1> HIDE DEF new, row
<1>6. progress' \in [Users -> [Editions -> Row]] BY <1>2, <1>4, <1>5
<1>7. Becomes(r, Idle) /\ Idle.op = "idle" BY DoneBecomes DEF ReviewSave
<1>8. GoesOn(r) BY <1>7, BecomesGoesOn
<1>9. CardsTypeOK' BY <1>1, <1>6, <1>7, CardsFacts DEF CardsTypeOK, Becomes
<1>10. Learns(r) BY <1>1, <1>7 DEF Learns, Becomes
<1>11. DeckMembers(r) /\ FolderMembers(r) BY <1>1 DEF DeckMembers, FolderMembers
<1> QED BY <1>1, <1>8, <1>9, <1>10, <1>11 DEF StepOf

-----------------------------------------------------------------------------
(* Flashcards: the requests that are accepted *)

\* A request that may be accepted, by what the handler has checked when it is.
Acceptable(v) ==
    /\ v \in Request
    /\ v.op = "delete" => v.at = "cleanup"
    /\ v.op = "review" => There
    /\ v.op = "joinDeck" => deck.members[v.user] = 0
    /\ v.op = "joinFolder" /\ v.at = "save" => folder.members[v.user] = 0
    /\ v.op = "leaveDeck" => v.members = Without(deck.members, v.user)
    /\ v.op = "leaveFolder" => v.members = Without(folder.members, v.user)

LEMMA CardsAccepted ==
    ASSUME CardsInv, NEW r \in Requests, NEW v, Acceptable(v), Accept(r, v),
           UNCHANGED <<deck, slug, folder, progress>>, reviews' \in 0 .. MaxReviews
    PROVE  CardsInv'
<1>1. /\ req[r].op = "idle" /\ v \in Request
      /\ req' = [req EXCEPT ![r] = v] /\ raced' = raced \cup Clash(v.op, v.user)
  BY DEF Accept, Acceptable
<1>2. req' \in [Requests -> Request] /\ req'[r] = v /\ \A q \in Requests \ {r} : req'[q] = req[q]
  BY <1>1, CardsFacts
<1>3. Clash(v.op, v.user) \subseteq Topics BY DEF Clash
<1>4. CardsTypeOK' BY <1>1, <1>2, <1>3, CardsFacts DEF CardsTypeOK
<1>6. ASSUME "progress" \notin raced' PROVE Learned'
  <2>1. Learned /\ "progress" \notin Clash(v.op, v.user) BY <1>1, <1>6 DEF CardsInv
  <2>2. /\ v.op = "review" => ~Busy({"delete"})
        /\ v.op = "delete" => ~Busy({"review"})
    BY <2>1 DEF Clash, Topics
  <2>3. \A p, q \in Requests : ~(req'[p].op = "review" /\ req'[q].op = "delete")
    BY <1>2, <2>1, <2>2 DEF Learned, Busy
  <2>4. \A q \in Requests : req'[q].op = "review" => There'
    BY <1>2, <2>1 DEF Learned, Acceptable, There
  <2>5. NoProgress' <=> NoProgress BY DEF NoProgress
  <2>6. \A q \in Requests : req'[q].op = "delete" =>
           req'[q].at \in {"cleanup", "drop"} /\ (req'[q].at = "drop" => NoProgress')
    BY <1>2, <2>1, <2>5 DEF Learned, Acceptable
  <2>7. deck'.state = "gone" => NoProgress' BY <2>1, <2>5 DEF Learned
  <2> QED BY <2>3, <2>4, <2>6, <2>7 DEF Learned
<1>7. ASSUME "members" \notin raced' PROVE Own'
  <2>1. Own /\ "members" \notin Clash(v.op, v.user) BY <1>1, <1>7 DEF CardsInv
  <2>2. /\ v.op = "leaveDeck" => ~Busy({"joinFolder", "leaveFolder"})
        /\ v.op \in {"joinFolder", "leaveFolder"} => ~Busy({"leaveDeck"})
        /\ v.op \in {"joinDeck", "joinFolder"} => ~BusyOf(v.user, {"joinDeck", "joinFolder"})
    BY <2>1 DEF Clash, Topics
  <2>3. \A p, q \in Requests : ~(req'[p].op = "leaveDeck" /\ req'[q].op \in OfFolder)
    BY <1>2, <2>1, <2>2 DEF Own, Busy, OfFolder
  <2>4. \A p, q \in Requests : JoinsSome(p)' /\ JoinsSome(q)' /\ req'[p].user = req'[q].user => p = q
    BY <1>2, <2>1, <2>2 DEF Own, BusyOf, JoinsSome
  <2>5. ASSUME NEW q \in Requests
        PROVE  /\ req'[q].op = "joinDeck" => deck'.members[req'[q].user] = 0
               /\ req'[q].op = "joinFolder" /\ req'[q].at = "save" => folder'.members[req'[q].user] = 0
               /\ req'[q].op = "leaveDeck" /\ req'[q].fresh =>
                    req'[q].members = Without(deck'.members, req'[q].user)
               /\ req'[q].op = "leaveFolder" /\ req'[q].at = "save" /\ req'[q].fresh =>
                    req'[q].members = Without(folder'.members, req'[q].user)
    <3>1. CASE q = r BY <1>2, <3>1 DEF Acceptable
    <3>2. CASE q # r BY <1>2, <2>1, <3>2 DEF Own
    <3> QED BY <3>1, <3>2
  <2> QED BY <2>3, <2>4, <2>5 DEF Own, Without
<1> QED BY <1>4, <1>6, <1>7 DEF CardsInv

LEMMA CardsBegin ==
    ASSUME NEW op \in Ops, NEW u \in Users, NEW at \in Stages,
           NEW b, b = Begin(op, u, at)
    PROVE  b \in Request /\ b.op = op /\ b.at = at /\ b.user = u
BY CardsIdle DEF Begin, Request

\* Requests about the documents themselves.
LEMMA OwnerAccepted ==
    ASSUME CardsInv, NEW r \in Requests, NEW inFolder \in BOOLEAN,
           \/ CreateDeck(r, inFolder) \/ UpdateDeck(r, inFolder)
           \/ DeleteDeck(r) \/ ViewDeck(r) \/ CreateFolder(r) \/ DeleteFolder(r)
    PROVE  CardsInv'
<1>1. Creator \in Users /\ deck \in Deck /\ reviews \in 0 .. MaxReviews
  BY CardsFacts, CardsAssumption
<1>2. CASE CreateDeck(r, inFolder)
  <2> DEFINE b == Begin("create", Creator, "save")
  <2> DEFINE v == [b EXCEPT !.inFolder = inFolder]
  <2>1. b \in Request /\ b.op = "create" BY <1>1, CardsBegin DEF Ops, Stages
  <2>2. v \in Request /\ v.op = "create"
    <3> HIDE DEF b
    <3> QED BY <2>1 DEF Request
  <2>3. Accept(r, v) /\ UNCHANGED <<deck, slug, folder, progress, reviews>> BY <1>2 DEF CreateDeck
  <2> HIDE DEF v
  <2>4. Acceptable(v) BY <2>2 DEF Acceptable
  <2> QED BY <1>1, <2>3, <2>4, CardsAccepted
<1>3. CASE UpdateDeck(r, inFolder)
  <2> DEFINE b == Begin("update", Creator, "folder")
  <2> DEFINE bare == slug = NoSlug
  <2> DEFINE v == [b EXCEPT !.inFolder = inFolder, !.was = deck.inFolder, !.bare = bare]
  <2>1. b \in Request /\ b.op = "update" BY <1>1, CardsBegin DEF Ops, Stages
  <2>2. deck.inFolder \in BOOLEAN /\ bare \in BOOLEAN BY <1>1 DEF Deck
  <2>3. v \in Request /\ v.op = "update"
    <3> HIDE DEF b, bare
    <3> QED BY <2>1, <2>2 DEF Request
  <2>4. Accept(r, v) /\ UNCHANGED <<deck, slug, folder, progress, reviews>> BY <1>3 DEF UpdateDeck
  <2> HIDE DEF v
  <2>5. Acceptable(v) BY <2>3 DEF Acceptable
  <2> QED BY <1>1, <2>4, <2>5, CardsAccepted
<1>4. ASSUME NEW op \in {"delete", "view", "createFolder", "deleteFolder"}, NEW at \in Stages,
             op = "delete" => at = "cleanup",
             Accept(r, Begin(op, Creator, at)), UNCHANGED <<deck, slug, folder, progress, reviews>>
      PROVE  CardsInv'
  <2> DEFINE v == Begin(op, Creator, at)
  <2>1. v \in Request /\ v.op = op /\ v.at = at BY <1>1, CardsBegin DEF Ops
  <2>2. Accept(r, v) BY <1>4
  <2> HIDE DEF v
  <2>3. Acceptable(v) BY <1>4, <2>1 DEF Acceptable
  <2> QED BY <1>1, <1>4, <2>2, <2>3, CardsAccepted
<1>5. {"cleanup", "slug", "save"} \subseteq Stages BY DEF Stages
<1>6. CASE DeleteDeck(r) BY <1>4, <1>5, <1>6 DEF DeleteDeck
<1>7. CASE ViewDeck(r) BY <1>4, <1>5, <1>7 DEF ViewDeck
<1>8. CASE CreateFolder(r) BY <1>4, <1>5, <1>8 DEF CreateFolder
<1>9. CASE DeleteFolder(r) BY <1>4, <1>5, <1>9 DEF DeleteFolder
<1> QED BY <1>2, <1>3, <1>6, <1>7, <1>8, <1>9

\* Requests of the people who join, leave and review.
LEMMA MemberAccepted ==
    ASSUME CardsInv, NEW r \in Requests, NEW u \in Users,
           \/ JoinDeck(r, u) \/ LeaveDeck(r, u) \/ JoinFolder(r, u) \/ LeaveFolder(r, u)
           \/ Review(r, u)
    PROVE  CardsInv'
<1>1. /\ deck \in Deck /\ folder \in Folder /\ reviews \in 0 .. MaxReviews
      /\ MaxReviews \in Nat
  BY CardsFacts, CardsAssumption
<1>2. /\ deck.members \in Members /\ deck.members[u] \in Nat /\ deck.edition \in Editions
      /\ folder.members \in Members /\ folder.members[u] \in Nat
  BY <1>1 DEF Deck, Folder, Members, Editions
<1>3. CASE JoinDeck(r, u)
  <2> DEFINE v == Begin("joinDeck", u, "save")
  <2>1. v \in Request /\ v.op = "joinDeck" /\ v.user = u BY <1>1, CardsBegin DEF Ops, Stages
  <2>2. /\ Accept(r, v) /\ deck.members[u] = 0
        /\ UNCHANGED <<deck, slug, folder, progress, reviews>>
    BY <1>3 DEF JoinDeck
  <2> HIDE DEF v
  <2>3. Acceptable(v) BY <2>1, <2>2 DEF Acceptable
  <2> QED BY <1>1, <2>2, <2>3, CardsAccepted
<1>4. CASE LeaveDeck(r, u)
  <2> DEFINE b == Begin("leaveDeck", u, "cleanup")
  <2> DEFINE m == Without(deck.members, u)
  <2> DEFINE was == deck.members[u] > 0
  <2> DEFINE v == [b EXCEPT !.members = m, !.was = was]
  <2>1. b \in Request /\ b.op = "leaveDeck" /\ b.user = u BY <1>1, CardsBegin DEF Ops, Stages
  <2>2. m \in Members /\ was \in BOOLEAN BY <1>2, WithoutIs
  <2>3. v \in Request /\ v.op = "leaveDeck" /\ v.user = u /\ v.members = m
    <3> HIDE DEF b, m, was
    <3> QED BY <2>1, <2>2 DEF Request
  <2>4. Accept(r, v) /\ UNCHANGED <<deck, slug, folder, progress, reviews>> BY <1>4 DEF LeaveDeck
  <2> HIDE DEF v
  <2>5. Acceptable(v) BY <2>3 DEF Acceptable
  <2> QED BY <1>1, <2>4, <2>5, CardsAccepted
<1>5. CASE JoinFolder(r, u)
  <2> DEFINE at == IF u = Creator \/ folder.members[u] > 0 THEN "cleanup" ELSE "save"
  <2> DEFINE v == Begin("joinFolder", u, at)
  <2>1. at \in Stages /\ (at = "save" => folder.members[u] = 0) BY <1>2 DEF Stages
  <2>2. Accept(r, v) /\ UNCHANGED <<deck, slug, folder, progress, reviews>> BY <1>5 DEF JoinFolder
  <2> HIDE DEF at
  <2>3. v \in Request /\ v.op = "joinFolder" /\ v.at = at /\ v.user = u
    BY <1>1, <2>1, CardsBegin DEF Ops
  <2> HIDE DEF v
  <2>4. Acceptable(v) BY <2>1, <2>3 DEF Acceptable
  <2> QED BY <1>1, <2>2, <2>4, CardsAccepted
<1>6. CASE LeaveFolder(r, u)
  <2> DEFINE b == Begin("leaveFolder", u, "save")
  <2> DEFINE m == Without(folder.members, u)
  <2> DEFINE was == folder.members[u] > 0
  <2> DEFINE v == [b EXCEPT !.members = m, !.was = was]
  <2>1. b \in Request /\ b.op = "leaveFolder" /\ b.user = u BY <1>1, CardsBegin DEF Ops, Stages
  <2>2. m \in Members /\ was \in BOOLEAN BY <1>2, WithoutIs
  <2>3. v \in Request /\ v.op = "leaveFolder" /\ v.user = u /\ v.members = m
    <3> HIDE DEF b, m, was
    <3> QED BY <2>1, <2>2 DEF Request
  <2>4. Accept(r, v) /\ UNCHANGED <<deck, slug, folder, progress, reviews>> BY <1>6 DEF LeaveFolder
  <2> HIDE DEF v
  <2>5. Acceptable(v) BY <2>3 DEF Acceptable
  <2> QED BY <1>1, <2>4, <2>5, CardsAccepted
<1>7. CASE Review(r, u)
  <2> DEFINE b == Begin("review", u, "find")
  <2> DEFINE v == [b EXCEPT !.edition = deck.edition]
  <2>1. b \in Request /\ b.op = "review" BY <1>1, CardsBegin DEF Ops, Stages
  <2>2. v \in Request /\ v.op = "review"
    <3> HIDE DEF b
    <3> QED BY <1>2, <2>1 DEF Request
  <2>3. /\ Accept(r, v) /\ There /\ UNCHANGED <<deck, slug, folder, progress>>
        /\ reviews < MaxReviews /\ reviews' = reviews + 1
    BY <1>7 DEF Review
  <2>4. reviews' \in 0 .. MaxReviews BY <1>1, <2>3
  <2> HIDE DEF v
  <2>5. Acceptable(v) BY <2>2, <2>3 DEF Acceptable
  <2> QED BY <2>3, <2>4, <2>5, CardsAccepted
<1> QED BY <1>3, <1>4, <1>5, <1>6, <1>7

-----------------------------------------------------------------------------
(* Flashcards: the theorems *)

LEMMA CardsBegun ==
    ASSUME CardsInit
    PROVE  CardsInv
<1>1. Nobody \in Members BY DEF Nobody, Members
<1>2. 1 \in 1 .. MaxEdition /\ MaxReviews \in Nat BY CardsAssumption
<1>3. /\ deck \in Deck /\ deck.state # "gone" /\ slug \in Slugs \cup {NoSlug}
  BY <1>1, <1>2 DEF CardsInit, Deck, States
<1>4. folder \in Folder BY <1>1 DEF CardsInit, Folder, States
<1>5. progress \in [Users -> [Editions -> Row]] /\ reviews \in 0 .. MaxReviews /\ raced \subseteq Topics
  BY <1>2, NoRowIs DEF CardsInit
<1>6. req \in [Requests -> Request] /\ \A r \in Requests : req[r].op = "idle"
  BY CardsIdle DEF CardsInit
<1>7. CardsTypeOK BY <1>3, <1>4, <1>5, <1>6 DEF CardsTypeOK
<1>8. Learned BY <1>3, <1>6 DEF Learned
<1>9. Own BY <1>6 DEF Own, JoinsSome, OfFolder
<1> QED BY <1>7, <1>8, <1>9 DEF CardsInv

\* Every step of the system accepts a request, or is one of the steps of a request.
LEMMA CardsStep ==
    ASSUME CardsInv, CardsNext
    PROVE  \/ /\ CardsInv' /\ deck' = deck /\ folder' = folder
           \/ \E r \in Requests : StepOf(r)
<1>1. ASSUME NEW r \in Requests, NEW inFolder \in BOOLEAN,
             \/ CreateDeck(r, inFolder) \/ UpdateDeck(r, inFolder)
             \/ DeleteDeck(r) \/ ViewDeck(r) \/ CreateFolder(r) \/ DeleteFolder(r)
      PROVE  CardsInv' /\ deck' = deck /\ folder' = folder
  BY <1>1, OwnerAccepted
     DEF CreateDeck, UpdateDeck, DeleteDeck, ViewDeck, CreateFolder, DeleteFolder
<1>2. ASSUME NEW r \in Requests, NEW u \in Users,
             \/ JoinDeck(r, u) \/ LeaveDeck(r, u) \/ JoinFolder(r, u) \/ LeaveFolder(r, u)
             \/ Review(r, u)
      PROVE  CardsInv' /\ deck' = deck /\ folder' = folder
  BY <1>2, MemberAccepted DEF JoinDeck, LeaveDeck, JoinFolder, LeaveFolder, Review
<1>3. ASSUME NEW r \in Requests,
             \/ CreateDeckSave(r) \/ UpdateDeckFolder(r) \/ UpdateDeckSlug(r) \/ UpdateDeckSave(r)
             \/ DeleteDeckProgress(r) \/ DeleteDeckDocument(r) \/ ViewDeckSlug(r)
             \/ CreateFolderSave(r) \/ DeleteFolderDecks(r) \/ DeleteFolderDocument(r)
      PROVE  StepOf(r)
  BY <1>3, DocumentsSaved, FolderChecked, SlugGiven, DeckUpdated, ProgressRemoved, CutSteps, FolderEmptied
<1>4. ASSUME NEW r \in Requests,
             \/ JoinDeckSave(r) \/ LeaveDeckProgress(r) \/ LeaveDeckSave(r)
             \/ JoinFolderSave(r) \/ JoinFolderDecks(r) \/ LeaveFolderSave(r)
             \/ LeaveFolderFind(r) \/ LeaveFolderDecks(r) \/ LeaveFolderProgress(r)
             \/ (\E quality \in {0, 2, 4, 5} : ReviewFind(r, quality)) \/ ReviewSave(r) \/ Cut(r)
      PROVE  StepOf(r)
  BY <1>4, DeckMembersSaved, ProgressRemoved, FolderJoined, FolderLeft, ThroughFolder, FolderChecked,
     ReviewLoaded, ReviewStored, CutSteps
<1> QED BY <1>1, <1>2, <1>3, <1>4 DEF CardsNext

LEMMA CardsKept ==
    ASSUME CardsInv, [CardsNext]_cardsVars
    PROVE  CardsInv'
<1>1. CASE CardsNext BY <1>1, CardsStep, StepKeeps
<1>2. CASE UNCHANGED cardsVars
  <2>1. UNCHANGED <<deck, slug, folder, progress, reviews, req, raced>> BY <1>2 DEF cardsVars
  <2> QED BY <2>1 DEF CardsInv, CardsTypeOK, Learned, NoProgress, Own, JoinsSome, There,
                      Editions, Without
<1> QED BY <1>1, <1>2

LEMMA CardsInvariance == CardsSpec => []CardsInv
<1>1. CardsInit => CardsInv BY CardsBegun
<1>2. CardsInv /\ [CardsNext]_cardsVars => CardsInv' BY CardsKept
<1> QED BY <1>1, <1>2, PTL DEF CardsSpec

\* Types: the documents, the rows of progress and the requests under way are what
\* CardsTypeOK says, with a current edition within the bound.
THEOREM CardsTypeCorrect == CardsSpec => []CardsTypeOK
<1>1. CardsInv => CardsTypeOK BY DEF CardsInv
<1> QED BY <1>1, CardsInvariance, PTL

\* Once a deck is deleted there is no progress on any of its cards, of any edition and
\* of any user, unless a review overlapped a deletion.
THEOREM NothingLearnedLeftCorrect == CardsSpec => []NothingLearnedLeft
<1>1. CardsInv => NothingLearnedLeft BY DEF CardsInv, Learned, NoProgress, NothingLearnedLeft
<1> QED BY <1>1, CardsInvariance, PTL

\* Nobody becomes a member of the deck or of the folder, or stops being one, but in a
\* step of his own request to join or leave, unless such requests overlapped in a way
\* that the versions of the documents do not keep apart.
THEOREM MembershipCorrect == CardsSpec => MembershipOwn
<1> DEFINE Step ==
      \A u \in Users :
         /\ "members" \notin raced' /\ deck'.members[u] # deck.members[u] =>
              \/ deck'.members[u] = 1 /\ Joins(u, {"joinDeck", "joinFolder"})
              \/ deck'.members[u] = 0 /\ Joins(u, {"leaveDeck", "leaveFolder"})
         /\ "members" \notin raced' /\ folder'.members[u] # folder.members[u] =>
              \/ folder'.members[u] = 1 /\ Joins(u, {"joinFolder"})
              \/ folder'.members[u] = 0 /\ Joins(u, {"leaveFolder"})
<1>1. ASSUME CardsInv, [CardsNext]_cardsVars PROVE [Step]_cardsVars
  <2>1. CASE UNCHANGED cardsVars BY <2>1
  <2>2. CASE deck' = deck /\ folder' = folder BY <2>2
  <2>3. ASSUME NEW r \in Requests, StepOf(r) PROVE Step
    <3> SUFFICES ASSUME NEW u \in Users, "members" \notin raced'
                 PROVE  /\ deck'.members[u] # deck.members[u] =>
                             \/ deck'.members[u] = 1 /\ Joins(u, {"joinDeck", "joinFolder"})
                             \/ deck'.members[u] = 0 /\ Joins(u, {"leaveDeck", "leaveFolder"})
                        /\ folder'.members[u] # folder.members[u] =>
                             \/ folder'.members[u] = 1 /\ Joins(u, {"joinFolder"})
                             \/ folder'.members[u] = 0 /\ Joins(u, {"leaveFolder"})
      OBVIOUS
    <3>1. DeckMembers(r) /\ FolderMembers(r) BY <2>3 DEF StepOf
    <3>2. ASSUME deck'.members[u] # deck.members[u]
          PROVE  \/ deck'.members[u] = 1 /\ Joins(u, {"joinDeck", "joinFolder"})
                 \/ deck'.members[u] = 0 /\ Joins(u, {"leaveDeck", "leaveFolder"})
      <4>1. req[r].user = u /\ req'[r] # req[r] BY <3>1, <3>2 DEF DeckMembers
      <4> QED BY <3>1, <3>2, <4>1 DEF DeckMembers, JoinsSome, Joins
    <3>3. ASSUME folder'.members[u] # folder.members[u]
          PROVE  \/ folder'.members[u] = 1 /\ Joins(u, {"joinFolder"})
                 \/ folder'.members[u] = 0 /\ Joins(u, {"leaveFolder"})
      <4>1. req[r].user = u /\ req'[r] # req[r] BY <3>1, <3>3 DEF FolderMembers
      <4> QED BY <3>1, <3>3, <4>1 DEF FolderMembers, Joins
    <3> QED BY <3>2, <3>3
  <2> QED BY <1>1, <2>1, <2>2, <2>3, CardsStep
<1> QED BY <1>1, CardsInvariance, PTL DEF CardsSpec, MembershipOwn

=============================================================================

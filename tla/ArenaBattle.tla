----------------------------- MODULE ArenaBattle -----------------------------
(***************************************************************************)
(* The live battles of the /arena gateway (arena/arena.gateway.ts) and the *)
(* part of ArenaService that keeps them: the map activeBattles, the        *)
(* handlers that change a battle, saveBattleHistory and deleteTest.  Only  *)
(* handleConnection, submit_answer, saveBattleHistory and deleteTest       *)
(* await; everything else is one atomic step.  Messages are handled while  *)
(* handleConnection still awaits the user: client.data.user is unset then, *)
(* a join is made under a guest's id, and handlers that read user._id      *)
(* throw.  A battle's id is drawn afresh, so battles are numbered in the   *)
(* order of their creation, which is the map's order.                      *)
(***************************************************************************)
EXTENDS Naturals, FiniteSets

CONSTANTS
    Sockets,      \* socket ids
    Accounts,     \* account ids, those handleConnection draws for guests included
    UserOf,       \* what client.data.user will be when handleConnection is done
    MaxBattles,   \* battles ever created (a bound)
    NQ,           \* the number of questions of the test being played
    MaxIndex,     \* how far next_question may push the index (a bound)
    Calls,        \* submit_answer calls suspended at the same time (a bound)
    NoPlayer, NoUser, NoCall

ASSUME ConstantsAssumption ==
    /\ UserOf \in [Sockets -> Accounts]
    /\ MaxBattles \in Nat /\ NQ \in Nat \ {0} /\ MaxIndex \in Nat
    /\ IsFiniteSet(Calls)

Battles == 1..MaxBattles

VARIABLES
    conn,         \* connected sockets
    known,        \* sockets whose client.data.user is set
    battle,       \* the BattleRoom objects, by creation order
    active,       \* the ids in activeBattles
    answers,      \* the suspended submit_answer calls
    saving,       \* saveBattleHistory calls: awaiting findOne, awaiting save
    history,      \* documents stored for each battle
    timer,        \* battles whose 5-minute removal timer is running
    test          \* "stored", then deleteTest's progress: "purged", "unlisted", "deleted"

vars == <<conn, known, battle, active, answers, saving, history, timer, test>>

Player == [score : Nat, hasAnsweredCurrent : BOOLEAN]

\* What a participant is listed under: its socket, and the account's id or the
\* id guest_<socket>.
Entry == [sock : Sockets, as : {"guest", "account"}]

BattleRoom ==
    [hostId : Accounts \cup {NoUser}, status : {"none", "waiting", "playing", "finished"},
     currentQuestionIndex : Nat,
     participants : [Entry -> Player \cup {NoPlayer}]]

\* A suspended call keeps its battle and its participant.
Answer == [battle : Battles, by : Entry]

TypeOK ==
    /\ conn \subseteq Sockets /\ known \subseteq Sockets
    /\ battle \in [Battles -> BattleRoom]
    /\ active \subseteq Battles
    /\ answers \in [Calls -> Answer \cup {NoCall}]
    /\ saving \in [Battles -> [find : Nat, save : Nat]]
    /\ history \in [Battles -> Nat]
    /\ timer \subseteq Battles
    /\ test \in {"stored", "purged", "unlisted", "deleted"}

-----------------------------------------------------------------------------
Unborn == [hostId |-> NoUser, status |-> "none", currentQuestionIndex |-> 0,
           participants |-> [e \in Entry |-> NoPlayer]]

Init ==
    /\ conn = Sockets /\ known = {}
    /\ battle = [b \in Battles |-> Unborn]
    /\ active = {}
    /\ answers = [c \in Calls |-> NoCall]
    /\ saving = [b \in Battles |-> [find |-> 0, save |-> 0]]
    /\ history = [b \in Battles |-> 0]
    /\ timer = {}
    /\ test = "stored"

NewPlayer == [score |-> 0, hasAnsweredCurrent |-> FALSE]

Playing(b) == {e \in Entry : battle[b].participants[e] # NoPlayer}
EntriesOf(s, b) == {e \in Playing(b) : e.sock = s}

\* findIndex by socketId: the guest's entry of a socket is older than its account's.
\* The end of a battle sorts the list by score; whichever is first then.
IsFirst(e, s, b) ==
    /\ e \in EntriesOf(s, b)
    /\ battle[b].status # "finished" =>
         \A f \in EntriesOf(s, b) : f.as = "guest" => e.as = "guest"

IsHost(s, b) == s \in known /\ battle[b].hostId = UserOf[s]

\* `currentQuestionIndex += 1` and every hasAnsweredCurrent back to false.
Advance(R) ==
    [R EXCEPT !.currentQuestionIndex = @ + 1,
              !.participants = [e \in Entry |->
                 IF @[e] = NoPlayer THEN NoPlayer
                 ELSE [@[e] EXCEPT !.hasAnsweredCurrent = FALSE]]]

WithoutEntry(R, e) == [R EXCEPT !.participants[e] = NoPlayer]
-----------------------------------------------------------------------------
(* Lobby.  A definition whose name ends in _Bug is the definition of that name  *)
(* with a plausible mistake seeded in it; the checks confirm that a property    *)
(* notices.                                                                     *)

\* handleConnection goes on after its awaits.  Where it fails it disconnects the
\* socket, which is HandleDisconnect.
HandleConnection(s) ==
    /\ s \notin known /\ known' = known \cup {s}
    /\ UNCHANGED <<conn, battle, active, answers, saving, history, timer, test>>

CreateBattle(s, b) ==
    /\ s \in conn /\ s \in known /\ battle[b] = Unborn
    /\ \A a \in Battles : a < b => battle[a] # Unborn
    /\ battle' = [battle EXCEPT ![b] =
         [hostId |-> UserOf[s], status |-> "waiting", currentQuestionIndex |-> 0,
          participants |-> [Unborn.participants EXCEPT ![[sock |-> s, as |-> "account"]] = NewPlayer]]]
    /\ active' = active \cup {b}
    /\ UNCHANGED <<conn, known, answers, saving, history, timer, test>>

EntryOf(s) == [sock |-> s, as |-> IF s \in known THEN "account" ELSE "guest"]
SameId(d, e) == d = e \/ (d.as = "account" /\ e.as = "account" /\ UserOf[d.sock] = UserOf[e.sock])

\* Whose id is listed already only joins the channel.
AlreadyIn(s, b) == \E e \in Playing(b) : SameId(e, EntryOf(s))

JoinBattle(s, b) ==
    /\ s \in conn /\ b \in active /\ battle[b].status = "waiting"
    /\ ~AlreadyIn(s, b)
    /\ battle' = [battle EXCEPT ![b].participants[EntryOf(s)] = NewPlayer]
    /\ UNCHANGED <<conn, known, active, answers, saving, history, timer, test>>

\* Only the first entry of the socket is removed.
LeaveBattle(s, b) ==
    /\ s \in conn /\ b \in active
    /\ \E e \in Entry :
         IsFirst(e, s, b) /\ battle' = [battle EXCEPT ![b] = WithoutEntry(@, e)]
    /\ UNCHANGED <<conn, known, active, answers, saving, history, timer, test>>

\* Only the first battle of the map that the socket plays in is looked at.
HandleDisconnect(s) ==
    /\ s \in conn
    /\ conn' = conn \ {s}
    /\ \/ /\ \A b \in active : EntriesOf(s, b) = {}
          /\ UNCHANGED battle
       \/ \E b \in active, e \in Entry :
            /\ IsFirst(e, s, b)
            /\ \A a \in active : a < b => EntriesOf(s, a) = {}
            /\ battle' = [battle EXCEPT ![b] = WithoutEntry(@, e)]
    /\ UNCHANGED <<known, active, answers, saving, history, timer, test>>

StartBattle(s, b) ==
    /\ s \in conn /\ b \in active /\ IsHost(s, b) /\ battle[b].status = "waiting"
    /\ battle' = [battle EXCEPT ![b].status = "playing"]
    /\ UNCHANGED <<conn, known, active, answers, saving, history, timer, test>>

-----------------------------------------------------------------------------
(* Playing *)

SubmitAnswer_Bug(s, b, c) ==                  \* an answer already given is no bar
    /\ s \in conn /\ b \in active /\ battle[b].status = "playing"
    /\ answers[c] = NoCall
    /\ \E e \in Entry :
         /\ IsFirst(e, s, b)
         /\ battle' = [battle EXCEPT ![b].participants[e].hasAnsweredCurrent = TRUE]
         /\ answers' = [answers EXCEPT ![c] = [battle |-> b, by |-> e]]
    /\ UNCHANGED <<conn, known, active, saving, history, timer, test>>

\* submit_answer up to `await getTestByIdInternal`.
SubmitAnswer(s, b, c) ==
    /\ s \in conn /\ b \in active /\ battle[b].status = "playing"
    /\ answers[c] = NoCall
    /\ \E e \in Entry :
         /\ IsFirst(e, s, b) /\ ~battle[b].participants[e].hasAnsweredCurrent
         /\ battle' = [battle EXCEPT ![b].participants[e].hasAnsweredCurrent = TRUE]
         /\ answers' = [answers EXCEPT ![c] = [battle |-> b, by |-> e]]
    /\ UNCHANGED <<conn, known, active, saving, history, timer, test>>

\* handleEndBattle on the BattleRoom R, looked up again in the map: the guard,
\* then `finished`, saveBattleHistory (left to run) and the removal timer.
Ends_Bug(s, b) == b \in active /\ s \in known /\ (IsHost(s, b) \/ battle[b].status = "playing")
Ends(s, b) ==
    /\ b \in active /\ s \in known
    /\ IsHost(s, b) \/ battle[b].status = "playing"
    /\ battle[b].status # "finished"

StartSave(b) == saving' = [saving EXCEPT ![b].find = @ + 1]

\* The rest of submit_answer: the answer is marked against the question that is
\* current NOW, in the battle and for the participant looked up before.  Nobody
\* joins a battle that has begun, so a participant that is gone is gone for good.
Scored(R, e, right) ==
    IF right /\ R.currentQuestionIndex < NQ /\ R.participants[e] # NoPlayer
    THEN [R EXCEPT !.participants[e].score = @ + 10] ELSE R

MarkAnswer(c, right) ==
    /\ answers[c] # NoCall /\ test # "deleted"
    /\ LET b == answers[c].battle
           e == answers[c].by
           R == Scored(battle[b], e, right)
       IN  IF R.currentQuestionIndex < NQ - 1
           THEN /\ battle' = [battle EXCEPT ![b] = Advance(R)]
                /\ UNCHANGED <<saving, timer>>
           ELSE IF Ends(e.sock, b)
           THEN /\ battle' = [battle EXCEPT ![b] = [R EXCEPT !.status = "finished"]]
                /\ StartSave(b)
                /\ timer' = timer \cup {b}
           ELSE /\ battle' = [battle EXCEPT ![b] = R]
                /\ UNCHANGED <<saving, timer>>
    /\ answers' = [answers EXCEPT ![c] = NoCall]
    /\ UNCHANGED <<conn, known, active, history, test>>

\* The test is gone, or the lookup fails: the answer is lost.
MarkFails(c) ==
    /\ answers[c] # NoCall
    /\ answers' = [answers EXCEPT ![c] = NoCall]
    /\ UNCHANGED <<conn, known, battle, active, saving, history, timer, test>>

NextQuestion(s, b) ==
    /\ s \in conn /\ b \in active /\ IsHost(s, b) /\ battle[b].status = "playing"
    /\ battle[b].currentQuestionIndex < MaxIndex
    /\ battle' = [battle EXCEPT ![b] = Advance(@)]
    /\ UNCHANGED <<conn, known, active, answers, saving, history, timer, test>>

EndBattle(s, b) ==
    /\ s \in conn /\ Ends(s, b)
    /\ battle' = [battle EXCEPT ![b].status = "finished"]
    /\ StartSave(b)
    /\ timer' = timer \cup {b}
    /\ UNCHANGED <<conn, known, active, answers, history, test>>

-----------------------------------------------------------------------------
(* saveBattleHistory, the removal timer, deleteTest *)

\* findOne has answered: nothing more to do if a document exists, else save.
HistoryLookup(b) ==
    /\ saving[b].find > 0
    /\ saving' = [saving EXCEPT ![b] =
         [find |-> @.find - 1, save |-> IF history[b] > 0 THEN @.save ELSE @.save + 1]]
    /\ UNCHANGED <<conn, known, battle, active, answers, history, timer, test>>

HistorySaved(b) ==
    /\ saving[b].save > 0
    /\ saving' = [saving EXCEPT ![b].save = @ - 1]
    /\ history' = [history EXCEPT ![b] = @ + 1]
    /\ UNCHANGED <<conn, known, battle, active, answers, timer, test>>

HistoryFails(b) ==
    /\ saving[b].save > 0
    /\ saving' = [saving EXCEPT ![b].save = @ - 1]
    /\ UNCHANGED <<conn, known, battle, active, answers, history, timer, test>>

RemoveActiveBattle_Bug(b) ==                  \* kept while someone is in it
    /\ b \in timer /\ timer' = timer \ {b}
    /\ active' = IF Playing(b) = {} THEN active \ {b} ELSE active
    /\ UNCHANGED <<conn, known, battle, answers, saving, history, test>>

RemoveActiveBattle(b) ==
    /\ b \in timer
    /\ timer' = timer \ {b}
    /\ active' = active \ {b}
    /\ UNCHANGED <<conn, known, battle, answers, saving, history, test>>

\* deleteTest's three awaited steps; the battles go from the map in between.
DeleteTestHistories ==
    /\ test = "stored" /\ test' = "purged"
    /\ history' = [b \in Battles |-> 0]
    /\ UNCHANGED <<conn, known, battle, active, answers, saving, timer>>

DeleteTestBattles ==
    /\ test = "purged" /\ test' = "unlisted"
    /\ active' = {}
    /\ UNCHANGED <<conn, known, battle, answers, saving, history, timer>>

DeleteTestDocument ==
    /\ test = "unlisted" /\ test' = "deleted"
    /\ UNCHANGED <<conn, known, battle, active, answers, saving, history, timer>>

-----------------------------------------------------------------------------
Handlers ==
    \/ \E s \in Sockets : HandleConnection(s) \/ HandleDisconnect(s)
    \/ \E s \in Sockets, b \in Battles :
         \/ CreateBattle(s, b) \/ JoinBattle(s, b) \/ LeaveBattle(s, b)
         \/ StartBattle(s, b) \/ NextQuestion(s, b) \/ EndBattle(s, b)
         \/ \E c \in Calls : SubmitAnswer(s, b, c)

Background ==
    \/ \E c \in Calls : MarkFails(c) \/ \E right \in BOOLEAN : MarkAnswer(c, right)
    \/ \E b \in Battles : HistoryLookup(b) \/ HistorySaved(b) \/ HistoryFails(b)
                          \/ RemoveActiveBattle(b)
    \/ DeleteTestHistories \/ DeleteTestBattles \/ DeleteTestDocument

Next == Handlers \/ Background

Spec == Init /\ [][Next]_vars

\* setTimeout fires.
FairSpec == Spec /\ \A b \in Battles : WF_vars(RemoveActiveBattle(b))

-----------------------------------------------------------------------------
(* Properties *)

\* Nobody's points exceed ten for each question that has been asked, nor ten for
\* each question of the test, although an answer is marked against whichever
\* question is current when the test has been loaded, and two late answers of one
\* participant may both be marked against the same one: no more answers are taken
\* than questions have come, and none is marked beyond the last.
PointsOfQuestions ==
    \A b \in Battles : \A e \in Playing(b) :
        LET points == battle[b].participants[e].score
        IN points <= 10 * (battle[b].currentQuestionIndex + 1) /\ points <= 10 * NQ

\* A battle is recorded in the history at most once, although it can be ended by
\* its host, by any player and by several late answers, and saveBattleHistory
\* looks before it saves.
HistoryOnce == \A b \in Battles : history[b] + saving[b].save <= 1

\* A finished battle does not stay in memory.
FinishedIsRemoved ==
    \A b \in Battles : (battle[b].status = "finished") ~> (b \notin active)

=============================================================================

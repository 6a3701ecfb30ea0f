--------------------------- MODULE Recording_proofs ---------------------------
(***************************************************************************)
(* Proofs about Recording for any chunks, uploads under way, replicas and  *)
(* bounds: its type invariant, that the chunks outlive every failure until *)
(* the file is stored, and that a posted link leads to the file.  That the *)
(* link is posted once is proved for one replica, because finalizationTasks*)
(* is a map of the process.                                                *)
(***************************************************************************)
EXTENDS Recording, TLAPS

-----------------------------------------------------------------------------
(* The inductive invariant *)

\* What a task may do with the document d and the file f that are there now: the key
\* it has loaded is still there, chunks are dropped from the list, or deleted, only
\* when the file is stored, and the link goes out only when the key is.
TaskOK(t, d, f) ==
    /\ t.doc.final => d.final
    /\ t.built \/ t.clear => f # {}
    /\ t.pc \in {"delete", "ready"} => t.built \/ d.final
    /\ t.pc \in {"link", "record"} => d.final

Linked(d, f, n) ==
    /\ d.final => f # {}
    /\ d.status = "ready" \/ n > 0 => d.final

Safe ==
    file = {} =>
      /\ acked \subseteq db.segments
      /\ db.segments \subseteq raw
      /\ \A u \in Calls : up[u] # Nothing /\ up[u].stage = "push" => up[u].chunk \in raw

Kept ==
    ~swept =>
      /\ cleaner = Nothing
      /\ Linked(db, file, sent)
      /\ Safe
      /\ \A p \in Replicas : task[p] # Nothing => TaskOK(task[p], db, file)

Inv == TypeOK /\ Kept

-----------------------------------------------------------------------------
(* What is written to the document *)

LEMMA MarkFields ==
    ASSUME NEW d \in Document, NEW s \in Status, NEW n, n = [d EXCEPT !.status = s]
    PROVE  /\ n \in Document /\ n.status = s /\ n.segments = d.segments
           /\ n.final = d.final /\ n.msg = d.msg /\ n.ver = d.ver
BY DEF Document

LEMMA PushedFields ==
    ASSUME db \in Document, NEW c \in Chunks
    PROVE  /\ Pushed(c) \in Document /\ Pushed(c).segments = db.segments \cup {c}
           /\ Pushed(c).status = "recording" /\ Pushed(c).final = db.final /\ Pushed(c).msg = db.msg
<1> DEFINE M == [db EXCEPT !.segments = db.segments \cup {c}]
           N == Pushed(c)
<1>1. N = [M EXCEPT !.status = "recording"] BY DEF Pushed
<1>2. /\ M \in Document /\ M.segments = db.segments \cup {c} /\ M.final = db.final /\ M.msg = db.msg
  BY DEF Document
<1>3. "recording" \in Status BY DEF Status
<1> HIDE DEF M, N
<1>4. /\ N \in Document /\ N.segments = M.segments /\ N.status = "recording"
      /\ N.final = M.final /\ N.msg = M.msg
  BY <1>1, <1>2, <1>3, MarkFields
<1> QED BY <1>2, <1>4 DEF N

LEMMA WrittenFields ==
    ASSUME db \in Document, NEW t \in Task, NEW status \in Status
    PROVE  /\ Written(t, status) \in Document
           /\ Written(t, status).status = status
           /\ Written(t, status).final = (db.final \/ t.built)
           /\ Written(t, status).segments = (IF t.clear THEN {} ELSE db.segments)
           /\ Written(t, status).msg = db.msg
<1> DEFINE K == [db EXCEPT !.status = status]
           L == [K EXCEPT !.expires = TRUE]
           M == [L EXCEPT !.final = db.final \/ t.built]
           O == [M EXCEPT !.segments = IF t.clear THEN {} ELSE db.segments]
           N == Written(t, status)
<1>1. N = [O EXCEPT !.ver = IF t.clear THEN db.ver + 1 ELSE db.ver] BY DEF Written
<1>2. /\ K \in Document /\ K.status = status /\ K.segments = db.segments /\ K.msg = db.msg
  BY DEF Document
<1>3. (db.final \/ t.built) \in BOOLEAN /\ db.ver \in Nat BY DEF Document, Task
<1> HIDE DEF K, N
<1>4. /\ L \in Document /\ L.status = status /\ L.msg = db.msg
  BY <1>2 DEF Document
<1> HIDE DEF L
<1>5. /\ M \in Document /\ M.status = status /\ M.msg = db.msg /\ M.final = (db.final \/ t.built)
  BY <1>3, <1>4 DEF Document
<1> HIDE DEF M
<1>6. /\ O \in Document /\ O.status = status /\ O.msg = db.msg /\ O.final = M.final
      /\ O.segments = (IF t.clear THEN {} ELSE db.segments)
  BY <1>5 DEF Document
<1> HIDE DEF O
<1>7. /\ N \in Document /\ N.status = O.status /\ N.msg = O.msg /\ N.final = O.final
      /\ N.segments = O.segments
  BY <1>1, <1>3, <1>6 DEF Document
<1> QED BY <1>5, <1>6, <1>7 DEF N

\* What a cleanup writes that had found d.
Cleaned(d) ==
    [db EXCEPT !.status = IF d.status = "expired" THEN @ ELSE "expired",
               !.expires = FALSE, !.final = IF d.final THEN FALSE ELSE @,
               !.segments = IF d.segments # {} THEN {} ELSE @,
               !.ver = IF d.segments # {} THEN @ + 1 ELSE @]

LEMMA CleanedFields ==
    ASSUME db \in Document, NEW d \in Document
    PROVE  Cleaned(d) \in Document /\ Cleaned(d).msg = db.msg
<1> DEFINE K == [db EXCEPT !.status = IF d.status = "expired" THEN db.status ELSE "expired"]
           L == [K EXCEPT !.expires = FALSE]
           M == [L EXCEPT !.final = IF d.final THEN FALSE ELSE db.final]
           O == [M EXCEPT !.segments = IF d.segments # {} THEN {} ELSE db.segments]
           N == Cleaned(d)
<1>1. N = [O EXCEPT !.ver = IF d.segments # {} THEN db.ver + 1 ELSE db.ver] BY DEF Cleaned
<1>2. K \in Document /\ K.msg = db.msg BY DEF Document, Status
<1>3. db.ver \in Nat /\ db.final \in BOOLEAN /\ db.segments \subseteq Chunks BY DEF Document
<1> HIDE DEF K, N
<1>4. L \in Document /\ L.msg = db.msg BY <1>2 DEF Document
<1> HIDE DEF L
<1>5. M \in Document /\ M.msg = db.msg BY <1>3, <1>4 DEF Document
<1> HIDE DEF M
<1>6. O \in Document /\ O.msg = db.msg BY <1>3, <1>5 DEF Document
<1> HIDE DEF O
<1>7. N \in Document /\ N.msg = O.msg BY <1>1, <1>3, <1>6 DEF Document
<1> QED BY <1>6, <1>7 DEF N

-----------------------------------------------------------------------------
(* What happens to a task *)

Tasks == [Replicas -> Task \cup {Nothing}]

\* A task that is at some stage
LEMMA AtType ==
    ASSUME TypeOK, NEW p \in Replicas, task[p] # Nothing
    PROVE  task[p] \in Task /\ task \in Tasks
BY DEF TypeOK, Tasks

LEMMA EndFields ==
    ASSUME TypeOK, NEW p \in Replicas, End(p)
    PROVE  /\ task' \in Tasks /\ task'[p] = Nothing
           /\ \A q \in Replicas \ {p} : task'[q] = task[q]
BY DEF TypeOK, Tasks, End

LEMMA StartedFields ==
    ASSUME TypeOK, NEW p \in Replicas, task' = Started(p)
    PROVE  /\ task' \in Tasks
           /\ \A q \in Replicas : task'[q] = task[q] \/ (task[q] = Nothing /\ task'[q] = Loading)
<1>1. Loading \in Task BY DEF TypeOK, Loading, Task, Stage
<1> QED BY <1>1 DEF TypeOK, Tasks, Started

LEMMA LoadingFields ==
    ASSUME TypeOK
    PROVE  /\ Loading \in Task /\ Loading.doc = db /\ Loading.pc = "load"
           /\ ~Loading.built /\ ~Loading.clear
BY DEF TypeOK, Loading, Task, Stage

-----------------------------------------------------------------------------
(* What keeps the invariant *)

LEMMA KeptBy ==
    ASSUME Inv, TypeOK', swept' = swept, cleaner' = cleaner,
           ~swept =>
             /\ db.final => db'.final
             /\ file # {} => file' # {}
             /\ Linked(db', file', sent')
             /\ Safe'
             /\ \A p \in Replicas :
                  task'[p] # Nothing => task'[p] = task[p] \/ TaskOK(task'[p], db', file')
    PROVE  Inv'
<1>1. ASSUME ~swept', NEW p \in Replicas, task'[p] # Nothing
      PROVE  TaskOK(task'[p], db', file')
  <2>1. CASE TaskOK(task'[p], db', file') BY <2>1
  <2>2. CASE task'[p] = task[p]
    <3>1. TaskOK(task[p], db, file) BY <1>1, <2>2 DEF Inv, Kept
    <3> QED BY <1>1, <2>2, <3>1 DEF TaskOK
  <2> QED BY <1>1, <2>1, <2>2
<1>2. Kept' BY <1>1 DEF Inv, Kept
<1> QED BY <1>2 DEF Inv

LEMMA InitInv == Init => Inv
<1> SUFFICES ASSUME Init PROVE Inv OBVIOUS
<1>1. TypeOK
  <2>1. db \in Document BY DEF Init, Document, Status
  <2> QED BY <2>1 DEF Init, TypeOK
<1>2. Kept BY DEF Init, Kept, Linked, Safe
<1> QED BY <1>1, <1>2 DEF Inv

-----------------------------------------------------------------------------
(* Uploads *)

UpCall == [chunk : Chunks, stage : {"put", "push"}]

LEMMA UploadStartKeeps ==
    ASSUME Inv, NEW u \in Calls, NEW c \in Chunks, UploadStart(u, c)
    PROVE  Inv'
<1>1. TypeOK /\ up \in [Calls -> UpCall \cup {Nothing}] BY DEF Inv, TypeOK, UpCall
<1> DEFINE new == [chunk |-> c, stage |-> "put"]
<1>2. new \in UpCall /\ new.stage = "put" BY DEF UpCall
<1>3. \/ c \in db.segments /\ acked' = acked \cup {c} /\ up' = up
      \/ up' = [up EXCEPT ![u] = new] /\ acked' = acked
  BY DEF UploadStart
<1> HIDE DEF new
<1>4. /\ up' \in [Calls -> UpCall \cup {Nothing}]
      /\ \A v \in Calls : up'[v] = up[v] \/ (up'[v] = new /\ up'[v].stage = "put")
  BY <1>1, <1>2, <1>3
<1>5. /\ UNCHANGED <<db, raw, file, task, finish, cleaner, sent, swept, mishaps, finishes, crons>>
  BY DEF UploadStart
<1>6. acked' \subseteq Chunks /\ (acked \subseteq db.segments => acked' \subseteq db.segments)
  BY <1>1, <1>3 DEF TypeOK
<1>7. TypeOK' BY <1>1, <1>4, <1>5, <1>6 DEF TypeOK, UpCall
<1>8. Safe => Safe'
  <2> SUFFICES ASSUME Safe, file' = {}
               PROVE  /\ acked' \subseteq db'.segments /\ db'.segments \subseteq raw'
                      /\ \A v \in Calls : up'[v] # Nothing /\ up'[v].stage = "push" => up'[v].chunk \in raw'
    BY DEF Safe
  <2>1. \A v \in Calls : up[v] # Nothing /\ up[v].stage = "push" => up[v].chunk \in raw
    BY <1>5 DEF Safe
  <2>2. ASSUME NEW v \in Calls, up'[v] # Nothing, up'[v].stage = "push" PROVE up'[v].chunk \in raw'
    <3>1. up'[v] = up[v] BY <1>4, <2>2
    <3> QED BY <1>5, <2>1, <2>2, <3>1
  <2> QED BY <1>5, <1>6, <2>2 DEF Safe
<1> QED BY <1>5, <1>7, <1>8, KeptBy DEF Inv, Kept

LEMMA UploadStoredKeeps ==
    ASSUME Inv, NEW u \in Calls, UploadStored(u)
    PROVE  Inv'
<1>1. TypeOK /\ up \in [Calls -> UpCall \cup {Nothing}] BY DEF Inv, TypeOK, UpCall
<1>2. up[u] \in UpCall BY <1>1 DEF UploadStored
<1>3. /\ up' = [up EXCEPT ![u].stage = "push"] /\ raw' = raw \cup {up[u].chunk}
      /\ UNCHANGED <<db, file, task, finish, cleaner, acked, sent, swept, mishaps, finishes, crons>>
  BY DEF UploadStored
<1>4. /\ up' \in [Calls -> UpCall \cup {Nothing}] /\ up'[u].chunk = up[u].chunk
      /\ up[u].chunk \in Chunks /\ \A v \in Calls \ {u} : up'[v] = up[v]
  BY <1>1, <1>2, <1>3 DEF UpCall
<1>5. TypeOK' BY <1>1, <1>3, <1>4 DEF TypeOK, UpCall
<1>6. Safe => Safe' BY <1>3, <1>4 DEF Safe
<1> QED BY <1>3, <1>5, <1>6, KeptBy DEF Inv, Kept

LEMMA UploadPushedKeeps ==
    ASSUME Inv, NEW u \in Calls, UploadPushed(u)
    PROVE  Inv'
<1> DEFINE c == up[u].chunk
<1>1. TypeOK /\ db \in Document /\ up \in [Calls -> UpCall \cup {Nothing}] BY DEF Inv, TypeOK, UpCall
<1>2. up[u] # Nothing /\ up[u].stage = "push" /\ c \in Chunks BY <1>1 DEF UploadPushed, UpCall
<1>3. /\ db' = IF c \in db.segments THEN db ELSE Pushed(c)
      /\ acked' = acked \cup {c} /\ up' = [up EXCEPT ![u] = Nothing]
      /\ UNCHANGED <<raw, file, task, finish, cleaner, sent, swept, mishaps, finishes, crons>>
  BY DEF UploadPushed
<1>4. /\ up' \in [Calls -> UpCall \cup {Nothing}]
      /\ \A v \in Calls : up'[v] = up[v] \/ up'[v] = Nothing
  BY <1>1, <1>3
<1>5. (Safe /\ file = {}) => c \in raw BY <1>2 DEF Safe
<1> HIDE DEF c
<1>6. /\ db' \in Document /\ db'.segments = db.segments \cup {c} /\ db'.final = db.final
      /\ db'.status = "ready" => db.status = "ready"
  BY <1>1, <1>2, <1>3, PushedFields
<1>7. acked' \subseteq Chunks BY <1>1, <1>2, <1>3 DEF TypeOK
<1>8. TypeOK' BY <1>1, <1>3, <1>4, <1>6, <1>7 DEF TypeOK, UpCall
<1>9. Safe => Safe' BY <1>3, <1>4, <1>5, <1>6 DEF Safe
<1>10. Linked(db, file, sent) => Linked(db', file', sent') BY <1>3, <1>6 DEF Linked
<1> QED BY <1>3, <1>6, <1>8, <1>9, <1>10, KeptBy DEF Inv, Kept

LEMMA UploadFailsKeeps ==
    ASSUME Inv, NEW u \in Calls, UploadFails(u)
    PROVE  Inv'
<1>1. TypeOK BY DEF Inv
<1>2. TypeOK' BY <1>1 DEF TypeOK, UploadFails
<1>3. \A v \in Calls : up'[v] = up[v] \/ up'[v] = Nothing BY <1>1 DEF TypeOK, UploadFails
<1>4. UNCHANGED <<db, raw, file, task, finish, cleaner, acked, sent, swept, mishaps, finishes, crons>>
  BY DEF UploadFails
<1>5. Safe => Safe' BY <1>3, <1>4 DEF Safe
<1> QED BY <1>2, <1>4, <1>5, KeptBy DEF Inv, Kept

-----------------------------------------------------------------------------
(* Starting a finalization *)

\* What a task holds when it starts is what the document says.
LEMMA LoadingOK ==
    ASSUME Inv, ~swept, NEW d, NEW f, db.final => d.final
    PROVE  TaskOK(Loading, d, f)
BY LoadingFields DEF Inv, TaskOK

LEMMA FinishStartKeeps ==
    ASSUME Inv, FinishStart
    PROVE  Inv'
<1>1. TypeOK /\ db.status \in Status /\ db.msg \in BOOLEAN BY DEF Inv, TypeOK, Document
<1>2. TypeOK' BY <1>1 DEF TypeOK, FinishStart
<1>3. UNCHANGED <<db, raw, file, up, task, cleaner, acked, sent, swept>> BY DEF FinishStart
<1> QED BY <1>2, <1>3, KeptBy DEF Inv, Kept, Safe

LEMMA FinishSavedKeeps ==
    ASSUME Inv, NEW p \in Replicas, FinishSaved(p)
    PROVE  Inv'
<1>1. TypeOK /\ db \in Document BY DEF Inv, TypeOK
<1>2. /\ db' = db \/ db' = [db EXCEPT !.status = "finalizing"]
      /\ task' = task \/ task' = Started(p)
      /\ finish' = Nothing
      /\ UNCHANGED <<raw, file, up, cleaner, acked, sent, swept, mishaps, finishes, crons>>
  BY DEF FinishSaved
<1>3. "finalizing" \in Status BY DEF Status
<1>4. /\ db' \in Document /\ db'.segments = db.segments /\ db'.final = db.final
      /\ db'.status = "ready" => db.status = "ready"
  BY <1>1, <1>2, <1>3, MarkFields
<1>5. /\ task' \in Tasks
      /\ \A q \in Replicas : task'[q] = task[q] \/ task'[q] = Loading
  BY <1>1, <1>2, StartedFields DEF TypeOK, Tasks
<1>6. TypeOK' BY <1>1, <1>2, <1>4, <1>5 DEF TypeOK, Tasks
<1>7. ~swept => TaskOK(Loading, db', file') BY <1>4, LoadingOK
<1>8. Safe => Safe' BY <1>2, <1>4 DEF Safe
<1>9. Linked(db, file, sent) => Linked(db', file', sent') BY <1>2, <1>4 DEF Linked
<1> QED BY <1>2, <1>4, <1>5, <1>6, <1>7, <1>8, <1>9, KeptBy DEF Inv, Kept

LEMMA CronFinalizeKeeps ==
    ASSUME Inv, NEW p \in Replicas, CronFinalize(p)
    PROVE  Inv'
<1>1. TypeOK BY DEF Inv
<1>2. /\ task' = Started(p)
      /\ UNCHANGED <<db, raw, file, up, finish, cleaner, acked, sent, swept, mishaps, finishes>>
  BY DEF CronFinalize
<1>3. /\ task' \in Tasks
      /\ \A q \in Replicas : task'[q] = task[q] \/ task'[q] = Loading
  BY <1>1, <1>2, StartedFields
<1>4. TypeOK'
  <2>1. crons' \in Nat BY <1>1 DEF TypeOK, CronFinalize
  <2> QED BY <1>1, <1>2, <1>3, <2>1 DEF TypeOK, Tasks
<1>5. ~swept => TaskOK(Loading, db', file') BY <1>2, LoadingOK
<1>6. Safe => Safe' BY <1>2 DEF Safe
<1> QED BY <1>2, <1>3, <1>4, <1>5, <1>6, KeptBy DEF Inv, Kept

-----------------------------------------------------------------------------
(* The steps of a finalization *)

\* A step of p's task that writes nothing but the task
LEMMA TaskMoves ==
    ASSUME Inv, NEW p \in Replicas, task' \in Tasks, \A q \in Replicas \ {p} : task'[q] = task[q],
           UNCHANGED <<db, raw, file, up, finish, cleaner, acked, sent, swept, finishes, crons>>,
           mishaps' \in Nat,
           ~swept /\ task'[p] # Nothing => TaskOK(task'[p], db, file)
    PROVE  Inv'
<1>1. TypeOK' BY DEF Inv, TypeOK, Tasks
<1>2. Safe => Safe' BY DEF Safe
<1>3. \A q \in Replicas : ~swept /\ task'[q] # Nothing => task'[q] = task[q] \/ TaskOK(task'[q], db', file')
  OBVIOUS
<1> QED BY <1>1, <1>2, <1>3, KeptBy DEF Inv, Kept

\* A task that is at the stage pc and whose next stage is one of `to`
LEMMA GotoFields ==
    ASSUME TypeOK, NEW p \in Replicas, task[p] # Nothing, NEW pc \in Stage, Goto(p, pc)
    PROVE  /\ task' \in Tasks /\ task'[p] \in Task /\ task'[p].pc = pc /\ task'[p].doc = task[p].doc
           /\ task'[p].built = task[p].built /\ task'[p].clear = task[p].clear
           /\ \A q \in Replicas \ {p} : task'[q] = task[q]
<1>1. task[p] \in Task /\ task \in Tasks BY AtType
<1> QED BY <1>1 DEF Goto, Tasks, Task

\* Whether a task stays in order depends on its stage, its document and its two flags.
LEMMA TaskOKBy ==
    ASSUME NEW t, NEW n, NEW d, NEW f, TaskOK(t, d, f),
           n.doc = t.doc, n.built = t.built, n.clear = t.clear,
           n.pc \notin {"delete", "ready", "link", "record"}
    PROVE  TaskOK(n, d, f)
BY DEF TaskOK

LEMMA Current ==
    ASSUME Inv, ~swept, NEW p \in Replicas, task[p] # Nothing
    PROVE  TaskOK(task[p], db, file) /\ Linked(db, file, sent)
BY DEF Inv, Kept

LEMMA TaskLoadKeeps ==
    ASSUME Inv, NEW p \in Replicas, TaskLoad(p)
    PROVE  Inv'
<1>1. TypeOK /\ db \in Document /\ mishaps \in Nat BY DEF Inv, TypeOK
<1>2. task[p] # Nothing /\ task[p].pc = "load" BY DEF TaskLoad, At
<1>3. task[p] \in Task /\ task \in Tasks BY <1>1, <1>2, AtType
<1>4. UNCHANGED <<db, raw, file, up, finish, cleaner, acked, sent, swept, mishaps, finishes, crons>>
  BY DEF TaskLoad
<1>5. CASE End(p)
  BY <1>1, <1>4, <1>5, EndFields, TaskMoves
<1>6. CASE task' = [task EXCEPT ![p].doc = db, ![p].work = db.segments, ![p].pc = "mark"]
  <2> DEFINE F == [task EXCEPT ![p].doc = db]
             G == [F EXCEPT ![p].work = db.segments]
  <2>1. task' = [G EXCEPT ![p].pc = "mark"] BY <1>6
  <2>2. /\ F \in Tasks /\ F[p] \in Task /\ F[p].doc = db
        /\ F[p].built = task[p].built /\ F[p].clear = task[p].clear
        /\ \A q \in Replicas \ {p} : F[q] = task[q]
    BY <1>1, <1>3 DEF Tasks, Task
  <2> HIDE DEF F
  <2>3. db.segments \in SUBSET Chunks BY <1>1 DEF Document
  <2>4. /\ G \in Tasks /\ G[p] \in Task /\ G[p].doc = F[p].doc
        /\ G[p].built = F[p].built /\ G[p].clear = F[p].clear
        /\ \A q \in Replicas \ {p} : G[q] = F[q]
    BY <2>2, <2>3 DEF Tasks, Task
  <2> HIDE DEF G
  <2>5. "mark" \in Stage BY DEF Stage
  <2>6. /\ task' \in Tasks /\ task'[p].pc = "mark" /\ task'[p].doc = G[p].doc
        /\ task'[p].built = G[p].built /\ task'[p].clear = G[p].clear
        /\ \A q \in Replicas \ {p} : task'[q] = G[q]
    BY <2>1, <2>4, <2>5 DEF Tasks, Task
  <2>7. ~swept => TaskOK(task'[p], db, file)
    BY <1>2, <2>2, <2>4, <2>6, Current DEF TaskOK
  <2> QED BY <1>1, <1>4, <2>2, <2>4, <2>6, <2>7, TaskMoves
<1> QED BY <1>5, <1>6 DEF TaskLoad

LEMMA TaskMarkKeeps ==
    ASSUME Inv, NEW p \in Replicas, TaskMark(p)
    PROVE  Inv'
<1>1. TypeOK /\ db \in Document BY DEF Inv, TypeOK
<1>2. task[p] # Nothing /\ task[p].pc = "mark" BY DEF TaskMark, At
<1> DEFINE pc == IF task[p].doc.final THEN "delete"
                 ELSE IF task[p].work = {} THEN "wait" ELSE "assemble"
<1>3. /\ db' = db \/ db' = [db EXCEPT !.status = "finalizing"]
      /\ Goto(p, pc)
      /\ UNCHANGED <<raw, file, up, finish, cleaner, acked, sent, swept, mishaps, finishes, crons>>
  BY DEF TaskMark
<1>4. pc \in Stage /\ (pc = "delete" => task[p].doc.final) /\ pc \notin {"ready", "link", "record"}
  BY DEF Stage
<1> HIDE DEF pc
<1>5. "finalizing" \in Status BY DEF Status
<1>6. /\ db' \in Document /\ db'.segments = db.segments /\ db'.final = db.final
      /\ db'.status = "ready" => db.status = "ready"
  BY <1>1, <1>3, <1>5, MarkFields
<1>7. /\ task' \in Tasks /\ task'[p].pc = pc /\ task'[p].doc = task[p].doc
      /\ task'[p].built = task[p].built /\ task'[p].clear = task[p].clear
      /\ \A q \in Replicas \ {p} : task'[q] = task[q]
  BY <1>1, <1>2, <1>3, <1>4, GotoFields
<1>8. TypeOK' BY <1>1, <1>3, <1>6, <1>7 DEF TypeOK, Tasks
<1>9. Safe => Safe' BY <1>3, <1>6 DEF Safe
<1>10. Linked(db, file, sent) => Linked(db', file', sent') BY <1>3, <1>6 DEF Linked
<1>11. ~swept => TaskOK(task'[p], db', file')
  BY <1>2, <1>3, <1>4, <1>6, <1>7, Current DEF TaskOK
<1>12. \A q \in Replicas : ~swept /\ task'[q] # Nothing =>
         task'[q] = task[q] \/ TaskOK(task'[q], db', file')
  BY <1>7, <1>11
<1> QED BY <1>3, <1>6, <1>8, <1>9, <1>10, <1>12, KeptBy DEF Inv, Kept

LEMMA TaskWaitKeeps ==
    ASSUME Inv, NEW p \in Replicas, TaskWait(p)
    PROVE  Inv'
<1>1. TypeOK /\ db \in Document /\ mishaps \in Nat BY DEF Inv, TypeOK
<1>2. task[p] # Nothing /\ task[p].pc = "wait" BY DEF TaskWait, At
<1>3. task[p] \in Task /\ task \in Tasks BY <1>1, <1>2, AtType
<1>4. UNCHANGED <<db, raw, file, up, finish, cleaner, acked, sent, swept, mishaps, finishes, crons>>
  BY DEF TaskWait
<1>5. "fail" \in Stage /\ "assemble" \in Stage BY DEF Stage
<1>6. CASE task' = [task EXCEPT ![p].work = db.segments, ![p].pc = "assemble"]
  <2> DEFINE F == [task EXCEPT ![p].work = db.segments]
  <2>1. task' = [F EXCEPT ![p].pc = "assemble"] BY <1>6
  <2>2. db.segments \in SUBSET Chunks BY <1>1 DEF Document
  <2>3. /\ F \in Tasks /\ F[p] \in Task /\ F[p].doc = task[p].doc
        /\ F[p].built = task[p].built /\ F[p].clear = task[p].clear
        /\ \A q \in Replicas \ {p} : F[q] = task[q]
    BY <1>3, <2>2 DEF Tasks, Task
  <2> HIDE DEF F
  <2>4. /\ task' \in Tasks /\ task'[p].pc = "assemble" /\ task'[p].doc = F[p].doc
        /\ task'[p].built = F[p].built /\ task'[p].clear = F[p].clear
        /\ \A q \in Replicas \ {p} : task'[q] = F[q]
    BY <1>5, <2>1, <2>3 DEF Tasks, Task
  <2>5. ~swept => TaskOK(task'[p], db, file)
    BY <1>2, <2>3, <2>4, Current, TaskOKBy
  <2> QED BY <1>1, <1>4, <2>3, <2>4, <2>5, TaskMoves
<1>7. CASE Goto(p, "fail")
  <2>1. /\ task' \in Tasks /\ task'[p].pc = "fail" /\ task'[p].doc = task[p].doc
        /\ task'[p].built = task[p].built /\ task'[p].clear = task[p].clear
        /\ \A q \in Replicas \ {p} : task'[q] = task[q]
    BY <1>1, <1>2, <1>5, <1>7, GotoFields
  <2>2. ~swept => TaskOK(task'[p], db, file) BY <1>2, <2>1, Current, TaskOKBy
  <2> QED BY <1>1, <1>4, <2>1, <2>2, TaskMoves
<1> QED BY <1>6, <1>7 DEF TaskWait

LEMMA TaskAssembleKeeps ==
    ASSUME Inv, NEW p \in Replicas, TaskAssemble(p)
    PROVE  Inv'
<1> DEFINE pc == IF task[p].work \subseteq raw THEN "upload" ELSE "fail"
<1>1. TypeOK /\ mishaps \in Nat BY DEF Inv, TypeOK
<1>2. task[p] # Nothing /\ Goto(p, pc) BY DEF TaskAssemble, At
<1>3. pc \in Stage /\ pc \notin {"delete", "ready", "link", "record"} BY DEF Stage
<1> HIDE DEF pc
<1>4. /\ task' \in Tasks /\ task'[p].pc = pc /\ task'[p].doc = task[p].doc
      /\ task'[p].built = task[p].built /\ task'[p].clear = task[p].clear
      /\ \A q \in Replicas \ {p} : task'[q] = task[q]
  BY <1>1, <1>2, <1>3, GotoFields
<1>5. ~swept => TaskOK(task'[p], db, file) BY <1>2, <1>3, <1>4, Current, TaskOKBy
<1>6. UNCHANGED <<db, raw, file, up, finish, cleaner, acked, sent, swept, mishaps, finishes, crons>>
  BY DEF TaskAssemble
<1> QED BY <1>1, <1>4, <1>5, <1>6, TaskMoves

LEMMA TaskUploadKeeps ==
    ASSUME Inv, NEW p \in Replicas, TaskUpload(p)
    PROVE  Inv'
<1>1. TypeOK BY DEF Inv
<1>2. task[p] # Nothing /\ task[p].pc = "upload" BY DEF TaskUpload, At
<1>3. task[p] \in Task /\ task \in Tasks BY <1>1, <1>2, AtType
<1>4. /\ file' = {task[p].work}
      /\ task' = [task EXCEPT ![p].built = TRUE, ![p].pc = "delete"]
      /\ UNCHANGED <<db, raw, up, finish, cleaner, acked, sent, swept, mishaps, finishes, crons>>
  BY DEF TaskUpload
<1>5. file' # {} /\ file' \subseteq SUBSET Chunks
  <2>1. task[p].work \subseteq Chunks BY <1>3 DEF Task
  <2> QED BY <1>4, <2>1
<1> DEFINE F == [task EXCEPT ![p].built = TRUE]
<1>6. task' = [F EXCEPT ![p].pc = "delete"] BY <1>4
<1>7. /\ F \in Tasks /\ F[p] \in Task /\ F[p].doc = task[p].doc /\ F[p].built
      /\ \A q \in Replicas \ {p} : F[q] = task[q]
  BY <1>3 DEF Tasks, Task
<1> HIDE DEF F
<1>8. "delete" \in Stage BY DEF Stage
<1>9. /\ task' \in Tasks /\ task'[p].pc = "delete" /\ task'[p].doc = F[p].doc
      /\ task'[p].built = F[p].built /\ \A q \in Replicas \ {p} : task'[q] = F[q]
  BY <1>6, <1>7, <1>8 DEF Tasks, Task
<1>10. TypeOK' BY <1>1, <1>4, <1>5, <1>9 DEF TypeOK, Tasks
<1>11. Safe' BY <1>5 DEF Safe
<1>12. ~swept => TaskOK(task'[p], db', file')
  BY <1>2, <1>4, <1>5, <1>7, <1>9, Current DEF TaskOK
<1>13. ~swept => Linked(db', file', sent') BY <1>2, <1>4, <1>5, Current DEF Linked
<1>14. \A q \in Replicas : ~swept /\ task'[q] # Nothing =>
         task'[q] = task[q] \/ TaskOK(task'[q], db', file')
  BY <1>7, <1>9, <1>12
<1> QED BY <1>4, <1>5, <1>10, <1>11, <1>13, <1>14, KeptBy

LEMMA TaskDeleteKeeps ==
    ASSUME Inv, NEW p \in Replicas, TaskDelete(p)
    PROVE  Inv'
<1>1. TypeOK BY DEF Inv
<1>2. task[p] # Nothing /\ task[p].pc = "delete" BY DEF TaskDelete, At
<1>3. task[p] \in Task /\ task \in Tasks BY <1>1, <1>2, AtType
<1> DEFINE clear == task[p].doc.segments # {}
<1>4. /\ raw' \subseteq raw
      /\ task' = [task EXCEPT ![p].clear = clear, ![p].pc = "ready"]
      /\ UNCHANGED <<db, file, up, finish, cleaner, acked, sent, swept, mishaps, finishes, crons>>
  BY DEF TaskDelete
<1>5. clear \in BOOLEAN OBVIOUS
<1> HIDE DEF clear
<1> DEFINE F == [task EXCEPT ![p].clear = clear]
<1>6. task' = [F EXCEPT ![p].pc = "ready"] BY <1>4
<1>7. /\ F \in Tasks /\ F[p] \in Task /\ F[p].doc = task[p].doc /\ F[p].built = task[p].built
      /\ \A q \in Replicas \ {p} : F[q] = task[q]
  BY <1>3, <1>5 DEF Tasks, Task
<1> HIDE DEF F
<1>8. "ready" \in Stage BY DEF Stage
<1>9. /\ task' \in Tasks /\ task'[p].pc = "ready" /\ task'[p].doc = F[p].doc
      /\ task'[p].built = F[p].built /\ \A q \in Replicas \ {p} : task'[q] = F[q]
  BY <1>6, <1>7, <1>8 DEF Tasks, Task
<1>10. TypeOK' BY <1>1, <1>4, <1>9 DEF TypeOK, Tasks
<1>11. ~swept => file # {}
  BY <1>2, Current DEF TaskOK, Linked
<1>12. ~swept => Safe' BY <1>4, <1>11 DEF Safe
<1>13. ~swept => TaskOK(task'[p], db', file')
  BY <1>2, <1>4, <1>7, <1>9, <1>11, Current DEF TaskOK
<1>14. ~swept => Linked(db', file', sent') BY <1>2, <1>4, Current DEF Linked
<1>15. \A q \in Replicas : ~swept /\ task'[q] # Nothing =>
         task'[q] = task[q] \/ TaskOK(task'[q], db', file')
  BY <1>7, <1>9, <1>13
<1> QED BY <1>4, <1>10, <1>12, <1>14, <1>15, KeptBy

\* The saves of a task that has the file, or finds the key on the document, and of
\* one that has failed
LEMMA WriteKeeps ==
    ASSUME Inv, NEW p \in Replicas, task[p] # Nothing, NEW status \in Status \ {"recording"},
           db' = Written(task[p], status), task' \in Tasks,
           \A q \in Replicas \ {p} : task'[q] = task[q],
           UNCHANGED <<raw, file, up, finish, cleaner, acked, sent, swept, mishaps, finishes, crons>>,
           status = "ready" => task[p].pc = "ready",
           task'[p] # Nothing =>
             /\ task'[p].doc = task[p].doc /\ ~task'[p].built /\ ~task'[p].clear
             /\ task'[p].pc \in {"link", "fail"} /\ task[p].pc = "ready"
    PROVE  Inv'
<1>1. TypeOK /\ db \in Document BY DEF Inv, TypeOK
<1>2. task[p] \in Task BY <1>1, AtType
<1>3. /\ db' \in Document /\ db'.status = status /\ db'.final = (db.final \/ task[p].built)
      /\ db'.segments = (IF task[p].clear THEN {} ELSE db.segments)
  BY <1>1, <1>2, WrittenFields
<1>4. TypeOK' BY <1>1, <1>3 DEF TypeOK, Tasks
<1>5. db.final \in BOOLEAN /\ task[p].built \in BOOLEAN /\ task[p].clear \in BOOLEAN
  BY <1>1, <1>2 DEF Document, Task
<1>6. ~swept => Safe'
  <2> SUFFICES ASSUME ~swept, file = {} PROVE Safe'
    BY DEF Safe
  <2>1. ~task[p].clear BY Current DEF TaskOK
  <2>2. Safe BY DEF Inv, Kept
  <2> QED BY <1>3, <2>1, <2>2 DEF Safe
<1>7. ~swept => Linked(db', file', sent')
  BY <1>3, <1>5, Current DEF Linked, TaskOK
<1>8. ~swept /\ task'[p] # Nothing => TaskOK(task'[p], db', file')
  BY <1>3, <1>5, Current DEF TaskOK
<1>9. \A q \in Replicas : ~swept /\ task'[q] # Nothing =>
        task'[q] = task[q] \/ TaskOK(task'[q], db', file')
  BY <1>8
<1>10. db.final => db'.final BY <1>3, <1>5
<1> QED BY <1>4, <1>6, <1>7, <1>9, <1>10, KeptBy

LEMMA TaskReadyKeeps ==
    ASSUME Inv, NEW p \in Replicas, TaskReady(p)
    PROVE  Inv'
<1>1. TypeOK /\ mishaps \in Nat BY DEF Inv, TypeOK
<1>2. task[p] # Nothing /\ task[p].pc = "ready" BY DEF TaskReady, At
<1>3. task[p] \in Task /\ task \in Tasks BY <1>1, <1>2, AtType
<1>4. UNCHANGED <<raw, file, up, finish, cleaner, acked, sent, swept, mishaps, finishes, crons>>
  BY DEF TaskReady
<1>5. {"fail", "link"} \subseteq Stage /\ "ready" \in Status BY DEF Stage, Status
<1>6. CASE Conflict(task[p])
  <2>1. Goto(p, "fail") /\ UNCHANGED db BY <1>6 DEF TaskReady
  <2>2. /\ task' \in Tasks /\ task'[p].pc = "fail" /\ task'[p].doc = task[p].doc
        /\ task'[p].built = task[p].built /\ task'[p].clear = task[p].clear
        /\ \A q \in Replicas \ {p} : task'[q] = task[q]
    BY <1>1, <1>2, <1>5, <2>1, GotoFields
  <2>3. ~swept => TaskOK(task'[p], db, file) BY <1>2, <2>2, Current, TaskOKBy
  <2> QED BY <1>1, <1>4, <2>1, <2>2, <2>3, TaskMoves
<1>7. CASE ~Conflict(task[p])
  <2> DEFINE pc == IF db.url THEN "link" ELSE "fail"
             F == [task EXCEPT ![p].built = FALSE]
             G == [F EXCEPT ![p].clear = FALSE]
  <2>1. /\ db' = Written(task[p], "ready")
        /\ task' = [G EXCEPT ![p].pc = pc]
    BY <1>7 DEF TaskReady
  <2>2. /\ F \in Tasks /\ F[p] \in Task /\ F[p].doc = task[p].doc /\ ~F[p].built
        /\ \A q \in Replicas \ {p} : F[q] = task[q]
    BY <1>3 DEF Tasks, Task
  <2> HIDE DEF F
  <2>3. /\ G \in Tasks /\ G[p] \in Task /\ G[p].doc = F[p].doc /\ G[p].built = F[p].built
        /\ ~G[p].clear /\ \A q \in Replicas \ {p} : G[q] = F[q]
    BY <2>2 DEF Tasks, Task
  <2> HIDE DEF G
  <2>4. pc \in {"link", "fail"} /\ pc \in Stage BY <1>5
  <2> HIDE DEF pc
  <2>5. /\ task' \in Tasks /\ task'[p].pc = pc /\ task'[p].doc = G[p].doc
        /\ task'[p].built = G[p].built /\ task'[p].clear = G[p].clear
        /\ \A q \in Replicas \ {p} : task'[q] = G[q]
    BY <2>1, <2>3, <2>4 DEF Tasks, Task
  <2>6. /\ task'[p].doc = task[p].doc /\ ~task'[p].built /\ ~task'[p].clear
        /\ task'[p].pc \in {"link", "fail"}
        /\ \A q \in Replicas \ {p} : task'[q] = task[q]
    BY <2>2, <2>3, <2>4, <2>5
  <2> QED BY <1>2, <1>4, <1>5, <2>1, <2>5, <2>6, WriteKeeps
<1> QED BY <1>6, <1>7

LEMMA TaskFailKeeps ==
    ASSUME Inv, NEW p \in Replicas, TaskFail(p)
    PROVE  Inv'
<1>1. TypeOK /\ mishaps \in Nat BY DEF Inv, TypeOK
<1>2. task[p] # Nothing /\ task[p].pc = "fail" /\ End(p) BY DEF TaskFail, At
<1>3. /\ task' \in Tasks /\ task'[p] = Nothing /\ \A q \in Replicas \ {p} : task'[q] = task[q]
  BY <1>1, <1>2, EndFields
<1>4. UNCHANGED <<raw, file, up, finish, cleaner, acked, sent, swept, mishaps, finishes, crons>>
  BY DEF TaskFail
<1>5. CASE Conflict(task[p])
  <2>1. UNCHANGED db BY <1>5 DEF TaskFail
  <2> QED BY <1>1, <1>3, <1>4, <2>1, TaskMoves
<1>6. CASE ~Conflict(task[p])
  <2>1. db' = Written(task[p], "failed") /\ "failed" \in Status \ {"recording"}
    BY <1>6 DEF TaskFail, Status
  <2> QED BY <1>2, <1>3, <1>4, <2>1, WriteKeeps
<1> QED BY <1>5, <1>6

LEMMA TaskLinkKeeps ==
    ASSUME Inv, NEW p \in Replicas, TaskLink(p)
    PROVE  Inv'
<1>1. TypeOK /\ mishaps \in Nat /\ sent \in Nat BY DEF Inv, TypeOK
<1>2. task[p] # Nothing /\ task[p].pc = "link" BY DEF TaskLink, At
<1>3. UNCHANGED <<db, raw, file, up, finish, cleaner, acked, swept, mishaps, finishes, crons>>
  BY DEF TaskLink
<1>4. CASE End(p) /\ UNCHANGED sent
  BY <1>1, <1>3, <1>4, EndFields, TaskMoves
<1>5. CASE Goto(p, "record") /\ sent' = sent + 1
  <2>1. "record" \in Stage BY DEF Stage
  <2>2. /\ task' \in Tasks /\ task'[p].pc = "record" /\ task'[p].doc = task[p].doc
        /\ task'[p].built = task[p].built /\ task'[p].clear = task[p].clear
        /\ \A q \in Replicas \ {p} : task'[q] = task[q]
    BY <1>1, <1>2, <1>5, <2>1, GotoFields
  <2>3. sent' \in Nat BY <1>1, <1>5
  <2>4. TypeOK' BY <1>1, <1>3, <2>2, <2>3 DEF TypeOK, Tasks
  <2>5. ~swept => TaskOK(task'[p], db', file') BY <1>2, <1>3, <2>2, Current DEF TaskOK
  <2>6. ~swept => Linked(db', file', sent') BY <1>2, <1>3, Current DEF Linked, TaskOK
  <2>7. Safe => Safe' BY <1>3 DEF Safe
  <2>8. \A q \in Replicas : ~swept /\ task'[q] # Nothing =>
          task'[q] = task[q] \/ TaskOK(task'[q], db', file')
    BY <2>2, <2>5
  <2> QED BY <1>3, <2>4, <2>6, <2>7, <2>8, KeptBy DEF Inv, Kept
<1> QED BY <1>4, <1>5 DEF TaskLink

LEMMA TaskRecordKeeps ==
    ASSUME Inv, NEW p \in Replicas, TaskRecord(p)
    PROVE  Inv'
<1>1. TypeOK /\ db \in Document BY DEF Inv, TypeOK
<1>2. /\ db' = [db EXCEPT !.msg = TRUE] /\ End(p)
      /\ UNCHANGED <<raw, file, up, finish, cleaner, acked, sent, swept, mishaps, finishes, crons>>
  BY DEF TaskRecord
<1>3. /\ db' \in Document /\ db'.segments = db.segments /\ db'.final = db.final
      /\ db'.status = db.status
  BY <1>1, <1>2 DEF Document
<1>4. /\ task' \in Tasks /\ task'[p] = Nothing /\ \A q \in Replicas \ {p} : task'[q] = task[q]
  BY <1>1, <1>2, EndFields
<1>5. TypeOK' BY <1>1, <1>2, <1>3, <1>4 DEF TypeOK, Tasks
<1>6. Safe => Safe' BY <1>2, <1>3 DEF Safe
<1>7. Linked(db, file, sent) => Linked(db', file', sent') BY <1>2, <1>3 DEF Linked
<1> QED BY <1>2, <1>3, <1>4, <1>5, <1>6, <1>7, KeptBy DEF Inv, Kept

LEMMA TaskErrorKeeps ==
    ASSUME Inv, NEW p \in Replicas, TaskError(p)
    PROVE  Inv'
<1>1. TypeOK BY DEF Inv
<1>2. task[p] # Nothing BY DEF TaskError
<1>3. UNCHANGED <<db, raw, file, up, finish, cleaner, acked, sent, swept, finishes, crons>>
  BY DEF TaskError
<1>4. mishaps' \in Nat BY <1>1 DEF TaskError, TypeOK
<1>5. CASE End(p) BY <1>1, <1>3, <1>4, <1>5, EndFields, TaskMoves
<1>6. CASE Goto(p, "fail")
  <2>1. "fail" \in Stage BY DEF Stage
  <2>2. /\ task' \in Tasks /\ task'[p].pc = "fail" /\ task'[p].doc = task[p].doc
        /\ task'[p].built = task[p].built /\ task'[p].clear = task[p].clear
        /\ \A q \in Replicas \ {p} : task'[q] = task[q]
    BY <1>1, <1>2, <1>6, <2>1, GotoFields
  <2>3. ~swept => TaskOK(task'[p], db, file) BY <1>2, <2>2, Current, TaskOKBy
  <2> QED BY <1>3, <1>4, <2>2, <2>3, TaskMoves
<1> QED BY <1>5, <1>6 DEF TaskError

-----------------------------------------------------------------------------
(* The cleanup: once it has begun, only the type is left to keep. *)

LEMMA SweptKeeps ==
    ASSUME Inv, TypeOK', swept'
    PROVE  Inv'
BY DEF Inv, Kept

LEMMA CleanupKeeps ==
    ASSUME Inv, Cleanup
    PROVE  Inv'
<1>1. TypeOK /\ db \in Document BY DEF Inv, TypeOK
<1>2. CASE CleanupStart
  <2>1. TypeOK' BY <1>1, <1>2 DEF TypeOK, CleanupStart
  <2> QED BY <1>2, <2>1, SweptKeeps DEF CleanupStart
<1>3. CASE CleanupDelete \/ CleanupSaved \/ CleanupFails
  <2>1. cleaner # Nothing /\ swept' = swept
    BY <1>3 DEF CleanupDelete, CleanupSaved, CleanupFails
  <2>2. swept /\ cleaner \in [doc : Document, deleted : BOOLEAN] BY <1>1, <2>1 DEF Inv, Kept, TypeOK
  <2>3. CASE CleanupDelete
    <3>1. raw' \subseteq raw /\ file' \subseteq SUBSET Chunks
      BY <1>1, <2>3 DEF CleanupDelete, TypeOK
    <3>2. cleaner' \in [doc : Document, deleted : BOOLEAN] BY <2>2, <2>3 DEF CleanupDelete
    <3> QED BY <1>1, <2>1, <2>2, <2>3, <3>1, <3>2, SweptKeeps DEF CleanupDelete, TypeOK
  <2>4. CASE CleanupSaved
    <3>1. cleaner.doc \in Document BY <2>2
    <3>2. db' = db \/ db' = Cleaned(cleaner.doc) BY <2>4 DEF CleanupSaved, Cleaned
    <3>3. db' \in Document BY <1>1, <3>1, <3>2, CleanedFields
    <3> QED BY <1>1, <2>1, <2>2, <2>4, <3>3, SweptKeeps DEF CleanupSaved, TypeOK
  <2>5. CASE CleanupFails
    <3>1. TypeOK' BY <1>1, <2>5 DEF TypeOK, CleanupFails
    <3> QED BY <2>1, <2>2, <3>1, SweptKeeps
  <2> QED BY <1>3, <2>3, <2>4, <2>5
<1> QED BY <1>2, <1>3 DEF Cleanup

-----------------------------------------------------------------------------
LEMMA NextKeeps ==
    ASSUME Inv, [Next]_vars
    PROVE  Inv'
<1>1. ASSUME NEW u \in Calls, Upload(u) PROVE Inv'
  BY <1>1, UploadStartKeeps, UploadStoredKeeps, UploadPushedKeeps, UploadFailsKeeps DEF Upload
<1>2. CASE FinishStart BY <1>2, FinishStartKeeps
<1>3. ASSUME NEW p \in Replicas, FinishSaved(p) \/ CronFinalize(p) \/ TaskStep(p) \/ TaskError(p)
      PROVE  Inv'
  <2>1. CASE TaskStep(p)
    BY <2>1, TaskLoadKeeps, TaskMarkKeeps, TaskWaitKeeps, TaskAssembleKeeps, TaskUploadKeeps,
       TaskDeleteKeeps, TaskReadyKeeps, TaskLinkKeeps, TaskRecordKeeps, TaskFailKeeps DEF TaskStep
  <2> QED BY <1>3, <2>1, FinishSavedKeeps, CronFinalizeKeeps, TaskErrorKeeps
<1>4. CASE Cleanup BY <1>4, CleanupKeeps
<1>5. CASE UNCHANGED vars
  <2>1. TypeOK' BY <1>5 DEF Inv, TypeOK, vars
  <2>2. Safe => Safe' BY <1>5 DEF Safe, vars
  <2> QED BY <1>5, <2>1, <2>2, KeptBy DEF vars, Inv, Kept
<1> QED BY <1>1, <1>2, <1>3, <1>4, <1>5 DEF Next

LEMMA Invariance == Spec => []Inv
BY InitInv, NextKeeps, PTL DEF Spec

-----------------------------------------------------------------------------
(* The theorems for any number of replicas *)

\* The type invariant
THEOREM TypeCorrect == Spec => []TypeOK
<1>1. Inv => TypeOK BY DEF Inv
<1> QED BY <1>1, Invariance, PTL

\* No failed, repeated or concurrent finalization loses a chunk that a client has
\* been told is safe, before the final file is stored.
THEOREM SourceCorrect == Spec => []SourceKeptUntilFinal
<1>1. Inv => SourceKeptUntilFinal BY DEF Inv, Kept, Safe, SourceKeptUntilFinal
<1> QED BY <1>1, Invariance, PTL

\* A session is ready, or its link is posted, only when the file is stored and its
\* key written, whatever failed or ran at the same time.
THEOREM LinkCorrect == Spec => []LinkLeadsToFile
<1>1. Inv => LinkLeadsToFile BY DEF Inv, Kept, Linked, LinkLeadsToFile
<1> QED BY <1>1, Invariance, PTL

-----------------------------------------------------------------------------
(* One replica: the link is posted once.  Of two replicas each may load the     *)
(* session before the other has recorded its message, and both post it.         *)

OneReplica == \A p, q \in Replicas : p = q

Posting == \E p \in Replicas : At(p, "record")

\* The message has been sent once more than it was lost only if its id is on the
\* document, or about to be; and a task knows whether it is.
Once ==
    /\ \A p \in Replicas : task[p] # Nothing => task[p].doc.msg = db.msg
    /\ sent <= 1 + mishaps
    /\ ~db.msg /\ ~Posting => sent <= mishaps

LEMMA StillWithin ==
    ASSUME NEW n \in Nat, NEW m \in Nat, NEW k \in Nat, n <= 1 + m, m <= k
    PROVE  n <= 1 + k
OBVIOUS

LEMMA OnceBy ==
    ASSUME TypeOK, TypeOK', Once, sent' = sent, mishaps <= mishaps', db'.msg = db.msg,
           Posting => Posting',
           \A p \in Replicas : task'[p] # Nothing => task'[p].doc.msg = db.msg
    PROVE  Once'
<1>1. /\ sent \in Nat /\ mishaps \in Nat /\ mishaps' \in Nat BY DEF TypeOK
<1>2. sent' <= 1 + mishaps'
  <2>1. sent <= 1 + mishaps BY DEF Once
  <2> QED BY <1>1, <2>1, StillWithin
<1>3. ~db'.msg /\ ~Posting' => sent' <= mishaps' BY <1>1 DEF Once
<1> QED BY <1>2, <1>3 DEF Once

\* A step of the only task there is, when it is not about to record the message
LEMMA OnceTask ==
    ASSUME OneReplica, TypeOK, TypeOK', Once, NEW p \in Replicas, task[p].pc # "record",
           sent' = sent, mishaps <= mishaps', db'.msg = db.msg,
           task'[p] # Nothing => task'[p].doc.msg = db.msg
    PROVE  Once'
<1>1. \A q \in Replicas : q = p BY DEF OneReplica
<1>2. ~Posting BY <1>1 DEF Posting, At
<1> QED BY <1>1, <1>2, OnceBy

LEMMA MishapsOrder ==
    ASSUME TypeOK, mishaps' = mishaps \/ mishaps' = mishaps + 1
    PROVE  mishaps <= mishaps'
BY DEF TypeOK

LEMMA NoTaskOnce ==
    ASSUME TypeOK, TypeOK', Once, task' = task, sent' = sent, db'.msg = db.msg,
           mishaps' = mishaps \/ mishaps' = mishaps + 1
    PROVE  Once'
<1>1. mishaps <= mishaps' BY MishapsOrder
<1>2. Posting => Posting' BY DEF Posting, At
<1> QED BY <1>1, <1>2, OnceBy DEF Once

LEMMA UploadOnce ==
    ASSUME TypeOK, TypeOK', Once, NEW u \in Calls, Upload(u)
    PROVE  Once'
<1>1. db \in Document /\ up \in [Calls -> UpCall \cup {Nothing}] BY DEF TypeOK, UpCall
<1>2. ASSUME UploadPushed(u) PROVE db'.msg = db.msg
  <2>1. up[u].chunk \in Chunks BY <1>1, <1>2 DEF UploadPushed, UpCall
  <2> QED BY <1>1, <1>2, <2>1, PushedFields DEF UploadPushed
<1>3. db'.msg = db.msg BY <1>2 DEF Upload, UploadStart, UploadStored, UploadFails
<1>4. UNCHANGED <<task, sent, mishaps>>
  BY DEF Upload, UploadStart, UploadStored, UploadPushed, UploadFails
<1> QED BY <1>3, <1>4, NoTaskOnce

LEMMA CleanupOnce ==
    ASSUME TypeOK, TypeOK', Once, Cleanup
    PROVE  Once'
<1>1. db \in Document /\ cleaner \in [doc : Document, deleted : BOOLEAN] \cup {Nothing} BY DEF TypeOK
<1>2. ASSUME CleanupSaved PROVE db'.msg = db.msg
  <2>1. cleaner.doc \in Document BY <1>1, <1>2 DEF CleanupSaved
  <2>2. db' = db \/ db' = Cleaned(cleaner.doc) BY <1>2 DEF CleanupSaved, Cleaned
  <2> QED BY <1>1, <2>1, <2>2, CleanedFields
<1>3. db'.msg = db.msg BY <1>2 DEF Cleanup, CleanupStart, CleanupDelete, CleanupFails
<1>4. UNCHANGED <<task, sent>> /\ (mishaps' = mishaps \/ mishaps' = mishaps + 1)
  BY DEF Cleanup, CleanupStart, CleanupDelete, CleanupSaved, CleanupFails
<1> QED BY <1>3, <1>4, NoTaskOnce

\* Whoever starts a finalization gives the task the document as it is.
LEMMA StartOnce ==
    ASSUME TypeOK, TypeOK', Once, NEW p \in Replicas, FinishSaved(p) \/ CronFinalize(p)
    PROVE  Once'
<1>1. db \in Document /\ "finalizing" \in Status BY DEF TypeOK, Status
<1>2. /\ db' = db \/ db' = [db EXCEPT !.status = "finalizing"]
      /\ task' = task \/ task' = Started(p)
      /\ UNCHANGED <<sent, mishaps>>
  BY DEF FinishSaved, CronFinalize
<1>3. db'.msg = db.msg BY <1>1, <1>2, MarkFields
<1>4. \A q \in Replicas : task'[q] = task[q] \/ (task[q] = Nothing /\ task'[q] = Loading)
  BY <1>2, StartedFields
<1>5. Posting => Posting' BY <1>4 DEF Posting, At
<1>6. \A q \in Replicas : task'[q] # Nothing => task'[q].doc.msg = db.msg
  BY <1>4, LoadingFields DEF Once
<1>7. mishaps <= mishaps' BY <1>2, MishapsOrder
<1> QED BY <1>2, <1>3, <1>5, <1>6, <1>7, OnceBy

LEMMA TaskStepOnce ==
    ASSUME OneReplica, TypeOK, TypeOK', Once, NEW p \in Replicas, TaskStep(p)
    PROVE  Once'
<1>1. task[p] # Nothing
  BY DEF TaskStep, TaskLoad, TaskMark, TaskWait, TaskAssemble, TaskUpload, TaskDelete, TaskReady,
         TaskLink, TaskRecord, TaskFail, At
<1>2. task[p] \in Task /\ task \in Tasks /\ db \in Document BY <1>1, AtType DEF TypeOK
<1>3. mishaps' = mishaps
  BY DEF TaskStep, TaskLoad, TaskMark, TaskWait, TaskAssemble, TaskUpload, TaskDelete, TaskReady,
         TaskLink, TaskRecord, TaskFail
<1>4. mishaps <= mishaps' BY <1>3, MishapsOrder
<1>5. task[p].doc.msg = db.msg BY <1>1 DEF Once
<1>6. ASSUME task[p].pc # "record", sent' = sent, db'.msg = db.msg,
             \/ task'[p] = Nothing
             \/ task'[p].doc.msg = db.msg
      PROVE  Once'
  BY <1>4, <1>6, OnceTask
<1>7. ASSUME End(p) PROVE task'[p] = Nothing BY <1>7, EndFields
<1>8. CASE TaskLoad(p)
  <2>1. task[p].pc # "record" /\ UNCHANGED <<db, sent>> BY <1>8 DEF TaskLoad, At
  <2>2. CASE task' = [task EXCEPT ![p].doc = db, ![p].work = db.segments, ![p].pc = "mark"]
    <3>1. task'[p].doc = db BY <1>2, <2>2 DEF Tasks, Task
    <3> QED BY <1>6, <2>1, <3>1
  <2>3. CASE End(p) BY <1>6, <1>7, <2>1, <2>3
  <2> QED BY <1>8, <2>2, <2>3 DEF TaskLoad
<1>9. CASE TaskMark(p)
  <2>1. /\ task[p].pc # "record" /\ UNCHANGED sent
        /\ db' = db \/ db' = [db EXCEPT !.status = "finalizing"]
        /\ task'[p].doc = task[p].doc
    BY <1>2, <1>9 DEF TaskMark, At, Goto, Tasks, Task
  <2>2. db'.msg = db.msg BY <1>2, <2>1 DEF Document
  <2> QED BY <1>5, <1>6, <2>1, <2>2
<1>10. CASE TaskWait(p)
  <2>1. /\ task[p].pc # "record" /\ UNCHANGED <<db, sent>>
    BY <1>10 DEF TaskWait, At
  <2>2. task'[p].doc = task[p].doc
    <3>1. CASE task' = [task EXCEPT ![p].work = db.segments, ![p].pc = "assemble"]
      BY <1>2, <3>1 DEF Tasks, Task
    <3>2. CASE Goto(p, "fail") BY <1>2, <3>2 DEF Goto, Tasks, Task
    <3> QED BY <1>10, <3>1, <3>2 DEF TaskWait
  <2> QED BY <1>5, <1>6, <2>1, <2>2
<1>11. CASE TaskAssemble(p)
  <2>1. task[p].pc # "record" /\ UNCHANGED <<db, sent>> /\ task'[p].doc = task[p].doc
    BY <1>2, <1>11 DEF TaskAssemble, At, Goto, Tasks, Task
  <2> QED BY <1>5, <1>6, <2>1
<1>12. CASE TaskUpload(p)
  <2>1. task[p].pc # "record" /\ UNCHANGED <<db, sent>> BY <1>12 DEF TaskUpload, At
  <2>2. task' = [task EXCEPT ![p].built = TRUE, ![p].pc = "delete"] BY <1>12 DEF TaskUpload
  <2>3. task'[p].doc = task[p].doc BY <1>2, <2>2 DEF Tasks, Task
  <2> QED BY <1>5, <1>6, <2>1, <2>3
<1>13. CASE TaskDelete(p)
  <2>1. task[p].pc # "record" /\ UNCHANGED <<db, sent>> BY <1>13 DEF TaskDelete, At
  <2>2. task' = [task EXCEPT ![p].clear = task[p].doc.segments # {}, ![p].pc = "ready"]
    BY <1>13 DEF TaskDelete
  <2>3. task'[p].doc = task[p].doc BY <1>2, <2>2 DEF Tasks, Task
  <2> QED BY <1>5, <1>6, <2>1, <2>3
<1>14. CASE TaskReady(p)
  <2>1. task[p].pc # "record" /\ UNCHANGED sent BY <1>14 DEF TaskReady, At
  <2>2. CASE Goto(p, "fail") /\ UNCHANGED db
    <3>1. task'[p].doc = task[p].doc BY <1>2, <2>2 DEF Goto, Tasks, Task
    <3> QED BY <1>5, <1>6, <2>1, <2>2, <3>1
  <2>3. CASE /\ db' = Written(task[p], "ready")
             /\ task' = [task EXCEPT ![p].built = FALSE, ![p].clear = FALSE, ![p].pc =
                  IF db.url THEN "link" ELSE "fail"]
    <3>1. task'[p].doc = task[p].doc BY <1>2, <2>3 DEF Tasks, Task
    <3>2. db'.msg = db.msg BY <1>2, <2>3, WrittenFields DEF Status
    <3> QED BY <1>5, <1>6, <2>1, <3>1, <3>2
  <2> QED BY <1>14, <2>2, <2>3 DEF TaskReady
<1>15. CASE TaskLink(p)
  <2>1. task[p].pc = "link" /\ UNCHANGED db BY <1>15 DEF TaskLink, At
  <2>2. CASE End(p) /\ UNCHANGED sent BY <1>6, <1>7, <2>1, <2>2
  <2>3. CASE ~task[p].doc.msg /\ Goto(p, "record") /\ sent' = sent + 1
    <3>1. task'[p].pc = "record" /\ task'[p].doc = task[p].doc /\ task'[p] \in Task
      BY <1>1, <2>3, GotoFields DEF Stage
    <3>2. \A q \in Replicas : q = p BY DEF OneReplica
    <3>3. ~Posting BY <2>1, <3>2 DEF Posting, At
    <3>4. sent <= mishaps /\ sent \in Nat /\ mishaps \in Nat BY <1>5, <2>3, <3>3 DEF Once, TypeOK
    <3>5. sent' <= 1 + mishaps' BY <1>3, <2>3, <3>4
    <3>6. Posting' BY <3>1, NothingAssumption DEF Posting, At
    <3>7. \A q \in Replicas : task'[q] # Nothing => task'[q].doc.msg = db'.msg
      BY <1>5, <2>1, <3>1, <3>2
    <3> QED BY <3>5, <3>6, <3>7 DEF Once
  <2> QED BY <1>15, <2>2, <2>3 DEF TaskLink
<1>16. CASE TaskRecord(p)
  <2>1. db'.msg /\ UNCHANGED sent BY <1>2, <1>16 DEF TaskRecord, Document
  <2>2. \A q \in Replicas : task'[q] = Nothing BY <1>7, <1>16 DEF TaskRecord, OneReplica
  <2> QED BY <1>3, <2>1, <2>2 DEF Once
<1>17. CASE TaskFail(p)
  <2>1. task[p].pc # "record" /\ UNCHANGED sent /\ End(p) BY <1>17 DEF TaskFail, At
  <2>2. db' = db \/ db' = Written(task[p], "failed") BY <1>17 DEF TaskFail
  <2>3. db'.msg = db.msg BY <1>2, <2>2, WrittenFields DEF Status
  <2> QED BY <1>6, <1>7, <2>1, <2>3
<1> QED BY <1>8, <1>9, <1>10, <1>11, <1>12, <1>13, <1>14, <1>15, <1>16, <1>17 DEF TaskStep

LEMMA TaskErrorOnce ==
    ASSUME OneReplica, TypeOK, TypeOK', Once, NEW p \in Replicas, TaskError(p)
    PROVE  Once'
<1>1. task[p] # Nothing /\ mishaps' = mishaps + 1 /\ UNCHANGED <<db, sent>> BY DEF TaskError
<1>2. task[p].doc.msg = db.msg BY <1>1 DEF Once
<1>3. mishaps <= mishaps' BY <1>1, MishapsOrder
<1>4. CASE task[p].pc # "record" /\ Goto(p, "fail")
  <2>1. task'[p].doc = task[p].doc BY <1>1, <1>4, GotoFields DEF Stage
  <2> QED BY <1>1, <1>2, <1>3, <1>4, <2>1, OnceTask
<1>5. CASE End(p)
  <2>1. \A q \in Replicas : task'[q] = Nothing BY <1>5, EndFields DEF OneReplica
  <2>2. sent' <= mishaps' /\ sent' <= 1 + mishaps'
    <3>1. sent <= 1 + mishaps BY DEF Once
    <3>2. sent \in Nat /\ mishaps \in Nat BY DEF TypeOK
    <3> QED BY <1>1, <3>1, <3>2
  <2> QED BY <2>1, <2>2 DEF Once
<1> QED BY <1>4, <1>5 DEF TaskError

LEMMA NextOnce ==
    ASSUME OneReplica, TypeOK, TypeOK', Once, [Next]_vars
    PROVE  Once'
<1>1. ASSUME NEW u \in Calls, Upload(u) PROVE Once' BY <1>1, UploadOnce
<1>2. CASE FinishStart BY <1>2, NoTaskOnce DEF FinishStart
<1>3. ASSUME NEW p \in Replicas, FinishSaved(p) \/ CronFinalize(p) \/ TaskStep(p) \/ TaskError(p)
      PROVE  Once'
  BY <1>3, StartOnce, TaskStepOnce, TaskErrorOnce
<1>4. CASE Cleanup BY <1>4, CleanupOnce
<1>5. CASE UNCHANGED vars BY <1>5, NoTaskOnce DEF vars
<1> QED BY <1>1, <1>2, <1>3, <1>4, <1>5 DEF Next

\* Under one process a session that is finished again, picked up by the cron or
\* reopened by a late chunk gets its link once; only a failure between the message
\* and its id repeats it.
THEOREM LinkOnceCorrect ==
    ASSUME OneReplica
    PROVE  Spec => []LinkPostedOnce
<1>1. Init => Once BY DEF Init, Once
<1>2. TypeOK /\ TypeOK' /\ Once /\ [Next]_vars => Once' BY NextOnce
<1>3. Once => LinkPostedOnce BY DEF Once, LinkPostedOnce
<1> QED BY <1>1, <1>2, <1>3, TypeCorrect, PTL DEF Spec
===============================================================================

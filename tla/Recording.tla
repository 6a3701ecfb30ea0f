------------------------------ MODULE Recording ------------------------------
(***************************************************************************)
(* The life of one recording session (video/video-recordings.service.ts    *)
(* and its cron): chunks uploaded while the meeting goes on, finishSession *)
(* and finalizeStaleSessions, which assemble the chunks into one file in   *)
(* object storage and post its link to the saved messages, and             *)
(* cleanupExpiredRecordings.  Sessions do not interact, so one is modelled.*)
(* Every database or storage call is awaited, and each goes on from the    *)
(* document it loaded; a mongoose save() writes only the fields that the   *)
(* holder changed.                                                         *)
(***************************************************************************)
EXTENDS Naturals, FiniteSets

CONSTANTS
    Chunks,       \* chunk indexes the client uploads
    Calls,        \* uploadChunk calls under way at the same time (a bound)
    Replicas,     \* server processes, each with its own finalizationTasks
    MaxMishaps,   \* crashes and failed saves (a bound)
    MaxFinishes,  \* finishSession calls (a bound)
    MaxCron,      \* retries of a failed session by the cron (a bound)
    MaxVer,       \* uploads start while __v is below this (a bound)
    Nothing       \* no call, no task

ASSUME ConstantsAssumption ==
    /\ MaxMishaps \in Nat /\ MaxFinishes \in Nat /\ MaxCron \in Nat /\ MaxVer \in Nat

VARIABLES
    db,           \* the VideoRecording document
    raw,          \* chunk objects in storage
    file,         \* the final object in storage: {}, or {the chunks it was made of}
    up,           \* uploadChunk calls under way
    task,         \* each replica's entry in finalizationTasks
    finish,       \* a finishSession call between its load and its save
    cleaner,      \* a cleanupExpiredRecordings run, with the document it found
    acked,        \* chunks the client has been told are safe
    sent,         \* messages with the link in the saved messages
    swept,        \* a cleanup of the session has begun at some time
    mishaps, finishes, crons

vars ==
    <<db, raw, file, up, task, finish, cleaner, acked, sent, swept, mishaps, finishes, crons>>

Status == {"recording", "finalizing", "ready", "failed", "expired"}

\* final: finalFileKey is set; expires: expiresAt is set; msg: savedMessageId is
\* set; ver: __v, which guards a save that replaces the array of segments;
\* url: the session was created with an address for download links.
Document ==
    [status : Status, segments : SUBSET Chunks, final : BOOLEAN,
     expires : BOOLEAN, msg : BOOLEAN, ver : Nat, url : BOOLEAN]

Stage == {"load", "mark", "wait", "assemble", "upload", "delete", "ready",
          "link", "record", "fail"}

\* doc: the document as loaded; work: the segments to assemble; built: the final
\* file was uploaded by this task; clear: `segments = []` has been assigned.
Task == [pc : Stage, doc : Document, work : SUBSET Chunks, built : BOOLEAN, clear : BOOLEAN]

ASSUME NothingAssumption == Nothing \notin Task

TypeOK ==
    /\ db \in Document
    /\ raw \subseteq Chunks
    /\ file \subseteq SUBSET Chunks
    /\ up \in [Calls -> [chunk : Chunks, stage : {"put", "push"}] \cup {Nothing}]
    /\ task \in [Replicas -> Task \cup {Nothing}]
    /\ finish \in [status : Status, msg : BOOLEAN] \cup {Nothing}
    /\ cleaner \in [doc : Document, deleted : BOOLEAN] \cup {Nothing}
    /\ acked \subseteq Chunks
    /\ swept \in BOOLEAN /\ sent \in Nat /\ mishaps \in Nat /\ finishes \in Nat /\ crons \in Nat

Init ==
    /\ \E url \in BOOLEAN :
         db = [status |-> "recording", segments |-> {}, final |-> FALSE,
               expires |-> FALSE, msg |-> FALSE, ver |-> 0, url |-> url]
    /\ raw = {} /\ file = {} /\ acked = {} /\ sent = 0
    /\ up = [u \in Calls |-> Nothing]
    /\ task = [p \in Replicas |-> Nothing]
    /\ finish = Nothing /\ cleaner = Nothing /\ swept = FALSE
    /\ mishaps = 0 /\ finishes = 0 /\ crons = 0

(* A definition whose name ends in _Bug is the definition of that name with a   *)
(* plausible mistake seeded in it; the checks confirm that a property notices.  *)
-----------------------------------------------------------------------------
(* uploadChunk *)

UploadStart(u, c) ==
    /\ up[u] = Nothing /\ db.status \in {"recording", "finalizing"} /\ db.ver < MaxVer
    /\ IF c \in db.segments
       THEN acked' = acked \cup {c} /\ UNCHANGED up
       ELSE up' = [up EXCEPT ![u] = [chunk |-> c, stage |-> "put"]] /\ UNCHANGED acked
    /\ UNCHANGED <<db, raw, file, task, finish, cleaner, sent, swept, mishaps, finishes, crons>>

UploadStored(u) ==
    /\ up[u] # Nothing /\ up[u].stage = "put"
    /\ raw' = raw \cup {up[u].chunk}
    /\ up' = [up EXCEPT ![u].stage = "push"]
    /\ UNCHANGED <<db, file, task, finish, cleaner, acked, sent, swept, mishaps, finishes, crons>>

\* What the update writes: the status goes back to `recording` whatever it is.
Pushed(c) == [db EXCEPT !.segments = @ \cup {c}, !.status = "recording"]

UploadPushed(u) ==
    /\ up[u] # Nothing /\ up[u].stage = "push"
    /\ db' = IF up[u].chunk \in db.segments THEN db ELSE Pushed(up[u].chunk)
    /\ acked' = acked \cup {up[u].chunk}
    /\ up' = [up EXCEPT ![u] = Nothing]
    /\ UNCHANGED <<raw, file, task, finish, cleaner, sent, swept, mishaps, finishes, crons>>

UploadFails(u) ==
    /\ up[u] # Nothing
    /\ up' = [up EXCEPT ![u] = Nothing]
    /\ UNCHANGED <<db, raw, file, task, finish, cleaner, acked, sent, swept, mishaps, finishes, crons>>

-----------------------------------------------------------------------------
(* Starting a finalization *)

Loading == [pc |-> "load", doc |-> db, work |-> {}, built |-> FALSE, clear |-> FALSE]

\* finalizeSession: at most one task of the session in a process.
Started(p) == IF task[p] = Nothing THEN [task EXCEPT ![p] = Loading] ELSE task

FinishStart ==
    /\ finish = Nothing /\ finishes < MaxFinishes /\ db.status # "expired"
    /\ finish' = [status |-> db.status, msg |-> db.msg]
    /\ finishes' = finishes + 1
    /\ UNCHANGED <<db, raw, file, up, task, cleaner, acked, sent, swept, mishaps, crons>>

\* The loaded status decides what is written; a session that was ready and has
\* its message is left alone.
FinishSaved(p) ==
    /\ finish # Nothing
    /\ db' = IF finish.status \in {"ready", "finalizing"} THEN db
             ELSE [db EXCEPT !.status = "finalizing"]
    /\ task' = IF finish.status = "ready" /\ finish.msg THEN task ELSE Started(p)
    /\ finish' = Nothing
    /\ UNCHANGED <<raw, file, up, cleaner, acked, sent, swept, mishaps, finishes, crons>>

\* finalizeStaleSessions, 90 s after the last chunk or the last failure.
Stale_Bug ==                                            \* only abandoned uploads
    \/ db.status = "recording"
    \/ db.status = "failed" /\ ~db.final /\ db.segments # {}
Stale ==
    \/ db.status \in {"recording", "finalizing"}
    \/ db.status = "failed" /\ ~db.final /\ db.segments # {}

CronFinalize(p) ==
    /\ task[p] = Nothing /\ Stale
    /\ db.status = "failed" => crons < MaxCron
    /\ crons' = IF db.status = "failed" THEN crons + 1 ELSE crons
    /\ task' = Started(p)
    /\ UNCHANGED <<db, raw, file, up, finish, cleaner, acked, sent, swept, mishaps, finishes>>

-----------------------------------------------------------------------------
(* finalizeSessionInternal, one step per awaited call *)

At(p, pc) == task[p] # Nothing /\ task[p].pc = pc
Goto(p, pc) == task' = [task EXCEPT ![p].pc = pc]
End(p) == task' = [task EXCEPT ![p] = Nothing]

TaskLoad(p) ==
    /\ At(p, "load")
    /\ IF db.status = "expired" \/ (db.status = "ready" /\ db.msg)
       THEN End(p)
       ELSE task' = [task EXCEPT ![p].doc = db, ![p].work = db.segments, ![p].pc = "mark"]
    /\ UNCHANGED <<db, raw, file, up, finish, cleaner, acked, sent, swept, mishaps, finishes, crons>>

TaskMark(p) ==
    /\ At(p, "mark")
    /\ LET t == task[p] IN
       /\ db' = IF t.doc.status = "finalizing" THEN db ELSE [db EXCEPT !.status = "finalizing"]
       /\ Goto(p, IF t.doc.final THEN "delete"
                  ELSE IF t.work = {} THEN "wait" ELSE "assemble")
    /\ UNCHANGED <<raw, file, up, finish, cleaner, acked, sent, swept, mishaps, finishes, crons>>

\* waitForSegments polls until a chunk shows up or 5 s have passed; the document
\* it returns provides the segments only.
TaskWait(p) ==
    /\ At(p, "wait")
    /\ IF db.segments # {}
       THEN task' = [task EXCEPT ![p].work = db.segments, ![p].pc = "assemble"]
       ELSE Goto(p, "fail")
    /\ UNCHANGED <<db, raw, file, up, finish, cleaner, acked, sent, swept, mishaps, finishes, crons>>

\* A chunk missing from storage fails the task.
TaskAssemble(p) ==
    /\ At(p, "assemble")
    /\ Goto(p, IF task[p].work \subseteq raw THEN "upload" ELSE "fail")
    /\ UNCHANGED <<db, raw, file, up, finish, cleaner, acked, sent, swept, mishaps, finishes, crons>>

TaskUpload_Bug(p) ==                                    \* chunks go before the upload is done
    /\ At(p, "upload")
    /\ raw' = raw \ task[p].work
    /\ task' = [task EXCEPT ![p].built = TRUE, ![p].pc = "delete"]
    /\ UNCHANGED <<db, file, up, finish, cleaner, acked, sent, swept, mishaps, finishes, crons>>

TaskUpload(p) ==
    /\ At(p, "upload")
    /\ file' = {task[p].work}
    /\ task' = [task EXCEPT ![p].built = TRUE, ![p].pc = "delete"]
    /\ UNCHANGED <<db, raw, up, finish, cleaner, acked, sent, swept, mishaps, finishes, crons>>

\* deleteFile swallows its errors, so some of the objects may stay.
TaskDelete(p) ==
    /\ At(p, "delete")
    /\ \E D \in SUBSET task[p].doc.segments : raw' = raw \ D
    /\ task' = [task EXCEPT ![p].clear = task[p].doc.segments # {}, ![p].pc = "ready"]
    /\ UNCHANGED <<db, file, up, finish, cleaner, acked, sent, swept, mishaps, finishes, crons>>

\* What a save writes besides the status; it fails with a VersionError when
\* someone else has replaced the array of segments since the document was loaded.
Conflict(t) == t.clear /\ db.ver # t.doc.ver
Written_NoKey_Bug(t, status) ==                         \* finalFileKey is left out
    [db EXCEPT !.status = status, !.expires = TRUE,
               !.segments = IF t.clear THEN {} ELSE @, !.ver = IF t.clear THEN @ + 1 ELSE @]
Written(t, status) ==
    [db EXCEPT !.status = status, !.expires = TRUE, !.final = @ \/ t.built,
               !.segments = IF t.clear THEN {} ELSE @, !.ver = IF t.clear THEN @ + 1 ELSE @]

TaskReady(p) ==
    /\ At(p, "ready")
    /\ IF Conflict(task[p])
       THEN Goto(p, "fail") /\ UNCHANGED db
       ELSE /\ db' = Written(task[p], "ready")
            /\ task' = [task EXCEPT ![p].built = FALSE, ![p].clear = FALSE, ![p].pc =
                 IF db.url THEN "link" ELSE "fail"]
    /\ UNCHANGED <<raw, file, up, finish, cleaner, acked, sent, swept, mishaps, finishes, crons>>

TaskLink_Bug(p) ==                                      \* sent again by every task
    /\ At(p, "link")
    /\ Goto(p, "record") /\ sent' = sent + 1
    /\ UNCHANGED <<db, raw, file, up, finish, cleaner, acked, swept, mishaps, finishes, crons>>

\* The link is sent unless the document that was loaded has its message id.
TaskLink(p) ==
    /\ At(p, "link")
    /\ IF task[p].doc.msg
       THEN End(p) /\ UNCHANGED sent
       ELSE \/ Goto(p, "record") /\ sent' = sent + 1
            \/ End(p) /\ UNCHANGED sent                 \* sending failed: logged
    /\ UNCHANGED <<db, raw, file, up, finish, cleaner, acked, swept, mishaps, finishes, crons>>

TaskRecord(p) ==
    /\ At(p, "record")
    /\ db' = [db EXCEPT !.msg = TRUE]
    /\ End(p)
    /\ UNCHANGED <<raw, file, up, finish, cleaner, acked, sent, swept, mishaps, finishes, crons>>

\* The catch block, and the same save when no chunk ever came.
TaskFail(p) ==
    /\ At(p, "fail")
    /\ db' = IF Conflict(task[p]) THEN db ELSE Written(task[p], "failed")
    /\ End(p)
    /\ UNCHANGED <<raw, file, up, finish, cleaner, acked, sent, swept, mishaps, finishes, crons>>

\* ffmpeg, storage or the database fails: inside the try block the task goes on
\* to the catch block, elsewhere it ends; a crash ends it anywhere.
TaskError(p) ==
    /\ task[p] # Nothing /\ mishaps < MaxMishaps
    /\ \/ task[p].pc \in {"wait", "assemble", "upload", "ready"} /\ Goto(p, "fail")
       \/ End(p)
    /\ mishaps' = mishaps + 1
    /\ UNCHANGED <<db, raw, file, up, finish, cleaner, acked, sent, swept, finishes, crons>>

-----------------------------------------------------------------------------
(* cleanupExpiredRecordings *)

\* The expiry is a day ahead when it is set; what is under way by then is not asked.
CleanupStart ==
    /\ cleaner = Nothing /\ db.expires /\ db.status \in {"ready", "failed", "expired"}
    /\ cleaner' = [doc |-> db, deleted |-> FALSE]
    /\ swept' = TRUE
    /\ UNCHANGED <<db, raw, file, up, task, finish, acked, sent, mishaps, finishes, crons>>

CleanupDelete ==
    /\ cleaner # Nothing /\ ~cleaner.deleted
    /\ \E D \in SUBSET cleaner.doc.segments : raw' = raw \ D
    /\ file' \in IF cleaner.doc.final THEN {file, {}} ELSE {file}
    /\ cleaner' = [cleaner EXCEPT !.deleted = TRUE]
    /\ UNCHANGED <<db, up, task, finish, acked, sent, swept, mishaps, finishes, crons>>

CleanupSaved ==
    /\ cleaner # Nothing /\ cleaner.deleted
    /\ LET d == cleaner.doc
           clear == d.segments # {}
       IN  db' = IF clear /\ db.ver # d.ver THEN db
                 ELSE [db EXCEPT !.status = IF d.status = "expired" THEN @ ELSE "expired",
                                 !.expires = FALSE, !.final = IF d.final THEN FALSE ELSE @,
                                 !.segments = IF clear THEN {} ELSE @,
                                 !.ver = IF clear THEN @ + 1 ELSE @]
    /\ cleaner' = Nothing
    /\ UNCHANGED <<raw, file, up, task, finish, acked, sent, swept, mishaps, finishes, crons>>

CleanupFails ==
    /\ cleaner # Nothing /\ mishaps < MaxMishaps
    /\ cleaner' = Nothing
    /\ mishaps' = mishaps + 1
    /\ UNCHANGED <<db, raw, file, up, task, finish, acked, sent, swept, finishes, crons>>

-----------------------------------------------------------------------------
Upload(u) ==
    \/ \E c \in Chunks : UploadStart(u, c)
    \/ UploadStored(u) \/ UploadPushed(u) \/ UploadFails(u)

TaskStep(p) ==
    \/ TaskLoad(p) \/ TaskMark(p) \/ TaskWait(p) \/ TaskAssemble(p) \/ TaskUpload(p)
    \/ TaskDelete(p) \/ TaskReady(p) \/ TaskLink(p) \/ TaskRecord(p) \/ TaskFail(p)

Cleanup == CleanupStart \/ CleanupDelete \/ CleanupSaved \/ CleanupFails

Next ==
    \/ \E u \in Calls : Upload(u)
    \/ FinishStart
    \/ \E p \in Replicas : FinishSaved(p) \/ CronFinalize(p) \/ TaskStep(p) \/ TaskError(p)
    \/ Cleanup

Spec == Init /\ [][Next]_vars

\* The cron ticks every 15 s, and what is awaited settles.
Fairness ==
    /\ \A p \in Replicas : WF_vars(TaskStep(p)) /\ WF_vars(CronFinalize(p))
    /\ \A u \in Calls : WF_vars(UploadStored(u) \/ UploadPushed(u) \/ UploadFails(u))

FairSpec == Spec /\ Fairness

-----------------------------------------------------------------------------
(* Properties *)

\* The chunks a client was told are safe stay in storage and on the document's
\* list as long as no final file has been stored and the session has not been
\* cleaned up, through failed and repeated finalizations and crashes.
SourceKeptUntilFinal ==
    file = {} /\ ~swept => acked \subseteq raw \cap db.segments

\* The link is posted once, however often the session is finished, picked up by
\* the cron and reopened by a late chunk; only a crash or a failed save between
\* the message and savedMessageId can repeat it.
LinkPostedOnce == sent <= 1 + mishaps

\* Until the session is cleaned up, being ready and having the link posted both
\* mean that the file is there and getDownloadableRecording finds its key, though
\* the key is written long after the upload, by a save that may fail or conflict.
LinkLeadsToFile ==
    ~swept /\ (db.status = "ready" \/ sent > 0) => db.final /\ file # {}

\* Every session is settled again and again: one that is being recorded,
\* abandoned, or caught in `finalizing` by a crash, ends up ready, failed or
\* expired.
Settles == []<>(db.status \in {"ready", "failed", "expired"})

=============================================================================

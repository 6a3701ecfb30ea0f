-------------------------------- MODULE Course --------------------------------
(***************************************************************************)
(* One course of courses/courses.service.ts under concurrent requests.     *)
(* A course is kept in four collections.  Every request loads all of it    *)
(* (findById: the course document, then three parallel finds), decides and *)
(* changes its own copy, and stores the whole copy back                    *)
(* (persistCourseCollections: the course document, then three parallel     *)
(* deletions of the rows the copy lacks, then three parallel upserts).     *)
(* There is no version check, so requests overwrite each other: what holds *)
(* under any overlap is what each stored row says of itself, and what a    *)
(* request that overlaps no other leaves behind.                           *)
(*                                                                         *)
(* What a handler awaits between loading and changing its copy (tier,      *)
(* user, arena, storage) reads no course data, so it is the time a request *)
(* may stay loaded.  The operation and its arguments are chosen when the   *)
(* copy is changed: loading is the same for all of them.                   *)
(***************************************************************************)
EXTENDS Naturals, FiniteSets, FiniteSetsExt

CONSTANTS
    Requests,      \* slots for requests under way at the same time (a bound)
    MaxRequests,   \* requests in all (a bound)
    Author,        \* the account in createdBy
    Users,         \* the other accounts
    LessonIds, HomeworkIds, TestIds,  \* ids the database can generate (a bound)
    Percents,      \* progress and test results a client can reach
    Minimums,      \* minimum scores an author can set
    MaxScores,     \* maximum scores an author can set
    Stars,         \* ratings a client sends
    MaxCount,      \* views, comments and attempts are counted up to here (a bound)
    LessonLimit, HomeworkLimit, NoteLimit,  \* limits of the author's and reader's tier
    Scenarios,     \* courses to start with, and the operations used on them (a bound)
    Nobody         \* no document, no score

LinkedTestLimit == 3
MaterialLimit == 3

Actors == Users \cup {Author}
Rows == {"member", "lesson", "homework"}

IsPartial(f, X, S) == DOMAIN f \subseteq X /\ f \in [DOMAIN f -> S]
Without(f, x) == [y \in DOMAIN f \ {x} |-> f[y]]
With(f, x, v) == [y \in DOMAIN f \cup {x} |-> IF y = x THEN v ELSE f[y]]
Clamp(x, lo, hi) == IF x < lo THEN lo ELSE IF x > hi THEN hi ELSE x

-------------------------------------------------------------------------------
(* The documents.  Entries of an array are a set: the code finds an entry by   *)
(* its user and never by its place.  "order" ranks lessons.                    *)

Review == [user : Actors, stars : 1..5]

CourseDoc ==
    [access : {"free_request", "free_open", "paid"}, reviews : SUBSET Review,
     rating : 0..50, count : Nat]

MemberStatus == {"pending", "approved"}

\* source: who marked; progress: progressPercent.
Attendance ==
    [user : Actors, status : {"present", "late", "absent"},
     source : {"auto", "manual"}, progress : 0..100]
Oral == [user : Users, score : 0..100 \cup {Nobody}]
Note == [user : Actors, timed : Nat, untimed : Nat]
Progress == [user : Actors, best : 0..100, passed : BOOLEAN, attempts : Nat]
LinkedTest == [id : TestIds, minimum : 0..100, progress : SUBSET Progress]

\* media: what publishLesson looks for, a file (or video), else a notion page.
\* named, unnamed: materials with and without an _id.
Lesson ==
    [order : Nat, status : {"draft", "published"}, media : {"none", "notion", "file"},
     likes : SUBSET Actors, views : Nat, comments : Nat,
     attendance : SUBSET Attendance, oral : SUBSET Oral, notes : SUBSET Note,
     tests : SUBSET LinkedTest, named : Nat, unnamed : Nat]

Submission ==
    [user : Actors, status : {"submitted", "reviewed", "needs_revision"},
     score : Nat \cup {Nobody}]

Homework ==
    [lesson : LessonIds, enabled : BOOLEAN, max : 1..100, submissions : SUBSET Submission]

Empty ==
    [course |-> Nobody, member |-> << >>, lesson |-> << >>, homework |-> << >>]

\* A course as the four collections have it, or as a request holds it.
IsCourse(c) ==
    /\ c = [course |-> c.course, member |-> c.member, lesson |-> c.lesson, homework |-> c.homework]
    /\ c.course \in CourseDoc \cup {Nobody}
    /\ IsPartial(c.member, Users, MemberStatus)
    /\ IsPartial(c.lesson, LessonIds, Lesson)
    /\ IsPartial(c.homework, HomeworkIds, Homework)

OnePerUser(entries) == \A a, b \in entries : a.user = b.user => a = b

OneEntryEach(c) ==
    /\ \A l \in DOMAIN c.lesson :
          /\ OnePerUser(c.lesson[l].attendance) /\ OnePerUser(c.lesson[l].oral)
          /\ OnePerUser(c.lesson[l].notes)
          /\ \A t \in c.lesson[l].tests : OnePerUser(t.progress)
    /\ \A h \in DOMAIN c.homework : OnePerUser(c.homework[h].submissions)
    /\ c.course # Nobody => OnePerUser(c.course.reviews)

PassedReached(c) ==
    \A l \in DOMAIN c.lesson : \A t \in c.lesson[l].tests : \A p \in t.progress :
        p.passed <=> p.best >= t.minimum

\* The mean of the stars in tenths, rounded.
Average(reviews) ==
    LET sum == MapThenSumSet(LAMBDA v : v.stars, reviews)
        n == Cardinality(reviews)
    IN  IF n = 0 THEN 0 ELSE (20 * sum + n) \div (2 * n)

Rated(c) ==
    c.course # Nobody =>
        /\ c.course.rating = Average(c.course.reviews)
        /\ c.course.count = Cardinality(c.course.reviews)

\* Lessons that sort as the first: `order`, and some age where two have the same.
FirstLessons(ls) == {l \in DOMAIN ls : \A k \in DOMAIN ls : ls[l].order =< ls[k].order}
Approved(ms) == {u \in DOMAIN ms : ms[u] = "approved"}

\* Whoever the rows of a course name had a way in: u is the author, one of the
\* members A, or anybody if l is one of the lessons S that were shown first.
MayEnter(u, l, A, S) == u = Author \/ u \in A \/ l \in S

LessonTraced(x, l, A, S) ==
    /\ \A e \in x.attendance \cup x.notes : MayEnter(e.user, l, A, S)
    /\ \A u \in x.likes : MayEnter(u, l, A, S)
    /\ \A t \in x.tests : \A p \in t.progress : MayEnter(p.user, l, A, S)

HomeworkTraced(h, A, S) == \A s \in h.submissions : MayEnter(s.user, h.lesson, A, S)

CourseTraced(c, A, S) ==
    /\ \A l \in DOMAIN c.lesson : LessonTraced(c.lesson[l], l, A, S)
    /\ \A h \in DOMAIN c.homework : HomeworkTraced(c.homework[h], A, S)

ASSUME ConstantsAssumption ==
    /\ MaxRequests \in Nat /\ MaxCount \in Nat \ {0} /\ NoteLimit \in Nat
    /\ LessonLimit \in Nat /\ HomeworkLimit \in Nat
    /\ Percents \subseteq 0 .. 100 /\ Minimums \subseteq 0 .. 100
    /\ MaxScores \subseteq 1 .. 100 /\ Stars \subseteq Nat
    /\ Author \notin Users /\ IsFiniteSet(LessonIds)

\* A scenario starts with a course that the program could have stored.
ASSUME ScenariosAssumption ==
    \A s \in Scenarios :
        /\ IsCourse(s.start) /\ OneEntryEach(s.start)
        /\ PassedReached(s.start) /\ Rated(s.start)

\* Nobody's membership is over at the start, so that the history can begin there;
\* a course from which somebody was removed is one that the program makes of it.
ASSUME HistoryAssumption ==
    \A s \in Scenarios :
        CourseTraced(s.start, Approved(s.start.member), FirstLessons(s.start.lesson))

-------------------------------------------------------------------------------
VARIABLES
    db,        \* the four collections, for this course
    req,       \* the requests under way
    used,      \* ids generated so far
    begun,     \* requests begun so far
    mix,       \* the operations the clients of this behaviour use
    approved,  \* accounts that were ever stored as approved members
    shown      \* lessons that were ever stored as the first one

history == <<approved, shown>>
vars == <<db, req, used, begun, mix, approved, shown>>

\* at: what the request awaits; todo: the parallel calls that have not been
\* answered; op: the operation; solo: no other request has been under way.
IsRequest(q) ==
    /\ q = [at |-> q.at, todo |-> q.todo, op |-> q.op, copy |-> q.copy, solo |-> q.solo]
    /\ q.at \in {"idle", "course", "rows", "loaded", "save", "stale", "upsert", "drop"}
    /\ q.todo \subseteq Rows \cup {"course"}
    /\ q.op \in STRING /\ q.solo \in BOOLEAN /\ IsCourse(q.copy)

Idle == [at |-> "idle", todo |-> {}, op |-> "none", copy |-> Empty, solo |-> FALSE]

TypeOK ==
    /\ IsCourse(db)
    /\ DOMAIN req = Requests /\ \A r \in Requests : IsRequest(req[r])
    /\ used \subseteq LessonIds \cup HomeworkIds \cup TestIds
    /\ begun \in Nat
    /\ approved \subseteq Users
    /\ shown \subseteq LessonIds

TestsOf(ls) == UNION {{t.id : t \in ls[l].tests} : l \in DOMAIN ls}

Init ==
    /\ \E s \in Scenarios : db = s.start /\ mix = s.mix
    /\ req = [r \in Requests |-> Idle]
    /\ used = DOMAIN db.lesson \cup DOMAIN db.homework \cup TestsOf(db.lesson)
    /\ begun = 0
    /\ approved = Approved(db.member)
    /\ shown = FirstLessons(db.lesson)

-------------------------------------------------------------------------------
(* Loading: findById and hydrateCourseCollections. *)

\* The places 0, 1, ... of the lessons after the sort; rows of equal order are
\* sorted by their age, which is left open.
Places(ls) ==
    {o \in [DOMAIN ls -> 0 .. Cardinality(DOMAIN ls) - 1] :
        \A a, b \in DOMAIN ls :
            /\ o[a] = o[b] => a = b
            /\ ls[a].order < ls[b].order => o[a] < o[b]}

Placed(ls, o) == [l \in DOMAIN ls |-> [ls[l] EXCEPT !.order = o[l]]]

\* Homework rows are attached to their lessons; those of no lesson are dropped.
Attached(c) ==
    LET kept == {h \in DOMAIN c.homework : c.homework[h].lesson \in DOMAIN c.lesson}
    IN  [c EXCEPT !.homework = [h \in kept |-> c.homework[h]]]

Begin(r) ==
    /\ req[r].at = "idle" /\ begun < MaxRequests
    /\ begun' = begun + 1
    /\ req' = [q \in Requests |->
                 IF q = r
                 THEN [Idle EXCEPT !.at = "course", !.solo = \A p \in Requests : req[p].at = "idle"]
                 ELSE [req[q] EXCEPT !.solo = FALSE]]
    /\ UNCHANGED <<db, used, mix, history>>

FindCourse(r) ==
    /\ req[r].at = "course"
    /\ req' = [req EXCEPT ![r] =
                 IF db.course = Nobody THEN Idle
                 ELSE [@ EXCEPT !.at = "rows", !.todo = Rows, !.copy.course = db.course]]
    /\ UNCHANGED <<db, used, begun, mix, history>>

Loaded(q, k, rows) ==
    LET left == q.todo \ {k}
        c == [q.copy EXCEPT ![k] = rows]
    IN  [q EXCEPT !.todo = left,
                  !.at = IF left = {} THEN "loaded" ELSE "rows",
                  !.copy = IF left = {} THEN Attached(c) ELSE c]

FindRows(r, k) ==
    /\ req[r].at = "rows" /\ k \in req[r].todo
    /\ \E rows \in IF k = "lesson" THEN {Placed(db.lesson, o) : o \in Places(db.lesson)}
                                   ELSE {db[k]} :
         req' = [req EXCEPT ![r] = Loaded(@, k, rows)]
    /\ UNCHANGED <<db, used, begun, mix, history>>

\* A reading handler answers, or a handler refuses what the client asks for.
AnswerOnly(r) ==
    /\ req[r].at = "loaded"
    /\ req' = [req EXCEPT ![r] = Idle]
    /\ UNCHANGED <<db, used, begun, mix, history>>

\* A call to the database fails, or the process ends.
Fail(r) ==
    /\ req[r].at # "idle"
    /\ req' = [req EXCEPT ![r] = Idle]
    /\ UNCHANGED <<db, used, begun, mix, history>>

-------------------------------------------------------------------------------
(* Storing: persistCourseCollections. *)

\* Lessons get their place in the array as `order`.
Numbered(ls) ==
    [l \in DOMAIN ls |->
        [ls[l] EXCEPT !.order = Cardinality({k \in DOMAIN ls : ls[k].order < ls[l].order})]]

May(r, op) == req[r].at = "loaded" /\ op \in mix

\* The handler has changed its copy to c and stores it.
Save(r, op, c) ==
    /\ req' = [req EXCEPT ![r].at = "save", ![r].op = op,
                          ![r].copy = [c EXCEPT !.lesson = Numbered(c.lesson)]]
    /\ UNCHANGED <<db, begun, mix, history>>

\* A bug: the number of ratings is not among the stored fields.
SaveCourse_Bug(r) ==
    /\ req[r].at = "save"
    /\ db' = [db EXCEPT !.course = IF @ = Nobody THEN Nobody
                                   ELSE [req[r].copy.course EXCEPT !.count = db.course.count]]
    /\ req' = [req EXCEPT ![r].at = "stale", ![r].todo = Rows]
    /\ UNCHANGED <<used, begun, mix, history>>

SaveCourse(r) ==
    /\ req[r].at = "save"
    /\ db' = [db EXCEPT !.course = IF @ = Nobody THEN Nobody ELSE req[r].copy.course]
    /\ req' = [req EXCEPT ![r].at = "stale", ![r].todo = Rows]
    /\ UNCHANGED <<used, begun, mix, history>>

\* History: who was ever stored as approved, which lessons ever came first.
Remember ==
    /\ approved' = approved \cup Approved(db'.member)
    /\ shown' = shown \cup FirstLessons(db'.lesson)

\* One of the parallel calls of q has been answered; after the last one, next.
Answered(q, k, next) == IF q.todo = {k} THEN next ELSE [q EXCEPT !.todo = @ \ {k}]

\* A bug: the homework of a removed lesson is forgotten.
DeleteStale_Bug(r, k) ==
    /\ req[r].at = "stale" /\ k \in req[r].todo
    /\ db' = [db EXCEPT ![k] = [x \in IF k = "homework" THEN DOMAIN @
                                      ELSE DOMAIN @ \cap DOMAIN req[r].copy[k] |-> @[x]]]
    /\ req' = [req EXCEPT ![r] =
                 Answered(req[r], k, [req[r] EXCEPT !.at = "upsert", !.todo = Rows])]
    /\ Remember /\ UNCHANGED <<used, begun, mix>>

\* deleteMany of the rows that the copy lacks.
DeleteStale(r, k) ==
    /\ req[r].at = "stale" /\ k \in req[r].todo
    /\ db' = [db EXCEPT ![k] = [x \in DOMAIN @ \cap DOMAIN req[r].copy[k] |-> @[x]]]
    /\ req' = [req EXCEPT ![r] =
                 Answered(req[r], k, [req[r] EXCEPT !.at = "upsert", !.todo = Rows])]
    /\ Remember /\ UNCHANGED <<used, begun, mix>>

\* bulkWrite of all rows of the copy.
Upsert(r, k) ==
    LET rows == req[r].copy[k]
    IN  /\ req[r].at = "upsert" /\ k \in req[r].todo
        /\ db' = [db EXCEPT ![k] = [x \in DOMAIN @ \cup DOMAIN rows |->
                                       IF x \in DOMAIN rows THEN rows[x] ELSE @[x]]]
        /\ req' = [req EXCEPT ![r] = Answered(req[r], k, Idle)]
        /\ Remember /\ UNCHANGED <<used, begun, mix>>

-------------------------------------------------------------------------------
(* Members. *)

Enroll(r, u) ==
    LET c == req[r].copy
    IN  /\ May(r, "enroll") /\ u \notin DOMAIN c.member
        /\ Save(r, "enroll", [c EXCEPT !.member =
                With(@, u, IF c.course.access = "free_open" THEN "approved" ELSE "pending")])
        /\ UNCHANGED used

ApproveUser(r, u) ==
    LET c == req[r].copy
    IN  /\ May(r, "approveUser")
        /\ Save(r, "approveUser", IF u \in DOMAIN c.member
                                  THEN [c EXCEPT !.member[u] = "approved"] ELSE c)
        /\ UNCHANGED used

\* By the author, or by the member.
RemoveUser(r, u) ==
    LET c == req[r].copy
    IN  /\ May(r, "removeUser")
        /\ Save(r, "removeUser", [c EXCEPT !.member = Without(@, u)])
        /\ UNCHANGED used

(* Lessons. *)

Update(r, access) ==
    /\ May(r, "update")
    /\ Save(r, "update", [req[r].copy EXCEPT !.course.access = access])
    /\ UNCHANGED used

NewLesson(place, status, media) ==
    [order |-> place, status |-> status, media |-> media, likes |-> {}, views |-> 0,
     comments |-> 0, attendance |-> {}, oral |-> {}, notes |-> {}, tests |-> {},
     named |-> 0, unnamed |-> 0]

AddLesson(r, status, media) ==
    LET c == req[r].copy
        n == Cardinality(DOMAIN c.lesson)
    IN  /\ May(r, "addLesson") /\ n < LessonLimit
        /\ \E l \in LessonIds \ used :
             /\ used' = used \cup {l}
             /\ Save(r, "addLesson", [c EXCEPT !.lesson = With(@, l, NewLesson(n, status, media))])

\* A lesson left without a file goes back to draft.
UpdateLesson(r, l, media) ==
    LET c == req[r].copy
    IN  /\ May(r, "updateLesson") /\ l \in DOMAIN c.lesson
        /\ Save(r, "updateLesson",
                [c EXCEPT !.lesson[l].media = media,
                          !.lesson[l].status = IF media = "file" THEN @ ELSE "draft"])
        /\ UNCHANGED used

PublishLesson(r, l) ==
    LET c == req[r].copy
    IN  /\ May(r, "publishLesson") /\ l \in DOMAIN c.lesson /\ c.lesson[l].media # "none"
        /\ Save(r, "publishLesson", [c EXCEPT !.lesson[l].status = "published"])
        /\ UNCHANGED used

HomeworkOf(c, l) == {h \in DOMAIN c.homework : c.homework[h].lesson = l}

RemoveLesson(r, l) ==
    LET c == req[r].copy
    IN  /\ May(r, "removeLesson")
        /\ Save(r, "removeLesson",
                [c EXCEPT !.lesson = Without(@, l),
                          !.homework = [h \in DOMAIN @ \ HomeworkOf(c, l) |-> @[h]]])
        /\ UNCHANGED used

-------------------------------------------------------------------------------
(* Who may enter a lesson. *)

IsMember(c, u) == u \in DOMAIN c.member /\ c.member[u] = "approved"

EntryOf(entries, u) == CHOOSE e \in entries : e.user = u
HasEntry(entries, u) == \E e \in entries : e.user = u

\* A bug: the entry is always pushed.
Put_Bug(entries, u, e) == entries \cup {e}

\* The entry found first is changed to e, or e is pushed.
Put(entries, u, e) ==
    IF HasEntry(entries, u) THEN (entries \ {EntryOf(entries, u)}) \cup {e} ELSE entries \cup {e}

Blocks(t, u) == t.minimum > 0 /\ ~\E p \in t.progress : p.user = u /\ p.passed

\* getIncompleteRequiredTestsBeforeLesson(...).length === 0
TestsDoneBefore(c, u, l) ==
    \A k \in DOMAIN c.lesson :
        c.lesson[k].order < c.lesson[l].order /\ c.lesson[k].status # "draft"
            => \A t \in c.lesson[k].tests : ~Blocks(t, u)

\* A bug: only the tests are looked at, not the membership.
CanAccess_Bug(c, u, l) ==
    /\ l \in DOMAIN c.lesson
    /\ u = Author \/ (c.lesson[l].status # "draft" /\ TestsDoneBefore(c, u, l))

CanAccess(c, u, l) ==
    /\ l \in DOMAIN c.lesson
    /\ \/ u = Author
       \/ /\ c.lesson[l].status # "draft"
          /\ \/ c.lesson[l].order = 0
             \/ IsMember(c, u) /\ TestsDoneBefore(c, u, l)

-------------------------------------------------------------------------------
(* Attendance. *)

ResolveStatus(status, progress) ==
    IF progress >= 70 THEN "present" ELSE IF progress > 0 THEN "late" ELSE status

AttendanceOf(c, l, u) ==
    IF HasEntry(c.lesson[l].attendance, u) THEN EntryOf(c.lesson[l].attendance, u)
    ELSE [user |-> u, status |-> "absent", source |-> "auto", progress |-> 0]

MarkOwnAttendance(r, u, l, percent) ==
    LET c == req[r].copy
        old == AttendanceOf(c, l, u)
        progress == Clamp(IF percent > old.progress THEN percent ELSE old.progress, 0, 100)
        new == [old EXCEPT !.status = ResolveStatus(@, progress), !.progress = progress,
                           !.source = "auto"]
    IN  /\ May(r, "markOwnAttendance") /\ CanAccess(c, u, l)
        /\ Save(r, "markOwnAttendance", [c EXCEPT !.lesson[l].attendance = Put(@, u, new)])
        /\ UNCHANGED used

\* The video gateway marks whoever enters the meeting of the lesson.  A record
\* marked by the author is left alone; leaving changes times only.
MarkMeetAttendance(r, u, l, intent) ==
    LET c == req[r].copy
        old == AttendanceOf(c, l, u)
        known == HasEntry(c.lesson[l].attendance, u)
        new == IF intent = "join" /\ old.source # "manual" /\ old.status = "absent"
               THEN [old EXCEPT !.status = "present"] ELSE old
    IN  /\ May(r, "markMeetAttendance") /\ u # Author /\ CanAccess(c, u, l)
        /\ known \/ intent = "join"
        /\ Save(r, "markMeetAttendance", [c EXCEPT !.lesson[l].attendance = Put(@, u, new)])
        /\ UNCHANGED used

SetAttendanceStatus(r, u, l, status) ==
    LET c == req[r].copy
        new == [AttendanceOf(c, l, u) EXCEPT !.status = status, !.source = "manual"]
    IN  /\ May(r, "setAttendanceStatus") /\ l \in DOMAIN c.lesson /\ IsMember(c, u)
        /\ Save(r, "setAttendanceStatus", [c EXCEPT !.lesson[l].attendance = Put(@, u, new)])
        /\ UNCHANGED used

\* An author who sends no score keeps the one there is; Nobody is null.
SetLessonOralAssessment(r, u, l, score) ==
    LET c == req[r].copy
        old == IF HasEntry(c.lesson[l].oral, u) THEN EntryOf(c.lesson[l].oral, u)
               ELSE [user |-> u, score |-> Nobody]
    IN  /\ May(r, "setLessonOralAssessment") /\ l \in DOMAIN c.lesson /\ IsMember(c, u)
        /\ \E s \in {old.score, score} :
             Save(r, "setLessonOralAssessment",
                  [c EXCEPT !.lesson[l].oral = Put(@, u, [old EXCEPT !.score = s])])
        /\ UNCHANGED used

-------------------------------------------------------------------------------
(* Homework. *)

\* An id that the lesson does not have makes a new assignment.
NewHomework(r, l, enabled, max) ==
    LET c == req[r].copy
    IN  /\ May(r, "upsertLessonHomework") /\ l \in DOMAIN c.lesson
        /\ Cardinality(HomeworkOf(c, l)) < HomeworkLimit
        /\ \E h \in HomeworkIds \ used :
             /\ used' = used \cup {h}
             /\ Save(r, "upsertLessonHomework", [c EXCEPT !.homework =
                    With(@, h, [lesson |-> l, enabled |-> enabled, max |-> max, submissions |-> {}])])

ChangeHomework(r, h, enabled, max) ==
    LET c == req[r].copy
    IN  /\ May(r, "upsertLessonHomework") /\ h \in DOMAIN c.homework
        /\ Save(r, "upsertLessonHomework",
                [c EXCEPT !.homework[h].enabled = enabled, !.homework[h].max = max])
        /\ UNCHANGED used

DeleteLessonHomework(r, h) ==
    LET c == req[r].copy
    IN  /\ May(r, "deleteLessonHomework") /\ h \in DOMAIN c.homework
        /\ Save(r, "deleteLessonHomework", [c EXCEPT !.homework = Without(@, h)])
        /\ UNCHANGED used

SubmitLessonHomework(r, u, h) ==
    LET c == req[r].copy
        hw == c.homework[h]
        new == [user |-> u, status |-> "submitted", score |-> Nobody]
    IN  /\ May(r, "submitLessonHomework") /\ h \in DOMAIN c.homework
        /\ CanAccess(c, u, hw.lesson) /\ hw.enabled
        /\ HasEntry(hw.submissions, u) => EntryOf(hw.submissions, u).status = "needs_revision"
        /\ Save(r, "submitLessonHomework", [c EXCEPT !.homework[h].submissions = Put(@, u, new)])
        /\ UNCHANGED used

\* A new score is cut off at the maximum the assignment has now.
ReviewLessonHomework(r, h, u, status, score) ==
    LET c == req[r].copy
        hw == c.homework[h]
        new == IF score = Nobody THEN Nobody ELSE Clamp(score, 0, hw.max)
    IN  /\ May(r, "reviewLessonHomework") /\ h \in DOMAIN c.homework /\ hw.enabled
        /\ HasEntry(hw.submissions, u)
        /\ \E s \in {EntryOf(hw.submissions, u).score, new} :
             Save(r, "reviewLessonHomework", [c EXCEPT !.homework[h].submissions =
                    Put(@, u, [user |-> u, status |-> status, score |-> s])])
        /\ UNCHANGED used

-------------------------------------------------------------------------------
(* Tests that a student has to pass before the next lesson opens. *)

\* A bug: results are not judged anew.
Passing_Bug(p, minimum) == p
Passing(p, minimum) == [p EXCEPT !.passed = p.best >= minimum]

NewLinkedTest(r, l, minimum) ==
    LET c == req[r].copy
    IN  /\ May(r, "upsertLessonLinkedTest") /\ l \in DOMAIN c.lesson
        /\ Cardinality(c.lesson[l].tests) < LinkedTestLimit
        /\ \E t \in TestIds \ used :
             /\ used' = used \cup {t}
             /\ Save(r, "upsertLessonLinkedTest", [c EXCEPT !.lesson[l].tests =
                    @ \cup {[id |-> t, minimum |-> minimum, progress |-> {}]}])

\* The progress is kept, and judged anew, unless another test is linked.
ChangeLinkedTest(r, l, t, minimum, same) ==
    LET c == req[r].copy
        new == [t EXCEPT !.minimum = minimum,
                         !.progress = IF same THEN {Passing(p, minimum) : p \in @} ELSE {}]
    IN  /\ May(r, "upsertLessonLinkedTest") /\ l \in DOMAIN c.lesson /\ t \in c.lesson[l].tests
        /\ Save(r, "upsertLessonLinkedTest",
                [c EXCEPT !.lesson[l].tests = (@ \ {t}) \cup {new}])
        /\ UNCHANGED used

DeleteLessonLinkedTest(r, l, t) ==
    LET c == req[r].copy
    IN  /\ May(r, "deleteLessonLinkedTest") /\ l \in DOMAIN c.lesson
        /\ Save(r, "deleteLessonLinkedTest",
                [c EXCEPT !.lesson[l].tests = {x \in @ : x.id # t}])
        /\ UNCHANGED used

SubmitLinkedTestAttempt(r, u, l, t, percent) ==
    LET c == req[r].copy
        passed == percent >= t.minimum
        new == IF HasEntry(t.progress, u)
               THEN [EntryOf(t.progress, u) EXCEPT
                        !.best = IF percent > @ THEN percent ELSE @,
                        !.passed = @ \/ passed,
                        !.attempts = Clamp(@ + 1, 0, MaxCount)]
               ELSE [user |-> u, best |-> percent, passed |-> passed, attempts |-> 1]
    IN  /\ May(r, "submitLessonLinkedTestAttempt") /\ CanAccess(c, u, l)
        /\ t \in c.lesson[l].tests
        /\ Save(r, "submitLessonLinkedTestAttempt",
                [c EXCEPT !.lesson[l].tests =
                    (@ \ {t}) \cup {[t EXCEPT !.progress = Put(@, u, new)]}])
        /\ UNCHANGED used

-------------------------------------------------------------------------------
(* Materials.  They get their _id when they are next read, which stores the    *)
(* whole course again.                                                         *)

Named(lesson) == [lesson EXCEPT !.named = @ + lesson.unnamed, !.unnamed = 0]

NameMaterials(r, u, l) ==
    LET c == req[r].copy
    IN  /\ May(r, "getLessonMaterials") /\ CanAccess(c, u, l) /\ c.lesson[l].unnamed > 0
        /\ Save(r, "getLessonMaterials", [c EXCEPT !.lesson[l] = Named(@)])
        /\ UNCHANGED used

NameLibrary(r) ==
    LET c == req[r].copy
    IN  /\ May(r, "getCourseMaterialLibrary")
        /\ \E l \in DOMAIN c.lesson : c.lesson[l].unnamed > 0
        /\ Save(r, "getCourseMaterialLibrary",
                [c EXCEPT !.lesson = [l \in DOMAIN @ |-> Named(@[l])]])
        /\ UNCHANGED used

\* A new material has no _id yet, the ones before it do.
UpsertLessonMaterial(r, l, new) ==
    LET c == req[r].copy
        m == Named(c.lesson[l])
    IN  /\ May(r, "upsertLessonMaterial") /\ l \in DOMAIN c.lesson
        /\ IF new THEN m.named < MaterialLimit ELSE c.lesson[l].named > 0
        /\ Save(r, "upsertLessonMaterial",
                [c EXCEPT !.lesson[l] = IF new THEN [m EXCEPT !.unnamed = 1] ELSE m])
        /\ UNCHANGED used

DeleteLessonMaterial(r, l) ==
    LET c == req[r].copy
        m == Named(c.lesson[l])
    IN  /\ May(r, "deleteLessonMaterial") /\ l \in DOMAIN c.lesson
        /\ c.lesson[l].named > 0
        /\ Save(r, "deleteLessonMaterial", [c EXCEPT !.lesson[l] = [m EXCEPT !.named = m.named - 1]])
        /\ UNCHANGED used

-------------------------------------------------------------------------------
(* Likes and comments store the whole course, views, notes and reviews only    *)
(* their own fields.  A comment is open to everybody.                          *)

ToggleLessonLike(r, u, l) ==
    LET c == req[r].copy
    IN  /\ May(r, "toggleLessonLike") /\ CanAccess(c, u, l)
        /\ Save(r, "toggleLessonLike", [c EXCEPT !.lesson[l].likes =
                IF u \in @ THEN @ \ {u} ELSE @ \cup {u}])
        /\ UNCHANGED used

AddComment(r, l) ==
    LET c == req[r].copy
    IN  /\ May(r, "addComment") /\ l \in DOMAIN c.lesson /\ c.lesson[l].comments < MaxCount
        /\ Save(r, "addComment", [c EXCEPT !.lesson[l].comments = @ + 1])
        /\ UNCHANGED used

\* updateOne of a document changes nothing when it has gone.
StoreDirectly(r, op, new) ==
    /\ db' = new
    /\ req' = [req EXCEPT ![r] = Idle]
    /\ Remember /\ UNCHANGED <<used, begun, mix>>

IncrementViews(r, l) ==
    /\ May(r, "incrementViews") /\ l \in DOMAIN req[r].copy.lesson
    /\ StoreDirectly(r, "incrementViews",
            IF l \in DOMAIN db.lesson
            THEN [db EXCEPT !.lesson[l].views = Clamp(@ + 1, 0, MaxCount)] ELSE db)

\* Timed notes are limited, lines without a time may not be added.
UpsertLessonNote(r, u, l, timed, untimed) ==
    LET c == req[r].copy
        notes == c.lesson[l].notes
        old == IF HasEntry(notes, u) THEN EntryOf(notes, u) ELSE [timed |-> 0, untimed |-> 0]
        new == [user |-> u, timed |-> timed, untimed |-> untimed]
    IN  /\ May(r, "upsertLessonNote") /\ CanAccess(c, u, l)
        /\ timed > NoteLimit => timed =< old.timed
        /\ untimed =< old.untimed
        /\ StoreDirectly(r, "upsertLessonNote",
                IF l \in DOMAIN db.lesson
                THEN [db EXCEPT !.lesson[l].notes = Put(notes, u, new)] ELSE db)

UpsertCourseReview(r, u, stars) ==
    LET c == req[r].copy
        reviews == Put(c.course.reviews, u, [user |-> u, stars |-> Clamp(stars, 1, 5)])
    IN  /\ May(r, "upsertCourseReview") /\ IsMember(c, u)
        /\ StoreDirectly(r, "upsertCourseReview",
                IF db.course = Nobody THEN db
                ELSE [db EXCEPT !.course.reviews = reviews,
                                !.course.rating = Average(reviews),
                                !.course.count = Cardinality(reviews)])

\* The course and its rows are deleted in parallel.
Delete(r) ==
    /\ May(r, "delete")
    /\ req' = [req EXCEPT ![r].at = "drop", ![r].todo = Rows \cup {"course"}, ![r].op = "delete"]
    /\ UNCHANGED <<db, used, begun, mix, history>>

Drop(r, k) ==
    /\ req[r].at = "drop" /\ k \in req[r].todo
    /\ db' = [db EXCEPT ![k] = Empty[k]]
    /\ req' = [req EXCEPT ![r] = Answered(req[r], k, Idle)]
    /\ Remember /\ UNCHANGED <<used, begun, mix>>

-------------------------------------------------------------------------------
MemberRequest(r) ==
    \/ \E u \in Users : Enroll(r, u) \/ ApproveUser(r, u) \/ RemoveUser(r, u)
    \/ \E access \in {"free_request", "free_open"} : Update(r, access)
    \/ Delete(r)

LessonRequest(r) ==
    \/ \E status \in {"draft", "published"}, media \in {"none", "file"} :
          AddLesson(r, status, media)
    \/ \E l \in LessonIds : PublishLesson(r, l) \/ RemoveLesson(r, l)
    \/ \E l \in LessonIds, media \in {"none", "notion", "file"} : UpdateLesson(r, l, media)

AttendanceRequest(r) ==
    \E l \in LessonIds :
        \/ \E u \in Actors, percent \in Percents : MarkOwnAttendance(r, u, l, percent)
        \/ \E u \in Actors, intent \in {"join", "leave"} : MarkMeetAttendance(r, u, l, intent)
        \/ \E u \in Users, status \in {"present", "late", "absent"} :
              SetAttendanceStatus(r, u, l, status)
        \/ \E u \in Users, score \in Percents \cup {Nobody} :
              SetLessonOralAssessment(r, u, l, score)

HomeworkRequest(r) ==
    \/ \E l \in LessonIds, enabled \in BOOLEAN, max \in MaxScores :
          NewHomework(r, l, enabled, max)
    \/ \E h \in HomeworkIds :
          \/ \E enabled \in BOOLEAN, max \in MaxScores : ChangeHomework(r, h, enabled, max)
          \/ DeleteLessonHomework(r, h)
          \/ \E u \in Actors : SubmitLessonHomework(r, u, h)
          \/ \E u \in Actors, status \in {"submitted", "reviewed", "needs_revision"},
                score \in Percents \cup {Nobody} : ReviewLessonHomework(r, h, u, status, score)

TestRequest(r) ==
    \E l \in LessonIds :
        \/ \E minimum \in Minimums : NewLinkedTest(r, l, minimum)
        \/ \E t \in TestIds : DeleteLessonLinkedTest(r, l, t)
        \/ /\ l \in DOMAIN req[r].copy.lesson
           /\ \E t \in req[r].copy.lesson[l].tests :
                \/ \E minimum \in Minimums, same \in BOOLEAN :
                      ChangeLinkedTest(r, l, t, minimum, same)
                \/ \E u \in Actors, percent \in Percents :
                      SubmitLinkedTestAttempt(r, u, l, t, percent)

MaterialRequest(r) ==
    \/ NameLibrary(r)
    \/ \E l \in LessonIds :
          \/ \E u \in Actors : NameMaterials(r, u, l)
          \/ \E new \in BOOLEAN : UpsertLessonMaterial(r, l, new)
          \/ DeleteLessonMaterial(r, l)

ReaderRequest(r) ==
    \/ \E l \in LessonIds :
          \/ IncrementViews(r, l) \/ AddComment(r, l)
          \/ \E u \in Actors : ToggleLessonLike(r, u, l)
          \/ \E u \in Actors, timed \in 0 .. NoteLimit + 1, untimed \in 0 .. 1 :
                UpsertLessonNote(r, u, l, timed, untimed)
    \/ \E u \in Users, stars \in Stars : UpsertCourseReview(r, u, stars)

Step(r) ==
    \/ Begin(r) \/ FindCourse(r) \/ AnswerOnly(r) \/ Fail(r) \/ SaveCourse(r)
    \/ \E k \in Rows : FindRows(r, k) \/ DeleteStale(r, k) \/ Upsert(r, k)
    \/ \E k \in Rows \cup {"course"} : Drop(r, k)
    \/ MemberRequest(r) \/ LessonRequest(r) \/ AttendanceRequest(r) \/ HomeworkRequest(r)
    \/ TestRequest(r) \/ MaterialRequest(r) \/ ReaderRequest(r)

Next == \E r \in Requests : Step(r)

Spec == Init /\ [][Next]_vars

-------------------------------------------------------------------------------
(* Properties. *)

\* An account has one attendance record, one oral mark, one note and one result
\* in a lesson, one submission to an assignment and one review of the course,
\* although every request adds entries to its own copy and stores the copy.
OneEntryPerUser == OneEntryEach(db)

\* A student has passed a linked test exactly when the best result reaches the
\* minimum of today, whatever attempts and changes of the minimum overlapped.
PassedMeansReached == PassedReached(db)

\* The rating and its count are those of the stored reviews, although reviews are
\* stored directly and also by every request that stores its copy of the course.
RatingOfReviews == Rated(db)

\* Whoever left a trace in a lesson - attendance, a like, a note, a test result,
\* homework - had a way in: the author, an account that was once approved, or
\* anybody if the lesson was once the first one, which is the preview.
TraceNeedsAccess == CourseTraced(db, approved, shown)

\* A request that overlapped no other leaves exactly its copy in the database:
\* members, lessons and homework it removed have gone, all others are as it left
\* them, and a course it deleted leaves no row behind.
SoloRequestStored ==
    [][\A r \in Requests, k \in Rows \cup {"course"} :
          req[r].solo /\ req[r].todo = {k} =>
              /\ Upsert(r, k) => db' = req[r].copy
              /\ Drop(r, k) => db' = Empty]_vars

\* markMeetAttendance "never overrides an existing manual mark"
\* (courses/courses.service.ts:2742).
ManualMarkKept ==
    [][\A r \in Requests :
          req[r].op = "markMeetAttendance" /\ Upsert(r, "lesson") =>
              \A l \in DOMAIN db.lesson : \A e \in db.lesson[l].attendance :
                  e.source = "manual" => e \in db'.lesson[l].attendance]_vars
===============================================================================

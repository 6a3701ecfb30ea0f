----------------------------- MODULE Course_proofs -----------------------------
(* One entry per user, results that agree with the minimum and a rating that  *)
(* agrees with the reviews, for every overlap of any number of requests.      *)
(* They hold of the database because they hold of every copy a request holds: *)
(* each row is right in itself, whichever rows overwrite which.  The second   *)
(* part shows that the rows name only accounts that had a way in, and what a  *)
(* request that overlaps no other leaves behind.                              *)
EXTENDS Course, FiniteSetTheorems, TLAPS

DocOK(d) ==
    /\ DOMAIN d = {"access", "reviews", "rating", "count"}
    /\ d.reviews \subseteq Review /\ OnePerUser(d.reviews)
    /\ d.rating = Average(d.reviews) /\ d.count = Cardinality(d.reviews)

TestOK(t) ==
    /\ OnePerUser(t.progress)
    /\ \A p \in t.progress : p.passed <=> p.best >= t.minimum

LessonOK(x) ==
    /\ x \in Lesson
    /\ OnePerUser(x.attendance) /\ OnePerUser(x.oral) /\ OnePerUser(x.notes)
    /\ \A t \in x.tests : TestOK(t)

HomeworkOK(h) == h \in Homework /\ OnePerUser(h.submissions)

LessonsOK(ls) ==
    /\ IsPartial(ls, LessonIds, Lesson)
    /\ \A l \in DOMAIN ls : LessonOK(ls[l])

AssignmentsOK(hs) ==
    /\ IsPartial(hs, HomeworkIds, Homework)
    /\ \A h \in DOMAIN hs : HomeworkOK(hs[h])

MembersOK(ms) == IsPartial(ms, Users, MemberStatus)

CourseOK(c) ==
    /\ c = [course |-> c.course, member |-> c.member, lesson |-> c.lesson, homework |-> c.homework]
    /\ MembersOK(c.member) /\ LessonsOK(c.lesson) /\ AssignmentsOK(c.homework)

RequestOK(q) ==
    /\ DOMAIN q = {"at", "todo", "op", "copy", "solo"}
    /\ CourseOK(q.copy)
    /\ q.at \notin {"idle", "course"} => DocOK(q.copy.course)

IInv ==
    /\ CourseOK(db) /\ (db.course = Nobody \/ DocOK(db.course))
    /\ req = [r \in Requests |-> req[r]]
    /\ \A r \in Requests : RequestOK(req[r])

-------------------------------------------------------------------------------
(* The helpers. *)

LEMMA EntryFound ==
    ASSUME NEW S, NEW u, HasEntry(S, u)
    PROVE  EntryOf(S, u) \in S /\ EntryOf(S, u).user = u
  BY DEF HasEntry, EntryOf

LEMMA PutKeepsOne ==
    ASSUME NEW S, NEW u, NEW e, e.user = u, OnePerUser(S)
    PROVE  OnePerUser(Put(S, u, e)) /\ Put(S, u, e) \subseteq S \cup {e}
  <1>1. CASE HasEntry(S, u)
    BY <1>1, EntryFound DEF Put, OnePerUser
  <1>2. CASE ~HasEntry(S, u)
    BY <1>2 DEF Put, OnePerUser, HasEntry
  <1> QED BY <1>1, <1>2

LEMMA NumberedOK ==
    ASSUME NEW ls, LessonsOK(ls)
    PROVE  LessonsOK(Numbered(ls))
  <1>1. ASSUME NEW l \in DOMAIN ls, NEW n \in Nat
        PROVE  LessonOK([ls[l] EXCEPT !.order = n])
    BY <1>1 DEF LessonsOK, LessonOK, Lesson
  <1>2. ASSUME NEW l \in DOMAIN ls
        PROVE  Cardinality({k \in DOMAIN ls : ls[k].order < ls[l].order}) \in Nat
    <2>1. IsFiniteSet(DOMAIN ls)
      BY ConstantsAssumption, FS_Subset DEF LessonsOK, IsPartial
    <2> QED BY <2>1, FS_Subset, FS_CardinalityType
  <1>3. ASSUME NEW l \in DOMAIN ls PROVE LessonOK(Numbered(ls)[l])
    BY <1>1, <1>2, <1>3 DEF Numbered
  <1>4. DOMAIN Numbered(ls) = DOMAIN ls /\ Numbered(ls) = [l \in DOMAIN ls |-> Numbered(ls)[l]]
    BY DEF Numbered
  <1> QED BY <1>3, <1>4 DEF LessonsOK, LessonOK, IsPartial

LEMMA PlacedOK ==
    ASSUME NEW ls, LessonsOK(ls), NEW o \in Places(ls)
    PROVE  LessonsOK(Placed(ls, o))
  <1>1. ASSUME NEW l \in DOMAIN ls, NEW n \in Nat
        PROVE  LessonOK([ls[l] EXCEPT !.order = n])
    BY <1>1 DEF LessonsOK, LessonOK, Lesson
  <1>2. ASSUME NEW l \in DOMAIN ls PROVE o[l] \in Nat
    <2>1. IsFiniteSet(DOMAIN ls)
      BY ConstantsAssumption, FS_Subset DEF LessonsOK, IsPartial
    <2>2. Cardinality(DOMAIN ls) \in Nat
      BY <2>1, FS_CardinalityType
    <2> QED BY <1>2, <2>2 DEF Places
  <1>3. ASSUME NEW l \in DOMAIN ls PROVE LessonOK(Placed(ls, o)[l])
    BY <1>1, <1>2, <1>3 DEF Placed
  <1>4. DOMAIN Placed(ls, o) = DOMAIN ls /\ Placed(ls, o) = [l \in DOMAIN ls |-> Placed(ls, o)[l]]
    BY DEF Placed
  <1> QED BY <1>3, <1>4 DEF LessonsOK, LessonOK, IsPartial

LEMMA AttachedOK ==
    ASSUME NEW c, CourseOK(c)
    PROVE  CourseOK(Attached(c)) /\ Attached(c).course = c.course
  BY DEF Attached, CourseOK, AssignmentsOK, IsPartial

\* A course stays right when one lesson or one assignment is replaced by a right one.
LEMMA LessonReplaced ==
    ASSUME NEW c, CourseOK(c), NEW l \in DOMAIN c.lesson, NEW x, LessonOK(x)
    PROVE  CourseOK([c EXCEPT !.lesson[l] = x]) /\ [c EXCEPT !.lesson[l] = x].course = c.course
  BY DEF CourseOK, LessonsOK, LessonOK, IsPartial

LEMMA AssignmentReplaced ==
    ASSUME NEW c, CourseOK(c), NEW h \in DOMAIN c.homework, NEW x, HomeworkOK(x)
    PROVE  CourseOK([c EXCEPT !.homework[h] = x]) /\ [c EXCEPT !.homework[h] = x].course = c.course
  BY DEF CourseOK, AssignmentsOK, HomeworkOK, IsPartial

-------------------------------------------------------------------------------
(* A step that changes one request, or stores what a request holds. *)

LEMMA EmptyOK == CourseOK(Empty)
  <1> \A S : << >> \in [DOMAIN << >> -> S] /\ DOMAIN << >> = {}
    OBVIOUS
  <1> QED BY DEF Empty, CourseOK, MembersOK, LessonsOK, AssignmentsOK, IsPartial

LEMMA InitOK == Init => IInv
  <1> SUFFICES ASSUME Init PROVE IInv
    OBVIOUS
  <1>1. PICK s \in Scenarios : db = s.start
    BY DEF Init
  <1>2. IsCourse(db) /\ OneEntryEach(db) /\ PassedReached(db) /\ Rated(db)
    BY <1>1, ScenariosAssumption
  <1>3. CourseOK(db)
    BY <1>2 DEF IsCourse, OneEntryEach, PassedReached, CourseOK, MembersOK, LessonsOK, LessonOK,
                TestOK, AssignmentsOK, HomeworkOK, IsPartial
  <1>4. db.course = Nobody \/ DocOK(db.course)
    BY <1>2 DEF IsCourse, OneEntryEach, Rated, DocOK, CourseDoc
  <1>5. RequestOK(Idle)
    BY EmptyOK DEF Idle, RequestOK
  <1> QED BY <1>3, <1>4, <1>5 DEF Init, IInv

LEMMA RequestChanges ==
    ASSUME IInv, UNCHANGED db, NEW r \in Requests, NEW q, RequestOK(q), req' = [req EXCEPT ![r] = q]
    PROVE  IInv'
  BY DEF IInv

LEMMA BackToIdle ==
    ASSUME IInv, UNCHANGED db, NEW r \in Requests, req' = [req EXCEPT ![r] = Idle]
    PROVE  IInv'
  <1>1. RequestOK(Idle)
    BY EmptyOK DEF Idle, RequestOK
  <1> QED BY <1>1, RequestChanges

\* A handler that stores a right copy leaves a right request.
LEMMA SaveOK ==
    ASSUME IInv, NEW r \in Requests, NEW op, NEW c, CourseOK(c), DocOK(c.course), Save(r, op, c)
    PROVE  IInv'
  <1> DEFINE d == [c EXCEPT !.lesson = Numbered(c.lesson)]
  <1>1. CourseOK(d) /\ d.course = c.course
    BY NumberedOK DEF CourseOK
  <1> DEFINE q == [req[r] EXCEPT !.at = "save", !.op = op, !.copy = d]
  <1>2. RequestOK(q)
    <2>1. RequestOK(req[r])
      BY DEF IInv
    <2> HIDE DEF d
    <2> QED BY <1>1, <2>1 DEF RequestOK
  <1>3. req' = [req EXCEPT ![r] = q]
    BY DEF Save
  <1>4. UNCHANGED db
    BY DEF Save
  <1> HIDE DEF q
  <1> QED BY <1>2, <1>3, <1>4, RequestChanges

\* The copy that a handler may change.
LEMMA LoadedCopy ==
    ASSUME IInv, NEW r \in Requests, NEW op, May(r, op)
    PROVE  CourseOK(req[r].copy) /\ DocOK(req[r].copy.course)
  BY DEF IInv, RequestOK, May

\* ... when it replaces one lesson.
LEMMA SaveLesson ==
    ASSUME IInv, NEW r \in Requests, NEW op, May(r, op),
           NEW l \in DOMAIN req[r].copy.lesson, NEW x, LessonOK(x),
           Save(r, op, [req[r].copy EXCEPT !.lesson[l] = x])
    PROVE  IInv'
  <1> DEFINE c == [req[r].copy EXCEPT !.lesson[l] = x]
  <1>1. CourseOK(c) /\ DocOK(c.course)
    BY LoadedCopy, LessonReplaced
  <1> HIDE DEF c
  <1> QED BY <1>1, SaveOK DEF c

\* ... when it replaces one assignment.
LEMMA SaveAssignment ==
    ASSUME IInv, NEW r \in Requests, NEW op, May(r, op),
           NEW h \in DOMAIN req[r].copy.homework, NEW x, HomeworkOK(x),
           Save(r, op, [req[r].copy EXCEPT !.homework[h] = x])
    PROVE  IInv'
  <1> DEFINE c == [req[r].copy EXCEPT !.homework[h] = x]
  <1>1. CourseOK(c) /\ DocOK(c.course)
    BY LoadedCopy, AssignmentReplaced
  <1> HIDE DEF c
  <1> QED BY <1>1, SaveOK DEF c

\* The database changes to a right course, the request moves on with its copy.
LEMMA Stored ==
    ASSUME IInv, NEW r \in Requests, CourseOK(db'), db'.course = Nobody \/ DocOK(db'.course),
           NEW q, RequestOK(q), req' = [req EXCEPT ![r] = q]
    PROVE  IInv'
  BY DEF IInv

-------------------------------------------------------------------------------
(* Loading and storing. *)

LEMMA PipelineOK ==
    ASSUME IInv, NEW r \in Requests,
           \/ Begin(r) \/ FindCourse(r) \/ AnswerOnly(r) \/ Fail(r) \/ SaveCourse(r)
           \/ \E k \in Rows : FindRows(r, k) \/ DeleteStale(r, k) \/ Upsert(r, k)
           \/ \E k \in Rows \cup {"course"} : Drop(r, k)
    PROVE  IInv'
  <1> USE DEF Rows
  <1>0. RequestOK(Idle) /\ RequestOK(req[r]) /\ CourseOK(db)
    BY EmptyOK DEF Idle, RequestOK, IInv
  <1>1. CASE Begin(r)
    <2>1. ASSUME NEW b PROVE RequestOK([Idle EXCEPT !.at = "course", !.solo = b])
      BY <1>0 DEF Idle, RequestOK
    <2>2. ASSUME NEW p \in Requests PROVE RequestOK([req[p] EXCEPT !.solo = FALSE])
      <3>1. RequestOK(req[p])
        BY DEF IInv
      <3> QED BY <3>1 DEF RequestOK
    <2> QED BY <1>1, <2>1, <2>2 DEF Begin, IInv
  <1>2. CASE FindCourse(r)
    <2> DEFINE q == [req[r] EXCEPT !.at = "rows", !.todo = Rows, !.copy.course = db.course]
    <2>1. CASE db.course = Nobody
      BY <1>2, <2>1, BackToIdle DEF FindCourse
    <2>2. CASE db.course # Nobody
      <3>1. RequestOK(q)
        <4>1. DocOK(db.course)
          BY <2>2 DEF IInv
        <4> DEFINE c == [req[r].copy EXCEPT !.course = db.course]
        <4>2. CourseOK(c) /\ c.course = db.course
          BY <1>0 DEF RequestOK, CourseOK
        <4>3. q = [req[r] EXCEPT !.at = "rows", !.todo = Rows, !.copy = c]
          BY <1>0 DEF RequestOK
        <4> HIDE DEF c
        <4> QED BY <1>0, <4>1, <4>2, <4>3 DEF RequestOK
      <3>2. req' = [req EXCEPT ![r] = q] /\ UNCHANGED db
        BY <1>2, <2>2 DEF FindCourse
      <3> HIDE DEF q
      <3> QED BY <3>1, <3>2, RequestChanges
    <2> QED BY <2>1, <2>2
  <1>3. CASE AnswerOnly(r)
    BY <1>3, BackToIdle DEF AnswerOnly
  <1>4. CASE Fail(r)
    BY <1>4, BackToIdle DEF Fail
  <1>5. CASE SaveCourse(r)
    <2> DEFINE q == [req[r] EXCEPT !.at = "stale", !.todo = Rows]
    <2>1. RequestOK(q)
      <3>1. req[r].at = "save"
        BY <1>5 DEF SaveCourse
      <3> QED BY <1>0, <3>1 DEF RequestOK
    <2>2. CourseOK(db') /\ (db'.course = Nobody \/ DocOK(db'.course))
      BY <1>0, <1>5 DEF SaveCourse, RequestOK, CourseOK
    <2>3. req' = [req EXCEPT ![r] = q]
      BY <1>5 DEF SaveCourse
    <2> HIDE DEF q
    <2> QED BY <2>1, <2>2, <2>3, Stored
  <1>6. ASSUME NEW k \in Rows, FindRows(r, k) PROVE IInv'
    <2>1. PICK rows \in IF k = "lesson" THEN {Placed(db.lesson, o) : o \in Places(db.lesson)}
                                        ELSE {db[k]} :
             req' = [req EXCEPT ![r] = Loaded(@, k, rows)]
      BY <1>6 DEF FindRows
    <2> DEFINE c == [req[r].copy EXCEPT ![k] = rows]
    <2>2. k = "lesson" => LessonsOK(rows)
      BY <1>0, <2>1, PlacedOK DEF CourseOK
    <2>3. k # "lesson" => rows = db[k]
      BY <2>1
    <2>4. CourseOK(c) /\ c.course = req[r].copy.course
      BY <1>0, <2>2, <2>3 DEF CourseOK, RequestOK
    <2>5. CourseOK(Attached(c)) /\ Attached(c).course = c.course
      BY <2>4, AttachedOK
    <2>6. DocOK(c.course)
      BY <1>0, <1>6, <2>4 DEF FindRows, RequestOK
    <2>7. RequestOK(Loaded(req[r], k, rows))
      <3> HIDE DEF c
      <3>1. Loaded(req[r], k, rows) =
              [req[r] EXCEPT !.todo = req[r].todo \ {k},
                             !.at = IF req[r].todo \ {k} = {} THEN "loaded" ELSE "rows",
                             !.copy = IF req[r].todo \ {k} = {} THEN Attached(c) ELSE c]
        BY DEF Loaded, c
      <3> QED BY <1>0, <2>4, <2>5, <2>6, <3>1 DEF RequestOK
    <2> QED BY <1>6, <2>1, <2>7, RequestChanges DEF FindRows
  <1>7. ASSUME NEW k \in Rows, DeleteStale(r, k) PROVE IInv'
    <2> DEFINE q == Answered(req[r], k, [req[r] EXCEPT !.at = "upsert", !.todo = Rows])
    <2>1. RequestOK(q)
      BY <1>0, <1>7 DEF RequestOK, DeleteStale, Answered
    <2>2. CourseOK(db') /\ db'.course = db.course
      BY <1>0, <1>7 DEF DeleteStale, CourseOK, MembersOK, LessonsOK, AssignmentsOK, IsPartial
    <2>3. req' = [req EXCEPT ![r] = q]
      BY <1>7 DEF DeleteStale
    <2> HIDE DEF q
    <2> QED BY <2>1, <2>2, <2>3, Stored DEF IInv
  <1>8. ASSUME NEW k \in Rows, Upsert(r, k) PROVE IInv'
    <2> DEFINE q == Answered(req[r], k, Idle)
    <2>1. RequestOK(q)
      BY <1>0, <1>8 DEF RequestOK, Upsert, Answered
    <2>2. CourseOK(db') /\ db'.course = db.course
      BY <1>0, <1>8 DEF Upsert, CourseOK, RequestOK, MembersOK, LessonsOK, AssignmentsOK, IsPartial
    <2>3. req' = [req EXCEPT ![r] = q]
      BY <1>8 DEF Upsert
    <2> HIDE DEF q
    <2> QED BY <2>1, <2>2, <2>3, Stored DEF IInv
  <1>9. ASSUME NEW k \in Rows \cup {"course"}, Drop(r, k) PROVE IInv'
    <2> DEFINE q == Answered(req[r], k, Idle)
    <2>1. RequestOK(q)
      BY <1>0, <1>9 DEF RequestOK, Drop, Answered
    <2>2. CourseOK(db') /\ (db'.course = Nobody \/ DocOK(db'.course))
      <3>1. CourseOK(Empty) /\ Empty.course = Nobody
        BY EmptyOK DEF Empty
      <3> QED BY <1>0, <1>9, <3>1 DEF Drop, CourseOK, Empty, IInv
    <2>3. req' = [req EXCEPT ![r] = q]
      BY <1>9 DEF Drop
    <2> HIDE DEF q
    <2> QED BY <2>1, <2>2, <2>3, Stored
  <1> QED BY <1>1, <1>2, <1>3, <1>4, <1>5, <1>6, <1>7, <1>8, <1>9
-------------------------------------------------------------------------------
(* The operations. *)

LEMMA MemberRequestOK ==
    ASSUME IInv, NEW r \in Requests, MemberRequest(r)
    PROVE  IInv'
  <1> DEFINE c == req[r].copy
  <1>0. ASSUME NEW op, May(r, op), NEW ms, MembersOK(ms), Save(r, op, [c EXCEPT !.member = ms])
        PROVE  IInv'
    <2> DEFINE d == [c EXCEPT !.member = ms]
    <2>0. CourseOK(c) /\ DocOK(c.course)
      BY <1>0, LoadedCopy
    <2>1. CourseOK(d) /\ DocOK(d.course)
      BY <1>0, <2>0 DEF CourseOK
    <2> HIDE DEF d
    <2> QED BY <1>0, <2>1, SaveOK DEF d
  <1>1. ASSUME NEW u \in Users, Enroll(r, u) PROVE IInv'
    <2> DEFINE status == IF c.course.access = "free_open" THEN "approved" ELSE "pending"
    <2>1. May(r, "enroll") /\ Save(r, "enroll", [c EXCEPT !.member = With(@, u, status)])
      BY <1>1 DEF Enroll
    <2>2. status \in MemberStatus
      BY DEF MemberStatus
    <2>3. MembersOK(c.member)
      BY <2>1, LoadedCopy DEF CourseOK
    <2> HIDE DEF status
    <2>4. MembersOK(With(c.member, u, status))
      BY <2>2, <2>3 DEF MembersOK, IsPartial, With
    <2> QED BY <1>0, <2>1, <2>4
  <1>2. ASSUME NEW u \in Users, ApproveUser(r, u) PROVE IInv'
    <2>1. CASE u \in DOMAIN c.member
      <3> DEFINE ms == [c.member EXCEPT ![u] = "approved"]
      <3>1. May(r, "approveUser") /\ Save(r, "approveUser", [c EXCEPT !.member = ms])
        BY <1>2, <2>1 DEF ApproveUser
      <3>2. MembersOK(c.member)
        BY <3>1, LoadedCopy DEF CourseOK
      <3>3. MembersOK(ms)
        BY <3>2 DEF MembersOK, IsPartial, MemberStatus
      <3> HIDE DEF ms
      <3> QED BY <1>0, <3>1, <3>3
    <2>2. CASE u \notin DOMAIN c.member
      BY <1>2, <2>2, LoadedCopy, SaveOK DEF ApproveUser
    <2> QED BY <2>1, <2>2
  <1>3. ASSUME NEW u \in Users, RemoveUser(r, u) PROVE IInv'
    <2>1. May(r, "removeUser") /\ Save(r, "removeUser", [c EXCEPT !.member = Without(@, u)])
      BY <1>3 DEF RemoveUser
    <2>2. MembersOK(c.member)
      BY <2>1, LoadedCopy DEF CourseOK
    <2>3. MembersOK(Without(c.member, u))
      BY <2>2 DEF MembersOK, IsPartial, Without
    <2> QED BY <1>0, <2>1, <2>3
  <1>4. ASSUME NEW access, Update(r, access) PROVE IInv'
    <2> DEFINE d == [c EXCEPT !.course.access = access]
    <2>1. May(r, "update") /\ Save(r, "update", d)
      BY <1>4 DEF Update
    <2>2. CourseOK(c) /\ DocOK(c.course)
      BY <2>1, LoadedCopy
    <2>3. CourseOK(d) /\ d.course = [c.course EXCEPT !.access = access]
      BY <2>2 DEF CourseOK
    <2>4. DocOK(d.course)
      BY <2>2, <2>3 DEF DocOK
    <2> HIDE DEF d
    <2> QED BY <2>1, <2>3, <2>4, SaveOK
  <1>5. CASE Delete(r)
    <2> DEFINE q == [req[r] EXCEPT !.at = "drop", !.todo = Rows \cup {"course"}, !.op = "delete"]
    <2>1. RequestOK(q)
      BY <1>5, LoadedCopy DEF Delete, RequestOK, IInv
    <2>2. req' = [req EXCEPT ![r] = q] /\ UNCHANGED db
      BY <1>5 DEF Delete
    <2> HIDE DEF q
    <2> QED BY <2>1, <2>2, RequestChanges
  <1> QED BY <1>1, <1>2, <1>3, <1>4, <1>5 DEF MemberRequest

LEMMA LessonRequestOK ==
    ASSUME IInv, NEW r \in Requests, LessonRequest(r)
    PROVE  IInv'
  <1> DEFINE c == req[r].copy
  <1>1. ASSUME NEW status \in {"draft", "published"}, NEW media \in {"none", "file"},
               AddLesson(r, status, media)
        PROVE  IInv'
    <2> DEFINE n == Cardinality(DOMAIN c.lesson)
               x == NewLesson(n, status, media)
    <2>1. PICK l \in LessonIds \ used :
             Save(r, "addLesson", [c EXCEPT !.lesson = With(@, l, x)])
      BY <1>1 DEF AddLesson
    <2>2. CourseOK(c) /\ DocOK(c.course)
      BY <1>1, LoadedCopy DEF AddLesson
    <2>3. n \in Nat
      <3>1. IsFiniteSet(DOMAIN c.lesson)
        BY <2>2, ConstantsAssumption, FS_Subset DEF CourseOK, LessonsOK, IsPartial
      <3> QED BY <3>1, FS_CardinalityType
    <2>4. LessonOK(x)
      BY <2>3 DEF NewLesson, LessonOK, Lesson, OnePerUser
    <2> DEFINE d == [c EXCEPT !.lesson = With(@, l, x)]
    <2>5. LessonsOK(With(c.lesson, l, x))
      <3> HIDE DEF x
      <3> QED BY <2>2, <2>4 DEF CourseOK, LessonsOK, LessonOK, With, IsPartial
    <2>6. CourseOK(d) /\ d.course = c.course
      BY <2>2, <2>5 DEF CourseOK
    <2> HIDE DEF d
    <2> QED BY <2>1, <2>2, <2>6, SaveOK DEF d
  <1>2. ASSUME NEW l, NEW media \in {"none", "notion", "file"}, UpdateLesson(r, l, media)
        PROVE  IInv'
    <2> DEFINE x == [c.lesson[l] EXCEPT !.media = media,
                                        !.status = IF media = "file" THEN @ ELSE "draft"]
    <2>1. l \in DOMAIN c.lesson /\ May(r, "updateLesson") /\ CourseOK(c)
      BY <1>2, LoadedCopy DEF UpdateLesson
    <2>2. LessonOK(x)
      BY <2>1 DEF CourseOK, LessonsOK, LessonOK, Lesson
    <2>3. Save(r, "updateLesson", [c EXCEPT !.lesson[l] = x])
      BY <1>2, <2>1 DEF UpdateLesson, CourseOK, LessonsOK, IsPartial
    <2> HIDE DEF x
    <2> QED BY <2>1, <2>2, <2>3, SaveLesson
  <1>3. ASSUME NEW l, PublishLesson(r, l) PROVE IInv'
    <2> DEFINE x == [c.lesson[l] EXCEPT !.status = "published"]
    <2>1. l \in DOMAIN c.lesson /\ May(r, "publishLesson") /\ CourseOK(c)
      BY <1>3, LoadedCopy DEF PublishLesson
    <2>2. LessonOK(x)
      BY <2>1 DEF CourseOK, LessonsOK, LessonOK, Lesson
    <2>3. Save(r, "publishLesson", [c EXCEPT !.lesson[l] = x])
      BY <1>3 DEF PublishLesson
    <2> HIDE DEF x
    <2> QED BY <2>1, <2>2, <2>3, SaveLesson
  <1>4. ASSUME NEW l, RemoveLesson(r, l) PROVE IInv'
    <2> DEFINE d == [c EXCEPT !.lesson = Without(@, l),
                              !.homework = [h \in DOMAIN @ \ HomeworkOf(c, l) |-> @[h]]]
    <2>1. May(r, "removeLesson") /\ Save(r, "removeLesson", d)
      BY <1>4 DEF RemoveLesson
    <2>2. CourseOK(c) /\ DocOK(c.course)
      BY <2>1, LoadedCopy
    <2> DEFINE ls == Without(c.lesson, l)
               hs == [h \in DOMAIN c.homework \ HomeworkOf(c, l) |-> c.homework[h]]
    <2>3. LessonsOK(ls)
      BY <2>2 DEF CourseOK, LessonsOK, Without, IsPartial
    <2>4. AssignmentsOK(hs)
      BY <2>2 DEF CourseOK, AssignmentsOK, IsPartial
    <2>5. CourseOK(d) /\ d.course = c.course
      <3>1. d = [c EXCEPT !.lesson = ls, !.homework = hs]
        BY <2>2 DEF CourseOK
      <3> HIDE DEF ls, hs, d
      <3> QED BY <2>2, <2>3, <2>4, <3>1 DEF CourseOK
    <2> HIDE DEF d
    <2> QED BY <2>1, <2>2, <2>5, SaveOK
  <1> QED BY <1>1, <1>2, <1>3, <1>4 DEF LessonRequest

LEMMA AttendanceRequestOK ==
    ASSUME IInv, NEW r \in Requests, AttendanceRequest(r)
    PROVE  IInv'
  <1> DEFINE c == req[r].copy
  <1>0. ASSUME NEW op, May(r, op), NEW l \in DOMAIN c.lesson, NEW u, NEW e \in Attendance, e.user = u,
               Save(r, op, [c EXCEPT !.lesson[l].attendance = Put(@, u, e)])
        PROVE  IInv'
    <2> DEFINE x == [c.lesson[l] EXCEPT !.attendance = Put(@, u, e)]
    <2>1. CourseOK(c)
      BY <1>0, LoadedCopy
    <2>2. LessonOK(c.lesson[l])
      BY <2>1 DEF CourseOK, LessonsOK
    <2>3. OnePerUser(Put(c.lesson[l].attendance, u, e))
            /\ Put(c.lesson[l].attendance, u, e) \subseteq Attendance
      BY <1>0, <2>2, PutKeepsOne DEF LessonOK, Lesson
    <2>4. LessonOK(x)
      BY <2>2, <2>3 DEF LessonOK, Lesson
    <2> HIDE DEF x
    <2> QED BY <1>0, <2>4, SaveLesson DEF x
  <1>1. ASSUME NEW op, May(r, op), NEW l \in DOMAIN c.lesson, NEW u \in Actors
        PROVE  AttendanceOf(c, l, u) \in Attendance /\ AttendanceOf(c, l, u).user = u
    <2>1. c.lesson[l].attendance \subseteq Attendance
      BY <1>1, LoadedCopy DEF CourseOK, LessonsOK, LessonOK, Lesson
    <2>2. CASE HasEntry(c.lesson[l].attendance, u)
      BY <2>1, <2>2, EntryFound DEF AttendanceOf
    <2>3. CASE ~HasEntry(c.lesson[l].attendance, u)
      BY <1>1, <2>3 DEF AttendanceOf, Attendance
    <2> QED BY <2>2, <2>3
  <1>2. ASSUME NEW l, NEW u \in Actors, NEW percent \in Percents, MarkOwnAttendance(r, u, l, percent)
        PROVE  IInv'
    <2> DEFINE old == AttendanceOf(c, l, u)
               progress == Clamp(IF percent > old.progress THEN percent ELSE old.progress, 0, 100)
               e == [old EXCEPT !.status = ResolveStatus(@, progress), !.progress = progress,
                                !.source = "auto"]
    <2>1. l \in DOMAIN c.lesson /\ May(r, "markOwnAttendance")
      BY <1>2 DEF MarkOwnAttendance, CanAccess
    <2>2. old \in Attendance /\ old.user = u
      BY <1>1, <2>1
    <2>3. progress \in 0 .. 100
      <3> HIDE DEF old
      <3>1. old.progress \in 0 .. 100 /\ percent \in 0 .. 100
        BY <2>2, ConstantsAssumption DEF Attendance
      <3> QED BY <3>1 DEF Clamp
    <2>4. e \in Attendance /\ e.user = u
      <3> HIDE DEF old, progress
      <3> QED BY <2>2, <2>3 DEF Attendance, ResolveStatus
    <2>5. Save(r, "markOwnAttendance", [c EXCEPT !.lesson[l].attendance = Put(@, u, e)])
      BY <1>2 DEF MarkOwnAttendance
    <2> HIDE DEF e
    <2> QED BY <1>0, <2>1, <2>4, <2>5
  <1>3. ASSUME NEW l, NEW u \in Actors, NEW intent, MarkMeetAttendance(r, u, l, intent)
        PROVE  IInv'
    <2> DEFINE old == AttendanceOf(c, l, u)
               e == IF intent = "join" /\ old.source # "manual" /\ old.status = "absent"
                    THEN [old EXCEPT !.status = "present"] ELSE old
    <2>1. l \in DOMAIN c.lesson /\ May(r, "markMeetAttendance")
      BY <1>3 DEF MarkMeetAttendance, CanAccess
    <2>2. old \in Attendance /\ old.user = u
      BY <1>1, <2>1
    <2>3. e \in Attendance /\ e.user = u
      <3> HIDE DEF old
      <3> QED BY <2>2 DEF Attendance
    <2>4. Save(r, "markMeetAttendance", [c EXCEPT !.lesson[l].attendance = Put(@, u, e)])
      BY <1>3 DEF MarkMeetAttendance
    <2> HIDE DEF e
    <2> QED BY <1>0, <2>1, <2>3, <2>4
  <1>4. ASSUME NEW l, NEW u \in Users, NEW status \in {"present", "late", "absent"},
               SetAttendanceStatus(r, u, l, status)
        PROVE  IInv'
    <2> DEFINE old == AttendanceOf(c, l, u)
               e == [old EXCEPT !.status = status, !.source = "manual"]
    <2>1. l \in DOMAIN c.lesson /\ May(r, "setAttendanceStatus")
      BY <1>4 DEF SetAttendanceStatus
    <2>2. old \in Attendance /\ old.user = u
      BY <1>1, <2>1 DEF Actors
    <2>3. e \in Attendance /\ e.user = u
      <3> HIDE DEF old
      <3> QED BY <2>2 DEF Attendance
    <2>4. Save(r, "setAttendanceStatus", [c EXCEPT !.lesson[l].attendance = Put(@, u, e)])
      BY <1>4 DEF SetAttendanceStatus
    <2> HIDE DEF e
    <2> QED BY <1>0, <2>1, <2>3, <2>4
  <1>5. ASSUME NEW l, NEW u \in Users, NEW score \in Percents \cup {Nobody},
               SetLessonOralAssessment(r, u, l, score)
        PROVE  IInv'
    <2> DEFINE oral == c.lesson[l].oral
               old == IF HasEntry(oral, u) THEN EntryOf(oral, u) ELSE [user |-> u, score |-> Nobody]
    <2>1. l \in DOMAIN c.lesson /\ May(r, "setLessonOralAssessment")
      BY <1>5 DEF SetLessonOralAssessment
    <2>2. LessonOK(c.lesson[l])
      BY <2>1, LoadedCopy DEF CourseOK, LessonsOK
    <2>3. old \in Oral /\ old.user = u
      BY <2>2, EntryFound DEF LessonOK, Lesson, Oral
    <2>4. PICK s \in {old.score, score} :
             Save(r, "setLessonOralAssessment",
                  [c EXCEPT !.lesson[l].oral = Put(@, u, [old EXCEPT !.score = s])])
      BY <1>5 DEF SetLessonOralAssessment
    <2> DEFINE e == [old EXCEPT !.score = s]
               x == [c.lesson[l] EXCEPT !.oral = Put(@, u, e)]
    <2>5. e \in Oral /\ e.user = u
      <3> HIDE DEF old
      <3> QED BY <2>3, <2>4, ConstantsAssumption DEF Oral
    <2>6. OnePerUser(Put(oral, u, e)) /\ Put(oral, u, e) \subseteq Oral
      <3> HIDE DEF e
      <3> QED BY <2>2, <2>5, PutKeepsOne DEF LessonOK, Lesson
    <2>7. LessonOK(x)
      <3> HIDE DEF e
      <3> QED BY <2>2, <2>6 DEF LessonOK, Lesson
    <2>8. Save(r, "setLessonOralAssessment", [c EXCEPT !.lesson[l] = x])
      BY <2>4
    <2> HIDE DEF x
    <2> QED BY <2>1, <2>7, <2>8, SaveLesson
  <1> QED BY <1>2, <1>3, <1>4, <1>5 DEF AttendanceRequest

LEMMA HomeworkRequestOK ==
    ASSUME IInv, NEW r \in Requests, HomeworkRequest(r)
    PROVE  IInv'
  <1> DEFINE c == req[r].copy
  <1>0. ASSUME NEW op, May(r, op), NEW h \in DOMAIN c.homework, NEW u, NEW e \in Submission,
               e.user = u, Save(r, op, [c EXCEPT !.homework[h].submissions = Put(@, u, e)])
        PROVE  IInv'
    <2> DEFINE x == [c.homework[h] EXCEPT !.submissions = Put(@, u, e)]
    <2>1. HomeworkOK(c.homework[h])
      BY <1>0, LoadedCopy DEF CourseOK, AssignmentsOK
    <2>2. OnePerUser(Put(c.homework[h].submissions, u, e))
            /\ Put(c.homework[h].submissions, u, e) \subseteq Submission
      BY <1>0, <2>1, PutKeepsOne DEF HomeworkOK, Homework
    <2>3. HomeworkOK(x)
      BY <2>1, <2>2 DEF HomeworkOK, Homework
    <2> HIDE DEF x
    <2> QED BY <1>0, <2>3, SaveAssignment DEF x
  <1>1. ASSUME NEW l \in LessonIds, NEW enabled \in BOOLEAN, NEW max \in MaxScores,
               NewHomework(r, l, enabled, max)
        PROVE  IInv'
    <2> DEFINE x == [lesson |-> l, enabled |-> enabled, max |-> max, submissions |-> {}]
    <2>1. PICK h \in HomeworkIds \ used :
             Save(r, "upsertLessonHomework", [c EXCEPT !.homework = With(@, h, x)])
      BY <1>1 DEF NewHomework
    <2>2. CourseOK(c) /\ DocOK(c.course)
      BY <1>1, LoadedCopy DEF NewHomework
    <2>3. HomeworkOK(x)
      BY ConstantsAssumption DEF HomeworkOK, Homework, OnePerUser
    <2> DEFINE d == [c EXCEPT !.homework = With(@, h, x)]
    <2>4. AssignmentsOK(With(c.homework, h, x))
      <3> HIDE DEF x
      <3> QED BY <2>2, <2>3 DEF CourseOK, AssignmentsOK, HomeworkOK, With, IsPartial
    <2>5. CourseOK(d) /\ d.course = c.course
      BY <2>2, <2>4 DEF CourseOK
    <2> HIDE DEF d
    <2> QED BY <2>1, <2>2, <2>5, SaveOK DEF d
  <1>2. ASSUME NEW h, NEW enabled \in BOOLEAN, NEW max \in MaxScores, ChangeHomework(r, h, enabled, max)
        PROVE  IInv'
    <2> DEFINE x == [c.homework[h] EXCEPT !.enabled = enabled, !.max = max]
    <2>1. h \in DOMAIN c.homework /\ May(r, "upsertLessonHomework") /\ CourseOK(c)
      BY <1>2, LoadedCopy DEF ChangeHomework
    <2>2. HomeworkOK(c.homework[h])
      BY <2>1 DEF CourseOK, AssignmentsOK
    <2>3. HomeworkOK(x)
      BY <2>2, ConstantsAssumption DEF HomeworkOK, Homework
    <2>4. Save(r, "upsertLessonHomework", [c EXCEPT !.homework[h] = x])
      BY <1>2, <2>1 DEF ChangeHomework, CourseOK, AssignmentsOK, IsPartial
    <2> HIDE DEF x
    <2> QED BY <2>1, <2>3, <2>4, SaveAssignment
  <1>3. ASSUME NEW h, DeleteLessonHomework(r, h) PROVE IInv'
    <2> DEFINE hs == Without(c.homework, h)
               d == [c EXCEPT !.homework = hs]
    <2>1. May(r, "deleteLessonHomework") /\ Save(r, "deleteLessonHomework", d)
      BY <1>3 DEF DeleteLessonHomework
    <2>2. CourseOK(c) /\ DocOK(c.course)
      BY <2>1, LoadedCopy
    <2>3. AssignmentsOK(hs)
      BY <2>2 DEF CourseOK, AssignmentsOK, Without, IsPartial
    <2>4. CourseOK(d) /\ d.course = c.course
      <3> HIDE DEF hs
      <3> QED BY <2>2, <2>3 DEF CourseOK
    <2> HIDE DEF d
    <2> QED BY <2>1, <2>2, <2>4, SaveOK
  <1>4. ASSUME NEW h, NEW u \in Actors, SubmitLessonHomework(r, u, h) PROVE IInv'
    <2> DEFINE e == [user |-> u, status |-> "submitted", score |-> Nobody]
    <2>1. e \in Submission /\ e.user = u
      BY DEF Submission
    <2>2. /\ h \in DOMAIN c.homework /\ May(r, "submitLessonHomework")
          /\ Save(r, "submitLessonHomework", [c EXCEPT !.homework[h].submissions = Put(@, u, e)])
      BY <1>4 DEF SubmitLessonHomework
    <2> HIDE DEF e
    <2> QED BY <1>0, <2>1, <2>2
  <1>5. ASSUME NEW h, NEW u \in Actors, NEW status \in {"submitted", "reviewed", "needs_revision"},
               NEW score \in Percents \cup {Nobody}, ReviewLessonHomework(r, h, u, status, score)
        PROVE  IInv'
    <2> DEFINE hw == c.homework[h]
               new == IF score = Nobody THEN Nobody ELSE Clamp(score, 0, hw.max)
    <2>1. /\ h \in DOMAIN c.homework /\ May(r, "reviewLessonHomework")
          /\ HasEntry(hw.submissions, u)
      BY <1>5 DEF ReviewLessonHomework
    <2>2. HomeworkOK(hw)
      BY <2>1, LoadedCopy DEF CourseOK, AssignmentsOK
    <2>3. EntryOf(hw.submissions, u) \in Submission
      BY <2>1, <2>2, EntryFound DEF HomeworkOK, Homework
    <2>4. new \in Nat \cup {Nobody}
      <3>1. hw.max \in 1 .. 100
        BY <2>2 DEF HomeworkOK, Homework
      <3>2. CASE score # Nobody
        <4>1. score \in 0 .. 100
          BY <3>2, ConstantsAssumption
        <4>2. Clamp(score, 0, hw.max) \in 0 .. hw.max
          <5> HIDE DEF hw
          <5> QED BY <3>1, <4>1 DEF Clamp
        <4> QED BY <3>1, <3>2, <4>2
      <3> QED BY <3>2
    <2> HIDE DEF new
    <2>5. PICK s \in {EntryOf(hw.submissions, u).score, new} :
             Save(r, "reviewLessonHomework", [c EXCEPT !.homework[h].submissions =
                    Put(@, u, [user |-> u, status |-> status, score |-> s])])
      BY <1>5 DEF ReviewLessonHomework, new
    <2> DEFINE e == [user |-> u, status |-> status, score |-> s]
    <2>6. e \in Submission /\ e.user = u
      BY <2>3, <2>4 DEF Submission
    <2> HIDE DEF e
    <2> QED BY <1>0, <2>1, <2>5, <2>6 DEF e
  <1> QED BY <1>1, <1>2, <1>3, <1>4, <1>5 DEF HomeworkRequest

LEMMA TestRequestOK ==
    ASSUME IInv, NEW r \in Requests, TestRequest(r)
    PROVE  IInv'
  <1> DEFINE c == req[r].copy
  <1>0. ASSUME NEW op, May(r, op), NEW l \in DOMAIN c.lesson, NEW ts,
               ts \subseteq LinkedTest, \A t \in ts : TestOK(t),
               Save(r, op, [c EXCEPT !.lesson[l].tests = ts])
        PROVE  IInv'
    <2> DEFINE x == [c.lesson[l] EXCEPT !.tests = ts]
    <2>1. LessonOK(c.lesson[l])
      BY <1>0, LoadedCopy DEF CourseOK, LessonsOK
    <2>2. LessonOK(x)
      BY <1>0, <2>1 DEF LessonOK, Lesson
    <2> HIDE DEF x
    <2> QED BY <1>0, <2>2, SaveLesson DEF x
  <1>1. ASSUME NEW op, May(r, op), NEW l \in DOMAIN c.lesson
        PROVE  /\ c.lesson[l].tests \subseteq LinkedTest
               /\ \A t \in c.lesson[l].tests : TestOK(t)
    BY <1>1, LoadedCopy DEF CourseOK, LessonsOK, LessonOK, Lesson
  <1>2. ASSUME NEW l, NEW minimum \in Minimums, NewLinkedTest(r, l, minimum) PROVE IInv'
    <2>1. PICK t \in TestIds \ used :
             Save(r, "upsertLessonLinkedTest", [c EXCEPT !.lesson[l].tests =
                    @ \cup {[id |-> t, minimum |-> minimum, progress |-> {}]}])
      BY <1>2 DEF NewLinkedTest
    <2> DEFINE x == [id |-> t, minimum |-> minimum, progress |-> {}]
               ts == c.lesson[l].tests \cup {x}
    <2>2. l \in DOMAIN c.lesson /\ May(r, "upsertLessonLinkedTest")
      BY <1>2 DEF NewLinkedTest
    <2>3. x \in LinkedTest /\ TestOK(x)
      BY ConstantsAssumption DEF LinkedTest, TestOK, OnePerUser
    <2>4. ts \subseteq LinkedTest /\ \A y \in ts : TestOK(y)
      BY <1>1, <2>2, <2>3
    <2> QED BY <1>0, <2>1, <2>2, <2>4
  <1>3. ASSUME NEW l, NEW t \in c.lesson[l].tests, NEW minimum \in Minimums, NEW same \in BOOLEAN,
               ChangeLinkedTest(r, l, t, minimum, same)
        PROVE  IInv'
    <2> DEFINE ps == IF same THEN {Passing(p, minimum) : p \in t.progress} ELSE {}
               x == [t EXCEPT !.minimum = minimum, !.progress = ps]
               ts == (c.lesson[l].tests \ {t}) \cup {x}
    <2>1. /\ l \in DOMAIN c.lesson /\ May(r, "upsertLessonLinkedTest")
          /\ Save(r, "upsertLessonLinkedTest", [c EXCEPT !.lesson[l].tests = ts])
      BY <1>3 DEF ChangeLinkedTest
    <2>2. t \in LinkedTest /\ TestOK(t)
      BY <1>1, <2>1
    <2>3. ASSUME NEW p \in t.progress
          PROVE  /\ Passing(p, minimum) \in Progress
                 /\ Passing(p, minimum).passed <=> Passing(p, minimum).best >= minimum
                 /\ Passing(p, minimum).user = p.user
      <3> DEFINE b == p.best >= minimum
      <3>1. p \in Progress /\ b \in BOOLEAN
        BY <2>2, <2>3 DEF LinkedTest
      <3>2. Passing(p, minimum) = [p EXCEPT !.passed = b]
        BY DEF Passing
      <3> HIDE DEF b
      <3>3. /\ Passing(p, minimum) \in Progress /\ Passing(p, minimum).passed = b
            /\ Passing(p, minimum).best = p.best /\ Passing(p, minimum).user = p.user
        BY <3>1, <3>2 DEF Progress
      <3> QED BY <3>1, <3>3 DEF b
    <2>4. ps \subseteq Progress /\ OnePerUser(ps) /\ \A p \in ps : p.passed <=> p.best >= minimum
      BY <2>2, <2>3 DEF TestOK, OnePerUser
    <2>5. x \in LinkedTest /\ TestOK(x)
      <3> HIDE DEF ps
      <3> QED BY <2>2, <2>4, ConstantsAssumption DEF LinkedTest, TestOK
    <2>6. ts \subseteq LinkedTest /\ \A y \in ts : TestOK(y)
      <3> HIDE DEF x
      <3> QED BY <1>1, <2>1, <2>5
    <2> HIDE DEF ts
    <2> QED BY <1>0, <2>1, <2>6
  <1>4. ASSUME NEW l, NEW t, DeleteLessonLinkedTest(r, l, t) PROVE IInv'
    <2> DEFINE ts == {x \in c.lesson[l].tests : x.id # t}
    <2>1. /\ l \in DOMAIN c.lesson /\ May(r, "deleteLessonLinkedTest")
          /\ Save(r, "deleteLessonLinkedTest", [c EXCEPT !.lesson[l].tests = ts])
      BY <1>4 DEF DeleteLessonLinkedTest
    <2>2. ts \subseteq LinkedTest /\ \A y \in ts : TestOK(y)
      BY <1>1, <2>1
    <2> HIDE DEF ts
    <2> QED BY <1>0, <2>1, <2>2
  <1>5. ASSUME NEW l, NEW t \in c.lesson[l].tests, NEW u \in Actors, NEW percent \in Percents,
               SubmitLinkedTestAttempt(r, u, l, t, percent)
        PROVE  IInv'
    <2> DEFINE passed == percent >= t.minimum
               old == EntryOf(t.progress, u)
               e == IF HasEntry(t.progress, u)
                    THEN [old EXCEPT !.best = IF percent > @ THEN percent ELSE @,
                                     !.passed = @ \/ passed,
                                     !.attempts = Clamp(@ + 1, 0, MaxCount)]
                    ELSE [user |-> u, best |-> percent, passed |-> passed, attempts |-> 1]
               x == [t EXCEPT !.progress = Put(@, u, e)]
               ts == (c.lesson[l].tests \ {t}) \cup {x}
    <2>1. /\ l \in DOMAIN c.lesson /\ May(r, "submitLessonLinkedTestAttempt")
          /\ Save(r, "submitLessonLinkedTestAttempt", [c EXCEPT !.lesson[l].tests = ts])
      BY <1>5 DEF SubmitLinkedTestAttempt, CanAccess
    <2>2. t \in LinkedTest /\ TestOK(t)
      BY <1>1, <2>1
    <2>3. percent \in 0 .. 100 /\ t.minimum \in 0 .. 100 /\ t.progress \subseteq Progress
      BY <2>2, ConstantsAssumption DEF LinkedTest
    <2>4. e \in Progress /\ e.user = u /\ (e.passed <=> e.best >= t.minimum)
      <3>1. CASE HasEntry(t.progress, u)
        <4>1. old \in t.progress /\ old.user = u
          BY <3>1, EntryFound
        <4>2. old \in Progress /\ (old.passed <=> old.best >= t.minimum)
          BY <2>2, <2>3, <4>1 DEF TestOK
        <4> DEFINE best == IF percent > old.best THEN percent ELSE old.best
                   b == old.passed \/ passed
                   n == Clamp(old.attempts + 1, 0, MaxCount)
        <4> HIDE DEF old
        <4>3. old.best \in 0 .. 100 /\ old.passed \in BOOLEAN /\ old.attempts \in Nat
          BY <4>2 DEF Progress
        <4>4. best \in 0 .. 100 /\ b \in BOOLEAN
          BY <2>3, <4>3
        <4>5. n \in Nat
          BY <4>3, ConstantsAssumption DEF Clamp
        <4>6. b <=> best >= t.minimum
          BY <2>3, <4>2, <4>3
        <4>7. e = [old EXCEPT !.best = best, !.passed = b, !.attempts = n]
          <5> HIDE DEF passed
          <5> QED BY <3>1 DEF old
        <4> HIDE DEF e, best, b, n
        <4>8. e \in Progress /\ e.passed = b /\ e.best = best /\ e.user = old.user
          BY <4>2, <4>4, <4>5, <4>7 DEF Progress
        <4> QED BY <4>1, <4>6, <4>8
      <3>2. CASE ~HasEntry(t.progress, u)
        <4>1. e = [user |-> u, best |-> percent, passed |-> passed, attempts |-> 1]
          BY <3>2
        <4>2. passed \in BOOLEAN
          OBVIOUS
        <4> HIDE DEF e, passed
        <4>3. e \in Progress /\ e.user = u /\ e.best = percent /\ e.passed = passed
          BY <2>3, <4>1, <4>2 DEF Progress
        <4> QED BY <4>2, <4>3 DEF passed
      <3> QED BY <3>1, <3>2
    <2> HIDE DEF e
    <2>5. OnePerUser(Put(t.progress, u, e)) /\ Put(t.progress, u, e) \subseteq t.progress \cup {e}
      BY <2>2, <2>4, PutKeepsOne DEF TestOK
    <2>6. x \in LinkedTest /\ TestOK(x)
      BY <2>2, <2>3, <2>4, <2>5 DEF LinkedTest, TestOK
    <2>7. ts \subseteq LinkedTest /\ \A y \in ts : TestOK(y)
      <3> HIDE DEF x
      <3> QED BY <1>1, <2>1, <2>6
    <2> HIDE DEF ts
    <2> QED BY <1>0, <2>1, <2>7
  <1> QED BY <1>2, <1>3, <1>4, <1>5 DEF TestRequest

LEMMA NamedOK ==
    ASSUME NEW x, LessonOK(x)
    PROVE  LessonOK(Named(x)) /\ (x.named > 0 => Named(x).named > 0)
  <1>1. x.named \in Nat /\ x.unnamed \in Nat
    BY DEF LessonOK, Lesson
  <1> DEFINE n == x.named + x.unnamed
  <1>2. n \in Nat /\ (x.named > 0 => n > 0)
    BY <1>1
  <1>3. Named(x) = [x EXCEPT !.named = n, !.unnamed = 0]
    BY DEF Named
  <1> HIDE DEF n
  <1> DEFINE y == [x EXCEPT !.named = n]
  <1>4. LessonOK(Named(x)) /\ Named(x).named = n
    <2>1. LessonOK(y) /\ y.named = n
      BY <1>2 DEF LessonOK, Lesson
    <2>2. Named(x) = [y EXCEPT !.unnamed = 0]
      BY <1>3 DEF LessonOK, Lesson
    <2> HIDE DEF y
    <2> QED BY <2>1, <2>2 DEF LessonOK, Lesson
  <1> QED BY <1>2, <1>4

LEMMA MaterialRequestOK ==
    ASSUME IInv, NEW r \in Requests, MaterialRequest(r)
    PROVE  IInv'
  <1> DEFINE c == req[r].copy
  <1>0. ASSUME NEW op, May(r, op), NEW l \in DOMAIN c.lesson PROVE LessonOK(c.lesson[l])
    BY <1>0, LoadedCopy DEF CourseOK, LessonsOK
  <1>1. CASE NameLibrary(r)
    <2> DEFINE ls == [l \in DOMAIN c.lesson |-> Named(c.lesson[l])]
               d == [c EXCEPT !.lesson = ls]
    <2>1. May(r, "getCourseMaterialLibrary") /\ Save(r, "getCourseMaterialLibrary", d)
      BY <1>1 DEF NameLibrary
    <2>2. CourseOK(c) /\ DocOK(c.course)
      BY <2>1, LoadedCopy
    <2>3. LessonsOK(ls)
      BY <2>2, NamedOK DEF CourseOK, LessonsOK, LessonOK, IsPartial
    <2>4. CourseOK(d) /\ d.course = c.course
      <3> HIDE DEF ls
      <3> QED BY <2>2, <2>3 DEF CourseOK
    <2> HIDE DEF d
    <2> QED BY <2>1, <2>2, <2>4, SaveOK
  <1>2. ASSUME NEW l, NEW u, NameMaterials(r, u, l) PROVE IInv'
    <2> DEFINE x == Named(c.lesson[l])
    <2>1. /\ l \in DOMAIN c.lesson /\ May(r, "getLessonMaterials")
          /\ Save(r, "getLessonMaterials", [c EXCEPT !.lesson[l] = x])
      BY <1>2 DEF NameMaterials, CanAccess
    <2>2. LessonOK(x)
      BY <1>0, <2>1, NamedOK
    <2> HIDE DEF x
    <2> QED BY <2>1, <2>2, SaveLesson
  <1>3. ASSUME NEW l, NEW new \in BOOLEAN, UpsertLessonMaterial(r, l, new) PROVE IInv'
    <2> DEFINE m == Named(c.lesson[l])
               x == IF new THEN [m EXCEPT !.unnamed = 1] ELSE m
    <2>1. /\ l \in DOMAIN c.lesson /\ May(r, "upsertLessonMaterial")
          /\ Save(r, "upsertLessonMaterial", [c EXCEPT !.lesson[l] = x])
      BY <1>3 DEF UpsertLessonMaterial
    <2>2. LessonOK(m)
      BY <1>0, <2>1, NamedOK
    <2>3. LessonOK(x)
      <3> HIDE DEF m
      <3> QED BY <2>2 DEF LessonOK, Lesson
    <2> HIDE DEF x
    <2> QED BY <2>1, <2>3, SaveLesson
  <1>4. ASSUME NEW l, DeleteLessonMaterial(r, l) PROVE IInv'
    <2> DEFINE m == Named(c.lesson[l])
               x == [m EXCEPT !.named = m.named - 1]
    <2>1. /\ l \in DOMAIN c.lesson /\ May(r, "deleteLessonMaterial") /\ c.lesson[l].named > 0
          /\ Save(r, "deleteLessonMaterial", [c EXCEPT !.lesson[l] = x])
      BY <1>4 DEF DeleteLessonMaterial
    <2>2. LessonOK(x)
      <3>1. LessonOK(m) /\ m.named > 0
        BY <1>0, <2>1, NamedOK
      <3>2. m.named - 1 \in Nat
        <4> HIDE DEF m
        <4> QED BY <3>1 DEF LessonOK, Lesson
      <3> HIDE DEF m
      <3> QED BY <3>1, <3>2 DEF LessonOK, Lesson
    <2> HIDE DEF x
    <2> QED BY <2>1, <2>2, SaveLesson
  <1> QED BY <1>1, <1>2, <1>3, <1>4 DEF MaterialRequest

\* A request that stores only fields of its own and is answered.
LEMMA DirectlyOK ==
    ASSUME IInv, NEW r \in Requests, NEW op, NEW new, CourseOK(new),
           new.course = Nobody \/ DocOK(new.course), StoreDirectly(r, op, new)
    PROVE  IInv'
  <1>1. RequestOK(Idle)
    BY EmptyOK DEF Idle, RequestOK
  <1> QED BY <1>1, Stored DEF StoreDirectly

LEMMA ReaderRequestOK ==
    ASSUME IInv, NEW r \in Requests, ReaderRequest(r)
    PROVE  IInv'
  <1> DEFINE c == req[r].copy
  <1>0. ASSUME NEW op, May(r, op), NEW l \in DOMAIN c.lesson PROVE LessonOK(c.lesson[l])
    BY <1>0, LoadedCopy DEF CourseOK, LessonsOK
  <1>1. CourseOK(db) /\ (db.course = Nobody \/ DocOK(db.course))
    BY DEF IInv
  <1>2. ASSUME NEW l, IncrementViews(r, l) PROVE IInv'
    <2>1. CASE l \notin DOMAIN db.lesson
      BY <1>1, <1>2, <2>1, DirectlyOK DEF IncrementViews
    <2>2. CASE l \in DOMAIN db.lesson
      <3> DEFINE x == [db.lesson[l] EXCEPT !.views = Clamp(@ + 1, 0, MaxCount)]
      <3>1. LessonOK(db.lesson[l])
        BY <1>1, <2>2 DEF CourseOK, LessonsOK
      <3>2. LessonOK(x)
        <4>1. Clamp(db.lesson[l].views + 1, 0, MaxCount) \in Nat
          BY <3>1, ConstantsAssumption DEF LessonOK, Lesson, Clamp
        <4> QED BY <3>1, <4>1 DEF LessonOK, Lesson
      <3>3. StoreDirectly(r, "incrementViews", [db EXCEPT !.lesson[l] = x])
        BY <1>2, <2>2 DEF IncrementViews
      <3> HIDE DEF x
      <3>4. CourseOK([db EXCEPT !.lesson[l] = x]) /\ [db EXCEPT !.lesson[l] = x].course = db.course
        BY <1>1, <2>2, <3>2, LessonReplaced
      <3> QED BY <1>1, <3>3, <3>4, DirectlyOK
    <2> QED BY <2>1, <2>2
  <1>3. ASSUME NEW l, AddComment(r, l) PROVE IInv'
    <2> DEFINE x == [c.lesson[l] EXCEPT !.comments = @ + 1]
    <2>1. /\ l \in DOMAIN c.lesson /\ May(r, "addComment")
          /\ Save(r, "addComment", [c EXCEPT !.lesson[l] = x])
      BY <1>3 DEF AddComment
    <2>2. LessonOK(x)
      BY <1>0, <2>1 DEF LessonOK, Lesson
    <2> HIDE DEF x
    <2> QED BY <2>1, <2>2, SaveLesson
  <1>4. ASSUME NEW l, NEW u \in Actors, ToggleLessonLike(r, u, l) PROVE IInv'
    <2> DEFINE x == [c.lesson[l] EXCEPT !.likes = IF u \in @ THEN @ \ {u} ELSE @ \cup {u}]
    <2>1. /\ l \in DOMAIN c.lesson /\ May(r, "toggleLessonLike")
          /\ Save(r, "toggleLessonLike", [c EXCEPT !.lesson[l] = x])
      BY <1>4 DEF ToggleLessonLike, CanAccess
    <2>2. LessonOK(x)
      BY <1>0, <2>1 DEF LessonOK, Lesson
    <2> HIDE DEF x
    <2> QED BY <2>1, <2>2, SaveLesson
  <1>5. ASSUME NEW l, NEW u \in Actors, NEW timed \in 0 .. NoteLimit + 1, NEW untimed \in 0 .. 1,
               UpsertLessonNote(r, u, l, timed, untimed)
        PROVE  IInv'
    <2>1. CASE l \notin DOMAIN db.lesson
      BY <1>1, <1>5, <2>1, DirectlyOK DEF UpsertLessonNote
    <2>2. CASE l \in DOMAIN db.lesson
      <3> DEFINE e == [user |-> u, timed |-> timed, untimed |-> untimed]
                 notes == Put(c.lesson[l].notes, u, e)
                 x == [db.lesson[l] EXCEPT !.notes = notes]
      <3>1. LessonOK(c.lesson[l]) /\ LessonOK(db.lesson[l])
        BY <1>0, <1>1, <1>5, <2>2 DEF UpsertLessonNote, CanAccess, CourseOK, LessonsOK
      <3>2. e \in Note /\ e.user = u
        BY ConstantsAssumption DEF Note
      <3>3. OnePerUser(notes) /\ notes \subseteq Note
        <4> HIDE DEF e
        <4> QED BY <3>1, <3>2, PutKeepsOne DEF LessonOK, Lesson
      <3>4. LessonOK(x)
        <4> HIDE DEF notes
        <4> QED BY <3>1, <3>3 DEF LessonOK, Lesson
      <3>5. StoreDirectly(r, "upsertLessonNote", [db EXCEPT !.lesson[l] = x])
        BY <1>5, <2>2 DEF UpsertLessonNote
      <3> HIDE DEF x
      <3>6. CourseOK([db EXCEPT !.lesson[l] = x]) /\ [db EXCEPT !.lesson[l] = x].course = db.course
        BY <1>1, <2>2, <3>4, LessonReplaced
      <3> QED BY <1>1, <3>5, <3>6, DirectlyOK
    <2> QED BY <2>1, <2>2
  <1>6. ASSUME NEW u \in Users, NEW stars \in Stars, UpsertCourseReview(r, u, stars) PROVE IInv'
    <2> DEFINE e == [user |-> u, stars |-> Clamp(stars, 1, 5)]
               reviews == Put(c.course.reviews, u, e)
    <2>1. CASE db.course = Nobody
      BY <1>1, <1>6, <2>1, DirectlyOK DEF UpsertCourseReview
    <2>2. CASE db.course # Nobody
      <3>1. DocOK(c.course) /\ DocOK(db.course)
        BY <1>1, <1>6, <2>2, LoadedCopy DEF UpsertCourseReview
      <3>2. e \in Review /\ e.user = u
        BY ConstantsAssumption DEF Review, Clamp, Actors
      <3>3. OnePerUser(reviews) /\ reviews \subseteq Review
        <4> HIDE DEF e
        <4> QED BY <3>1, <3>2, PutKeepsOne DEF DocOK
      <3> DEFINE doc == [db.course EXCEPT !.reviews = reviews, !.rating = Average(reviews),
                                          !.count = Cardinality(reviews)]
      <3>4. DocOK(doc)
        <4> HIDE DEF reviews
        <4> QED BY <3>1, <3>3 DEF DocOK
      <3>5. StoreDirectly(r, "upsertCourseReview", [db EXCEPT !.course = doc])
        <4> HIDE DEF e
        <4>1. [db EXCEPT !.course.reviews = reviews, !.course.rating = Average(reviews),
                         !.course.count = Cardinality(reviews)] = [db EXCEPT !.course = doc]
          <5> HIDE DEF reviews
          <5> QED BY <1>1, <3>1 DEF CourseOK, DocOK
        <4> QED BY <1>6, <2>2, <4>1 DEF UpsertCourseReview, e
      <3> HIDE DEF doc
      <3>6. CourseOK([db EXCEPT !.course = doc]) /\ [db EXCEPT !.course = doc].course = doc
        BY <1>1 DEF CourseOK
      <3> QED BY <3>4, <3>5, <3>6, DirectlyOK
    <2> QED BY <2>1, <2>2
  <1> QED BY <1>2, <1>3, <1>4, <1>5, <1>6 DEF ReaderRequest

-------------------------------------------------------------------------------
(* The theorems. *)

LEMMA StepOK == IInv /\ [Next]_vars => IInv'
  <1> SUFFICES ASSUME IInv, [Next]_vars PROVE IInv'
    OBVIOUS
  <1>1. CASE Next
    <2>1. PICK r \in Requests : Step(r)
      BY <1>1 DEF Next
    <2> QED BY <2>1, PipelineOK, MemberRequestOK, LessonRequestOK, AttendanceRequestOK,
               HomeworkRequestOK, TestRequestOK, MaterialRequestOK, ReaderRequestOK DEF Step
  <1>2. CASE UNCHANGED vars
    BY <1>2 DEF vars, IInv
  <1> QED BY <1>1, <1>2

LEMMA Invariance == Spec => []IInv
  BY InitOK, StepOK, PTL DEF Spec

\* No overlap of requests gives an account two attendance records, oral marks,
\* notes or results in a lesson, two submissions or two reviews.
THEOREM EntriesCorrect == Spec => []OneEntryPerUser
  <1>1. IInv => OneEntryPerUser
    BY DEF IInv, CourseOK, LessonsOK, LessonOK, TestOK, AssignmentsOK, HomeworkOK, DocOK,
           OneEntryPerUser, OneEntryEach
  <1> QED BY <1>1, Invariance, PTL

\* A stored result says passed exactly when it reaches the stored minimum.
THEOREM ResultsCorrect == Spec => []PassedMeansReached
  <1>1. IInv => PassedMeansReached
    BY DEF IInv, CourseOK, LessonsOK, LessonOK, TestOK, PassedMeansReached, PassedReached
  <1> QED BY <1>1, Invariance, PTL

\* The stored rating and its count are those of the stored reviews.
THEOREM RatingCorrect == Spec => []RatingOfReviews
  <1>1. IInv => RatingOfReviews
    BY DEF IInv, DocOK, RatingOfReviews, Rated
  <1> QED BY <1>1, Invariance, PTL

-------------------------------------------------------------------------------
(* Traces and requests that overlap no other.  Whoever a row names had a way   *)
(* in when the row was made, and the accounts once approved and the lessons    *)
(* once shown first only grow, so a row stays right wherever it is copied to.  *)
(* A copy may let somebody in as long as it is what the database has held:     *)
(* until its handler has changed it.                                           *)

\* Those whom c lets in as members, and the lesson it shows as the preview.
Remembered(c, A, S) ==
    /\ Approved(c.member) \subseteq A
    /\ \A l \in DOMAIN c.lesson : c.lesson[l].order = 0 => l \in S

Storing == {"save", "stale", "upsert", "drop"}

RequestTraced(q, A, S) ==
    /\ CourseTraced(q.copy, A, S)
    /\ q.at \notin Storing => Remembered(q.copy, A, S)

Trail ==
    /\ CourseTraced(db, approved, shown)
    /\ Approved(db.member) \subseteq approved /\ FirstLessons(db.lesson) \subseteq shown
    /\ \A r \in Requests : RequestTraced(req[r], approved, shown)

\* What a request that overlaps no other has done to course d so far.
Progressed(q, d) ==
    /\ q.at \in {"rows", "loaded", "save"} => d.course # Nobody
    /\ q.at \in {"stale", "upsert"} => d.course = q.copy.course /\ q.todo \subseteq Rows
    /\ q.at = "stale" => \A k \in Rows \ q.todo : DOMAIN d[k] \subseteq DOMAIN q.copy[k]
    /\ q.at = "upsert" => /\ \A k \in Rows : DOMAIN d[k] \subseteq DOMAIN q.copy[k]
                          /\ \A k \in Rows \ q.todo : d[k] = q.copy[k]
    /\ q.at = "drop" => \A k \in (Rows \cup {"course"}) \ q.todo : d[k] = Empty[k]

Alone ==
    \A r \in Requests : req[r].solo =>
        /\ \A p \in Requests : p # r => req[p].at = "idle"
        /\ Progressed(req[r], db)

JInv == IInv /\ Trail /\ Alone

LEMMA TracesStay ==
    ASSUME NEW A, NEW S, NEW B, NEW T, A \subseteq B, S \subseteq T
    PROVE  /\ \A c : CourseTraced(c, A, S) => CourseTraced(c, B, T)
           /\ \A q : RequestTraced(q, A, S) => RequestTraced(q, B, T)
  <1>1. ASSUME NEW c, CourseTraced(c, A, S) PROVE CourseTraced(c, B, T)
    BY <1>1 DEF CourseTraced, LessonTraced, HomeworkTraced, MayEnter
  <1>2. ASSUME NEW c, Remembered(c, A, S) PROVE Remembered(c, B, T)
    BY <1>2 DEF Remembered
  <1> QED BY <1>1, <1>2 DEF RequestTraced

\* Nobody gets past the handlers' checks who has not got a way in.
LEMMA AccessGiven ==
    ASSUME NEW c, NEW A, NEW S, Remembered(c, A, S), NEW u, NEW l
    PROVE  /\ CanAccess(c, u, l) => MayEnter(u, l, A, S)
           /\ IsMember(c, u) => MayEnter(u, l, A, S)
  BY DEF Remembered, CanAccess, IsMember, MayEnter, Approved

LEMMA PutAdds == \A E, u, e : Put(E, u, e) \subseteq E \cup {e}
  BY DEF Put

LEMMA EmptyTraced ==
    \A A, S : CourseTraced(Empty, A, S) /\ RequestTraced(Idle, A, S) /\ ~Idle.solo
  <1>1. DOMAIN << >> = {}
    OBVIOUS
  <1> QED BY <1>1 DEF Idle, Empty, RequestTraced, CourseTraced, Remembered, Approved

\* A request moves on and may store something; what it stores is remembered.
LEMMA Moved ==
    ASSUME JInv, NEW r \in Requests, req[r].at # "idle",
           NEW q, req' = [req EXCEPT ![r] = q], Remember,
           CourseTraced(db', approved', shown'), RequestTraced(q, approved', shown'),
           q.solo => req[r].solo /\ Progressed(q, db')
    PROVE  (Trail /\ Alone)'
  <1>1. approved \subseteq approved' /\ shown \subseteq shown'
    BY DEF Remember
  <1>2. /\ req'[r] = q /\ \A p \in Requests : p # r => req'[p] = req[p]
    BY DEF JInv, IInv
  <1>3. ASSUME NEW p \in Requests PROVE RequestTraced(req'[p], approved', shown')
    <2>1. RequestTraced(req[p], approved, shown)
      BY DEF JInv, Trail
    <2>2. RequestTraced(req[p], approved', shown')
      BY <1>1, <2>1, TracesStay
    <2> QED BY <1>2, <2>2
  <1>4. Trail'
    <2>1. Approved(db'.member) \subseteq approved' /\ FirstLessons(db'.lesson) \subseteq shown'
      BY DEF Remember
    <2> QED BY <1>3, <2>1 DEF Trail
  <1>5. ASSUME NEW p \in Requests, req'[p].solo
        PROVE  /\ \A x \in Requests : x # p => req'[x].at = "idle"
               /\ Progressed(req'[p], db')
    <2>1. p = r
      BY <1>2, <1>5 DEF JInv, Alone
    <2> QED BY <1>2, <1>5, <2>1 DEF JInv, Alone
  <1>6. Alone'
    BY <1>5 DEF Alone
  <1> QED BY <1>4, <1>6

LEMMA NothingStored ==
    ASSUME JInv, UNCHANGED <<db, history>> PROVE Remember /\ CourseTraced(db', approved', shown')
  <1>1. UNCHANGED <<db, approved, shown>>
    BY DEF history
  <1> QED BY <1>1 DEF JInv, Trail, Remember

\* A request only moves on.
LEMMA MovedOnly ==
    ASSUME JInv, NEW r \in Requests, req[r].at # "idle", UNCHANGED <<db, history>>,
           NEW q, req' = [req EXCEPT ![r] = q],
           RequestTraced(q, approved, shown), q.solo => req[r].solo /\ Progressed(q, db)
    PROVE  (Trail /\ Alone)'
  <1>1. UNCHANGED <<db, approved, shown>>
    BY DEF history
  <1> QED BY <1>1, NothingStored, Moved

LEMMA Ended ==
    ASSUME JInv, NEW r \in Requests, req[r].at # "idle", UNCHANGED <<db, history>>,
           req' = [req EXCEPT ![r] = Idle]
    PROVE  (Trail /\ Alone)'
  BY EmptyTraced, MovedOnly

LEMMA TraceInit == Init => Trail /\ Alone
  <1> SUFFICES ASSUME Init PROVE Trail /\ Alone
    OBVIOUS
  <1>1. CourseTraced(db, approved, shown)
    BY HistoryAssumption DEF Init
  <1>2. \A r \in Requests : req[r] = Idle
    BY DEF Init
  <1> QED BY <1>1, <1>2, EmptyTraced DEF Init, Trail, Alone

LEMMA BeginMoves ==
    ASSUME JInv, NEW r \in Requests, Begin(r) PROVE (Trail /\ Alone)'
  <1>1. UNCHANGED <<db, approved, shown>> /\ req[r].at = "idle"
    BY DEF Begin, history
  <1> DEFINE b == \A p \in Requests : req[p].at = "idle"
  <1>2. /\ req'[r] = [Idle EXCEPT !.at = "course", !.solo = b]
        /\ \A p \in Requests : p # r => req'[p] = [req[p] EXCEPT !.solo = FALSE]
    BY DEF Begin
  <1>3. /\ req'[r].copy = Empty /\ req'[r].at = "course" /\ req'[r].solo = b
    BY <1>2 DEF Idle
  <1>4. ASSUME NEW p \in Requests, p # r
        PROVE  req'[p].at = req[p].at /\ req'[p].copy = req[p].copy /\ req'[p].solo = FALSE
    <2>1. req'[p] = [req[p] EXCEPT !.solo = FALSE]
      BY <1>2, <1>4
    <2>2. RequestOK(req[p])
      BY DEF JInv, IInv
    <2> QED BY <2>1, <2>2 DEF RequestOK
  <1>5. ASSUME NEW p \in Requests PROVE RequestTraced(req'[p], approved, shown)
    <2>1. CASE p = r
      <3>1. RequestTraced(Idle, approved, shown) /\ Idle.copy = Empty /\ Idle.at = "idle"
        BY EmptyTraced DEF Idle
      <3> QED BY <1>3, <2>1, <3>1 DEF RequestTraced, Storing
    <2>2. CASE p # r
      BY <1>4, <2>2 DEF JInv, Trail, RequestTraced
    <2> QED BY <2>1, <2>2
  <1>6. Trail'
    BY <1>1, <1>5 DEF JInv, Trail
  <1>7. Alone'
    BY <1>3, <1>4 DEF Alone, Progressed
  <1> QED BY <1>6, <1>7

LEMMA OrderLeavesTraces ==
    ASSUME NEW x \in Lesson, NEW n, NEW l, NEW A, NEW S, LessonTraced(x, l, A, S)
    PROVE  LessonTraced([x EXCEPT !.order = n], l, A, S)
  BY DEF Lesson, LessonTraced

LEMMA AttachedTraced ==
    ASSUME NEW c, CourseOK(c), NEW A, NEW S, CourseTraced(c, A, S), Remembered(c, A, S)
    PROVE  CourseTraced(Attached(c), A, S) /\ Remembered(Attached(c), A, S)
  BY DEF Attached, CourseOK, CourseTraced, Remembered

\* The lesson that a copy has in the first place is one that was shown first.
LEMMA PlacedFirst ==
    ASSUME NEW ls, LessonsOK(ls), NEW o \in Places(ls), NEW l \in DOMAIN ls, o[l] = 0
    PROVE  l \in FirstLessons(ls)
  <1> SUFFICES ASSUME NEW k \in DOMAIN ls PROVE ls[l].order =< ls[k].order
    BY DEF FirstLessons
  <1>1. ls[l].order \in Nat /\ ls[k].order \in Nat
    BY DEF LessonsOK, LessonOK, Lesson
  <1>2. o[k] \in Int /\ o[k] >= 0
    <2>1. IsFiniteSet(DOMAIN ls)
      BY ConstantsAssumption, FS_Subset DEF LessonsOK, IsPartial
    <2>2. Cardinality(DOMAIN ls) \in Nat
      BY <2>1, FS_CardinalityType
    <2> QED BY <2>2 DEF Places
  <1>3. ls[k].order < ls[l].order => o[k] < o[l]
    BY DEF Places
  <1> QED BY <1>1, <1>2, <1>3

LEMMA PipelineTraced ==
    ASSUME JInv, NEW r \in Requests,
           \/ FindCourse(r) \/ AnswerOnly(r) \/ Fail(r) \/ SaveCourse(r)
           \/ \E k \in Rows : FindRows(r, k) \/ DeleteStale(r, k) \/ Upsert(r, k)
           \/ \E k \in Rows \cup {"course"} : Drop(r, k)
    PROVE  (Trail /\ Alone)'
  <1>0. /\ RequestOK(req[r]) /\ RequestTraced(req[r], approved, shown)
        /\ CourseOK(req[r].copy) /\ CourseTraced(req[r].copy, approved, shown)
        /\ CourseOK(db) /\ CourseTraced(db, approved, shown)
        /\ req[r].solo => Progressed(req[r], db)
    BY DEF JInv, IInv, RequestOK, RequestTraced, Trail, Alone
  <1>1. CASE FindCourse(r)
    <2> DEFINE c == [req[r].copy EXCEPT !.course = db.course]
               q == [req[r] EXCEPT !.at = "rows", !.todo = Rows, !.copy = c]
    <2>1. req[r].at = "course" /\ UNCHANGED <<db, history>>
      BY <1>1 DEF FindCourse
    <2>2. CASE db.course = Nobody
      BY <1>1, <2>1, <2>2, Ended DEF FindCourse
    <2>3. CASE db.course # Nobody
      <3>1. c.lesson = req[r].copy.lesson /\ c.member = req[r].copy.member
              /\ c.homework = req[r].copy.homework
        BY <1>0 DEF CourseOK
      <3>2. [req[r] EXCEPT !.at = "rows", !.todo = Rows, !.copy.course = db.course] = q
        BY <1>0 DEF RequestOK
      <3>3. req' = [req EXCEPT ![r] = q]
        BY <1>1, <2>3, <3>2 DEF FindCourse
      <3> HIDE DEF c
      <3>4. q.copy = c /\ q.at = "rows" /\ q.solo = req[r].solo
        BY <1>0 DEF RequestOK
      <3> HIDE DEF q
      <3>5. RequestTraced(q, approved, shown)
        BY <1>0, <2>1, <3>1, <3>4 DEF RequestTraced, CourseTraced, Remembered, Storing
      <3>6. Progressed(q, db)
        BY <2>3, <3>4 DEF Progressed
      <3> QED BY <2>1, <3>3, <3>4, <3>5, <3>6, MovedOnly
    <2> QED BY <2>2, <2>3
  <1>2. CASE AnswerOnly(r)
    BY <1>2, Ended DEF AnswerOnly
  <1>3. CASE Fail(r)
    BY <1>3, Ended DEF Fail
  <1>4. CASE SaveCourse(r)
    <2> DEFINE q == [req[r] EXCEPT !.at = "stale", !.todo = Rows]
    <2>1. req[r].at = "save" /\ req' = [req EXCEPT ![r] = q] /\ UNCHANGED history
      BY <1>4 DEF SaveCourse
    <2>2. q.at = "stale" /\ q.todo = Rows /\ q.copy = req[r].copy /\ q.solo = req[r].solo
      BY <1>0 DEF RequestOK
    <2>3. /\ db'.course = IF db.course = Nobody THEN Nobody ELSE req[r].copy.course
          /\ db'.member = db.member /\ db'.lesson = db.lesson /\ db'.homework = db.homework
      BY <1>0, <1>4 DEF SaveCourse, CourseOK
    <2> HIDE DEF q
    <2>4. CourseTraced(db', approved', shown') /\ Remember
      <3>1. UNCHANGED <<approved, shown>>
        BY <2>1 DEF history
      <3> QED BY <1>0, <2>3, <3>1 DEF CourseTraced, Remember, JInv, Trail
    <2>5. RequestTraced(q, approved', shown')
      BY <1>0, <2>1, <2>2 DEF RequestTraced, Storing, history
    <2>6. q.solo => req[r].solo /\ Progressed(q, db')
      BY <1>0, <2>1, <2>2, <2>3 DEF Progressed
    <2> QED BY <2>1, <2>4, <2>5, <2>6, Moved
  <1>5. ASSUME NEW k \in Rows, FindRows(r, k) PROVE (Trail /\ Alone)'
    <2>1. PICK rows \in IF k = "lesson" THEN {Placed(db.lesson, o) : o \in Places(db.lesson)}
                                        ELSE {db[k]} :
             req' = [req EXCEPT ![r] = Loaded(@, k, rows)]
      BY <1>5 DEF FindRows
    <2> DEFINE c == [req[r].copy EXCEPT ![k] = rows]
               left == req[r].todo \ {k}
               q == Loaded(req[r], k, rows)
    <2>2. req[r].at = "rows" /\ UNCHANGED <<db, history>>
      BY <1>5 DEF FindRows
    <2>3. /\ c.lesson = IF k = "lesson" THEN rows ELSE req[r].copy.lesson
          /\ c.member = IF k = "member" THEN rows ELSE req[r].copy.member
          /\ c.homework = IF k = "homework" THEN rows ELSE req[r].copy.homework
          /\ c.course = req[r].copy.course
      BY <1>0 DEF CourseOK, Rows
    <2>4. Remembered(req[r].copy, approved, shown)
      BY <1>0, <2>2 DEF RequestTraced, Storing
    <2>5. ASSUME k = "lesson"
          PROVE  CourseOK(c) /\ CourseTraced(c, approved, shown) /\ Remembered(c, approved, shown)
      <3>1. PICK o \in Places(db.lesson) : rows = Placed(db.lesson, o)
        BY <2>1, <2>5
      <3>2. LessonsOK(db.lesson) /\ LessonsOK(rows)
        BY <1>0, <3>1, PlacedOK DEF CourseOK
      <3>3. ASSUME NEW l \in DOMAIN rows
            PROVE  /\ LessonTraced(rows[l], l, approved, shown)
                   /\ rows[l].order = 0 => l \in shown
        <4>1. l \in DOMAIN db.lesson /\ rows[l] = [db.lesson[l] EXCEPT !.order = o[l]]
          BY <3>1, <3>3 DEF Placed
        <4>2. db.lesson[l] \in Lesson /\ LessonTraced(db.lesson[l], l, approved, shown)
          BY <1>0, <3>2, <4>1 DEF LessonsOK, LessonOK, CourseTraced
        <4>3. LessonTraced(rows[l], l, approved, shown)
          BY <4>1, <4>2, OrderLeavesTraces
        <4>4. rows[l].order = o[l]
          BY <4>1, <4>2 DEF Lesson
        <4>5. o[l] = 0 => l \in FirstLessons(db.lesson)
          BY <3>2, <4>1, PlacedFirst
        <4> QED BY <4>3, <4>4, <4>5 DEF JInv, Trail
      <3>4. CourseOK(c)
        BY <1>0, <2>3, <2>5, <3>2 DEF CourseOK
      <3> HIDE DEF c
      <3>5. CourseTraced(c, approved, shown) /\ Remembered(c, approved, shown)
        BY <1>0, <2>3, <2>4, <2>5, <3>3 DEF CourseTraced, Remembered
      <3> QED BY <3>4, <3>5
    <2>6. ASSUME k # "lesson"
          PROVE  CourseOK(c) /\ CourseTraced(c, approved, shown) /\ Remembered(c, approved, shown)
      <3>1. rows = db[k]
        BY <2>1, <2>6
      <3>2. CourseOK(c)
        BY <1>0, <2>3, <2>6, <3>1 DEF CourseOK, Rows
      <3> HIDE DEF c
      <3>3. CourseTraced(c, approved, shown) /\ Remembered(c, approved, shown)
        <4>1. c.homework \in {db.homework, req[r].copy.homework}
                /\ c.lesson = req[r].copy.lesson /\ c.member \in {db.member, req[r].copy.member}
          BY <2>3, <2>6, <3>1
        <4> QED BY <1>0, <2>4, <4>1 DEF CourseTraced, Remembered, JInv, Trail
      <3> QED BY <3>2, <3>3
    <2>7. /\ CourseOK(c) /\ CourseTraced(c, approved, shown) /\ Remembered(c, approved, shown)
          /\ CourseTraced(Attached(c), approved, shown)
          /\ Remembered(Attached(c), approved, shown)
      <3>1. CourseOK(c) /\ CourseTraced(c, approved, shown) /\ Remembered(c, approved, shown)
        BY <2>5, <2>6
      <3> HIDE DEF c
      <3> QED BY <3>1, AttachedTraced
    <2> HIDE DEF c
    <2>8. /\ q.at = IF left = {} THEN "loaded" ELSE "rows"
          /\ q.copy = IF left = {} THEN Attached(c) ELSE c
          /\ q.solo = req[r].solo
      BY <1>0 DEF Loaded, RequestOK, c
    <2>9. req' = [req EXCEPT ![r] = q]
      BY <2>1
    <2> HIDE DEF q, left
    <2>10. RequestTraced(q, approved, shown)
      BY <2>7, <2>8 DEF RequestTraced
    <2>11. q.solo => req[r].solo /\ Progressed(q, db)
      BY <1>0, <2>2, <2>8 DEF Progressed
    <2> QED BY <2>2, <2>9, <2>10, <2>11, MovedOnly
  <1>6. ASSUME NEW k \in Rows, DeleteStale(r, k) PROVE (Trail /\ Alone)'
    <2> DEFINE rows == [x \in DOMAIN db[k] \cap DOMAIN req[r].copy[k] |-> db[k][x]]
               q == Answered(req[r], k, [req[r] EXCEPT !.at = "upsert", !.todo = Rows])
    <2>1. /\ req[r].at = "stale" /\ k \in req[r].todo /\ req' = [req EXCEPT ![r] = q]
          /\ Remember
      BY <1>6 DEF DeleteStale
    <2>2. /\ \A j \in Rows : db'[j] = IF j = k THEN rows ELSE db[j]
          /\ db'.course = db.course
      BY <1>0, <1>6 DEF DeleteStale, CourseOK, Rows
    <2>3. /\ DOMAIN rows = DOMAIN db[k] \cap DOMAIN req[r].copy[k]
          /\ \A x \in DOMAIN rows : rows[x] = db[k][x]
      OBVIOUS
    <2>4. /\ q.at = IF req[r].todo = {k} THEN "upsert" ELSE "stale"
          /\ q.todo = IF req[r].todo = {k} THEN Rows ELSE req[r].todo \ {k}
          /\ q.copy = req[r].copy /\ q.solo = req[r].solo
      BY <1>0, <2>1 DEF Answered, RequestOK
    <2> HIDE DEF rows, q
    <2>5. approved \subseteq approved' /\ shown \subseteq shown'
      BY <2>1 DEF Remember
    <2>6. CourseTraced(db', approved', shown')
      <3>1. CourseTraced(db', approved, shown)
        BY <1>0, <2>2, <2>3 DEF CourseTraced, Rows
      <3> QED BY <2>5, <3>1, TracesStay
    <2>7. RequestTraced(q, approved', shown')
      <3>1. RequestTraced(q, approved, shown)
        BY <1>0, <2>4 DEF RequestTraced, Storing
      <3> QED BY <2>5, <3>1, TracesStay
    <2>8. ASSUME q.solo PROVE req[r].solo /\ Progressed(q, db')
      <3>1. req[r].solo /\ Progressed(req[r], db)
        BY <1>0, <2>4, <2>8
      <3>2. q.at = "stale" => \A j \in Rows \ q.todo : DOMAIN db'[j] \subseteq DOMAIN q.copy[j]
        BY <2>1, <2>2, <2>3, <2>4, <3>1 DEF Progressed
      <3>3. q.at = "upsert" => \A j \in Rows : DOMAIN db'[j] \subseteq DOMAIN q.copy[j]
        BY <2>1, <2>2, <2>3, <2>4, <3>1 DEF Progressed
      <3> QED BY <2>1, <2>2, <2>4, <3>1, <3>2, <3>3 DEF Progressed
    <2> QED BY <2>1, <2>6, <2>7, <2>8, Moved
  <1>7. ASSUME NEW k \in Rows, Upsert(r, k) PROVE (Trail /\ Alone)'
    <2> DEFINE new == req[r].copy[k]
               rows == [x \in DOMAIN db[k] \cup DOMAIN new |->
                           IF x \in DOMAIN new THEN new[x] ELSE db[k][x]]
               q == Answered(req[r], k, Idle)
    <2>1. /\ req[r].at = "upsert" /\ k \in req[r].todo /\ req' = [req EXCEPT ![r] = q]
          /\ Remember
      BY <1>7 DEF Upsert
    <2>2. /\ \A j \in Rows : db'[j] = IF j = k THEN rows ELSE db[j]
          /\ db'.course = db.course
      BY <1>0, <1>7 DEF Upsert, CourseOK, Rows
    <2>3. /\ DOMAIN rows = DOMAIN db[k] \cup DOMAIN new
          /\ \A x \in DOMAIN rows : rows[x] = IF x \in DOMAIN new THEN new[x] ELSE db[k][x]
          /\ DOMAIN db[k] \subseteq DOMAIN new => rows = [x \in DOMAIN new |-> new[x]]
      OBVIOUS
    <2>4. new = [x \in DOMAIN new |-> new[x]]
      <3>1. CASE k = "member"
        BY <1>0, <3>1 DEF CourseOK, MembersOK, IsPartial
      <3>2. CASE k = "lesson"
        BY <1>0, <3>2 DEF CourseOK, LessonsOK, IsPartial
      <3>3. CASE k = "homework"
        BY <1>0, <3>3 DEF CourseOK, AssignmentsOK, IsPartial
      <3> QED BY <3>1, <3>2, <3>3 DEF Rows
    <2>5. \/ q = Idle
          \/ /\ q.at = "upsert" /\ q.todo = req[r].todo \ {k}
             /\ q.copy = req[r].copy /\ q.solo = req[r].solo
      BY <1>0, <2>1 DEF Answered, RequestOK
    <2> HIDE DEF rows, q
    <2>6. approved \subseteq approved' /\ shown \subseteq shown'
      BY <2>1 DEF Remember
    <2>7. CourseTraced(db', approved', shown')
      <3>1. CourseTraced(db', approved, shown)
        BY <1>0, <2>2, <2>3 DEF CourseTraced, Rows
      <3> QED BY <2>6, <3>1, TracesStay
    <2>8. RequestTraced(q, approved', shown')
      <3>1. RequestTraced(q, approved, shown)
        BY <1>0, <2>5, EmptyTraced DEF RequestTraced, Storing
      <3> QED BY <2>6, <3>1, TracesStay
    <2>9. ASSUME q.solo PROVE req[r].solo /\ Progressed(q, db')
      <3>1. /\ q.at = "upsert" /\ q.todo = req[r].todo \ {k} /\ q.copy = req[r].copy
            /\ req[r].solo /\ Progressed(req[r], db)
        BY <1>0, <2>5, <2>9, EmptyTraced
      <3>2. db'[k] = q.copy[k]
        BY <2>1, <2>2, <2>3, <2>4, <3>1 DEF Progressed
      <3>3. \A j \in Rows : DOMAIN db'[j] \subseteq DOMAIN q.copy[j]
        BY <2>1, <2>2, <3>1, <3>2 DEF Progressed
      <3>4. \A j \in Rows \ q.todo : db'[j] = q.copy[j]
        BY <2>1, <2>2, <3>1, <3>2 DEF Progressed
      <3> QED BY <2>1, <2>2, <3>1, <3>3, <3>4 DEF Progressed
    <2> QED BY <2>1, <2>7, <2>8, <2>9, Moved
  <1>8. ASSUME NEW k \in Rows \cup {"course"}, Drop(r, k) PROVE (Trail /\ Alone)'
    <2> DEFINE q == Answered(req[r], k, Idle)
    <2>1. /\ req[r].at = "drop" /\ k \in req[r].todo /\ req' = [req EXCEPT ![r] = q]
          /\ Remember
      BY <1>8 DEF Drop
    <2>2. \A j \in Rows \cup {"course"} : db'[j] = IF j = k THEN Empty[j] ELSE db[j]
      BY <1>0, <1>8 DEF Drop, CourseOK, Rows
    <2>3. \/ q = Idle
          \/ /\ q.at = "drop" /\ q.todo = req[r].todo \ {k}
             /\ q.copy = req[r].copy /\ q.solo = req[r].solo
      BY <1>0, <2>1 DEF Answered, RequestOK
    <2> HIDE DEF q
    <2>4. approved \subseteq approved' /\ shown \subseteq shown'
      BY <2>1 DEF Remember
    <2>5. CourseTraced(db', approved', shown')
      <3>1. db'.lesson \in {db.lesson, Empty.lesson} /\ db'.homework \in {db.homework, Empty.homework}
        BY <2>2 DEF Rows
      <3>2. CourseTraced(db', approved, shown)
        BY <1>0, <3>1, EmptyTraced DEF CourseTraced
      <3> QED BY <2>4, <3>2, TracesStay
    <2>6. RequestTraced(q, approved', shown')
      <3>1. RequestTraced(q, approved, shown)
        BY <1>0, <2>3, EmptyTraced DEF RequestTraced, Storing
      <3> QED BY <2>4, <3>1, TracesStay
    <2>7. ASSUME q.solo PROVE req[r].solo /\ Progressed(q, db')
      <3>1. /\ q.at = "drop" /\ q.todo = req[r].todo \ {k}
            /\ req[r].solo /\ Progressed(req[r], db)
        BY <1>0, <2>3, <2>7, EmptyTraced
      <3> QED BY <2>1, <2>2, <3>1 DEF Progressed
    <2> QED BY <2>1, <2>5, <2>6, <2>7, Moved
  <1> QED BY <1>1, <1>2, <1>3, <1>4, <1>5, <1>6, <1>7, <1>8


\* What a handler may rely on when it changes its copy.
LEMMA CopyTraced ==
    ASSUME JInv, NEW r \in Requests, NEW op, May(r, op)
    PROVE  /\ CourseOK(req[r].copy) /\ CourseTraced(req[r].copy, approved, shown)
           /\ Remembered(req[r].copy, approved, shown)
           /\ \A l \in DOMAIN req[r].copy.lesson :
                  /\ LessonOK(req[r].copy.lesson[l])
                  /\ LessonTraced(req[r].copy.lesson[l], l, approved, shown)
           /\ \A h \in DOMAIN req[r].copy.homework :
                  /\ HomeworkOK(req[r].copy.homework[h])
                  /\ HomeworkTraced(req[r].copy.homework[h], approved, shown)
  <1>1. /\ CourseOK(req[r].copy) /\ CourseTraced(req[r].copy, approved, shown)
        /\ Remembered(req[r].copy, approved, shown)
    BY DEF JInv, IInv, RequestOK, Trail, RequestTraced, May, Storing
  <1> QED BY <1>1 DEF CourseOK, LessonsOK, AssignmentsOK, CourseTraced

\* Nobody gets past a handler's checks who has no way in.
LEMMA Entered ==
    ASSUME JInv, NEW r \in Requests, NEW op, May(r, op), NEW u, NEW l
    PROVE  /\ CanAccess(req[r].copy, u, l) => MayEnter(u, l, approved, shown)
           /\ IsMember(req[r].copy, u) => MayEnter(u, l, approved, shown)
  BY CopyTraced, AccessGiven

LEMMA SaveTraced ==
    ASSUME JInv, IInv', NEW r \in Requests, NEW op, May(r, op),
           NEW c, DOMAIN c = {"course", "member", "lesson", "homework"},
           CourseTraced(c, approved, shown), Save(r, op, c)
    PROVE  (Trail /\ Alone)'
  <1> DEFINE d == [c EXCEPT !.lesson = Numbered(c.lesson)]
             q == [req[r] EXCEPT !.at = "save", !.op = op, !.copy = d]
  <1>1. d.lesson = Numbered(c.lesson) /\ d.homework = c.homework
    OBVIOUS
  <1>2. req' = [req EXCEPT ![r] = q] /\ UNCHANGED <<db, history>> /\ req[r].at = "loaded"
    BY DEF Save, May
  <1> HIDE DEF d
  <1>3. q.at = "save" /\ q.copy = d /\ q.solo = req[r].solo
    BY DEF JInv, IInv, RequestOK
  <1>4. LessonsOK(d.lesson)
    <2>1. req'[r] = q
      BY <1>2 DEF JInv, IInv
    <2> HIDE DEF q
    <2> QED BY <1>3, <2>1 DEF IInv, RequestOK, CourseOK
  <1>5. ASSUME NEW l \in DOMAIN d.lesson PROVE LessonTraced(d.lesson[l], l, approved, shown)
    <2> DEFINE n == Cardinality({k \in DOMAIN c.lesson : c.lesson[k].order < c.lesson[l].order})
    <2>1. l \in DOMAIN c.lesson /\ d.lesson[l] = [c.lesson[l] EXCEPT !.order = n]
      BY <1>1, <1>5 DEF Numbered
    <2>2. d.lesson[l] \in Lesson
      BY <1>4, <1>5 DEF LessonsOK, LessonOK
    <2>3. LessonTraced(c.lesson[l], l, approved, shown)
      BY <2>1 DEF CourseTraced
    <2> HIDE DEF n
    <2>4. /\ d.lesson[l].attendance = c.lesson[l].attendance /\ d.lesson[l].notes = c.lesson[l].notes
          /\ d.lesson[l].likes = c.lesson[l].likes /\ d.lesson[l].tests = c.lesson[l].tests
      BY <2>1, <2>2 DEF Lesson
    <2> QED BY <2>3, <2>4 DEF LessonTraced
  <1>6. CourseTraced(d, approved, shown)
    BY <1>1, <1>5 DEF CourseTraced
  <1> HIDE DEF q
  <1>7. RequestTraced(q, approved, shown)
    BY <1>3, <1>6 DEF RequestTraced, Storing
  <1>8. q.solo => req[r].solo /\ Progressed(q, db)
    BY <1>2, <1>3 DEF JInv, Alone, Progressed
  <1> QED BY <1>2, <1>7, <1>8, MovedOnly

\* ... when the handler replaces one lesson, or one assignment.
LEMMA LessonSaved ==
    ASSUME JInv, IInv', NEW r \in Requests, NEW op, May(r, op),
           NEW l \in DOMAIN req[r].copy.lesson, NEW x, LessonTraced(x, l, approved, shown),
           Save(r, op, [req[r].copy EXCEPT !.lesson[l] = x])
    PROVE  (Trail /\ Alone)'
  <1> DEFINE c == [req[r].copy EXCEPT !.lesson[l] = x]
  <1>1. CourseOK(req[r].copy) /\ CourseTraced(req[r].copy, approved, shown)
    BY CopyTraced
  <1>2. /\ DOMAIN c = {"course", "member", "lesson", "homework"}
        /\ c.lesson = [req[r].copy.lesson EXCEPT ![l] = x] /\ c.homework = req[r].copy.homework
    BY <1>1 DEF CourseOK
  <1> HIDE DEF c
  <1>3. CourseTraced(c, approved, shown)
    BY <1>1, <1>2 DEF CourseTraced
  <1> QED BY <1>2, <1>3, SaveTraced DEF c

LEMMA AssignmentSaved ==
    ASSUME JInv, IInv', NEW r \in Requests, NEW op, May(r, op),
           NEW h \in DOMAIN req[r].copy.homework, NEW x, HomeworkTraced(x, approved, shown),
           Save(r, op, [req[r].copy EXCEPT !.homework[h] = x])
    PROVE  (Trail /\ Alone)'
  <1> DEFINE c == [req[r].copy EXCEPT !.homework[h] = x]
  <1>1. CourseOK(req[r].copy) /\ CourseTraced(req[r].copy, approved, shown)
    BY CopyTraced
  <1>2. /\ DOMAIN c = {"course", "member", "lesson", "homework"}
        /\ c.homework = [req[r].copy.homework EXCEPT ![h] = x] /\ c.lesson = req[r].copy.lesson
    BY <1>1 DEF CourseOK
  <1> HIDE DEF c
  <1>3. CourseTraced(c, approved, shown)
    BY <1>1, <1>2 DEF CourseTraced
  <1> QED BY <1>2, <1>3, SaveTraced DEF c

\* A handler that stores its own fields at once.
LEMMA DirectTraced ==
    ASSUME JInv, NEW r \in Requests, NEW op, May(r, op), NEW new,
           CourseTraced(new, approved, shown), StoreDirectly(r, op, new)
    PROVE  (Trail /\ Alone)'
  <1>1. db' = new /\ req' = [req EXCEPT ![r] = Idle] /\ Remember /\ req[r].at = "loaded"
    BY DEF StoreDirectly, May
  <1>2. approved \subseteq approved' /\ shown \subseteq shown'
    BY <1>1 DEF Remember
  <1>3. CourseTraced(db', approved', shown')
    BY <1>1, <1>2, TracesStay
  <1> QED BY <1>1, <1>3, EmptyTraced, Moved


LEMMA MemberRequestTraced ==
    ASSUME JInv, IInv', NEW r \in Requests, MemberRequest(r)
    PROVE  (Trail /\ Alone)'
  <1> DEFINE c == req[r].copy
  <1>0. ASSUME NEW op, May(r, op), NEW d, DOMAIN d = {"course", "member", "lesson", "homework"},
               d.lesson = c.lesson, d.homework = c.homework, Save(r, op, d)
        PROVE  (Trail /\ Alone)'
    <2>1. CourseTraced(d, approved, shown)
      BY <1>0, CopyTraced DEF CourseTraced
    <2> QED BY <1>0, <2>1, SaveTraced
  <1>1. ASSUME NEW op, May(r, op), NEW ms, Save(r, op, [c EXCEPT !.member = ms])
        PROVE  (Trail /\ Alone)'
    <2> DEFINE d == [c EXCEPT !.member = ms]
    <2>1. /\ DOMAIN d = {"course", "member", "lesson", "homework"}
          /\ d.lesson = c.lesson /\ d.homework = c.homework
      <3>1. CourseOK(c)
        BY <1>1, CopyTraced
      <3> QED BY <3>1 DEF CourseOK
    <2> HIDE DEF d
    <2> QED BY <1>0, <1>1, <2>1 DEF d
  <1>2. ASSUME NEW u \in Users, Enroll(r, u) PROVE (Trail /\ Alone)'
    BY <1>1, <1>2 DEF Enroll
  <1>3. ASSUME NEW u \in Users, ApproveUser(r, u) PROVE (Trail /\ Alone)'
    <2>1. CASE u \in DOMAIN c.member
      BY <1>1, <1>3, <2>1 DEF ApproveUser
    <2>2. CASE u \notin DOMAIN c.member
      <3>1. May(r, "approveUser") /\ Save(r, "approveUser", c)
        BY <1>3, <2>2 DEF ApproveUser
      <3>2. DOMAIN c = {"course", "member", "lesson", "homework"}
        <4>1. CourseOK(c)
          BY <3>1, CopyTraced
        <4> QED BY <4>1 DEF CourseOK
      <3> QED BY <1>0, <3>1, <3>2
    <2> QED BY <2>1, <2>2
  <1>4. ASSUME NEW u \in Users, RemoveUser(r, u) PROVE (Trail /\ Alone)'
    BY <1>1, <1>4 DEF RemoveUser
  <1>5. ASSUME NEW access, Update(r, access) PROVE (Trail /\ Alone)'
    <2> DEFINE d == [c EXCEPT !.course.access = access]
    <2>1. May(r, "update") /\ Save(r, "update", d)
      BY <1>5 DEF Update
    <2>2. /\ DOMAIN d = {"course", "member", "lesson", "homework"}
          /\ d.lesson = c.lesson /\ d.homework = c.homework
      <3>1. CourseOK(c)
        BY <2>1, CopyTraced
      <3> QED BY <3>1 DEF CourseOK
    <2> HIDE DEF d
    <2> QED BY <1>0, <2>1, <2>2
  <1>6. CASE Delete(r)
    <2> DEFINE q == [req[r] EXCEPT !.at = "drop", !.todo = Rows \cup {"course"}, !.op = "delete"]
    <2>1. May(r, "delete") /\ req' = [req EXCEPT ![r] = q] /\ UNCHANGED <<db, history>>
      BY <1>6 DEF Delete
    <2>2. q.at = "drop" /\ q.todo = Rows \cup {"course"} /\ q.copy = c /\ q.solo = req[r].solo
      BY DEF JInv, IInv, RequestOK
    <2> HIDE DEF q
    <2>3. RequestTraced(q, approved, shown)
      BY <2>1, <2>2, CopyTraced DEF RequestTraced, Storing
    <2>4. q.solo => req[r].solo /\ Progressed(q, db)
      BY <2>2 DEF Progressed
    <2>5. req[r].at # "idle"
      BY <2>1 DEF May
    <2> QED BY <2>1, <2>3, <2>4, <2>5, MovedOnly
  <1> QED BY <1>2, <1>3, <1>4, <1>5, <1>6 DEF MemberRequest

LEMMA LessonRequestTraced ==
    ASSUME JInv, IInv', NEW r \in Requests, LessonRequest(r)
    PROVE  (Trail /\ Alone)'
  <1> DEFINE c == req[r].copy
  <1>1. ASSUME NEW status, NEW media, AddLesson(r, status, media) PROVE (Trail /\ Alone)'
    <2> DEFINE n == Cardinality(DOMAIN c.lesson)
               x == NewLesson(n, status, media)
    <2>1. PICK l \in LessonIds \ used :
             Save(r, "addLesson", [c EXCEPT !.lesson = With(@, l, x)])
      BY <1>1 DEF AddLesson
    <2> DEFINE ls == With(c.lesson, l, x)
               d == [c EXCEPT !.lesson = ls]
    <2>2. May(r, "addLesson")
      BY <1>1 DEF AddLesson
    <2>3. LessonTraced(x, l, approved, shown)
      BY DEF NewLesson, LessonTraced
    <2>4. /\ DOMAIN ls = DOMAIN c.lesson \cup {l}
          /\ \A k \in DOMAIN ls : ls[k] = IF k = l THEN x ELSE c.lesson[k]
      BY DEF With
    <2> HIDE DEF ls, x
    <2>5. /\ DOMAIN d = {"course", "member", "lesson", "homework"}
          /\ d.lesson = ls /\ d.homework = c.homework
      <3>1. CourseOK(c)
        BY <2>2, CopyTraced
      <3> QED BY <3>1 DEF CourseOK
    <2>6. CourseTraced(d, approved, shown)
      <3> HIDE DEF d
      <3> QED BY <2>2, <2>3, <2>4, <2>5, CopyTraced DEF CourseTraced
    <2> QED BY <2>1, <2>2, <2>5, <2>6, SaveTraced DEF ls
  <1>2. ASSUME NEW l, NEW media, UpdateLesson(r, l, media) PROVE (Trail /\ Alone)'
    <2> DEFINE x == [c.lesson[l] EXCEPT !.media = media,
                                        !.status = IF media = "file" THEN @ ELSE "draft"]
    <2>1. l \in DOMAIN c.lesson /\ May(r, "updateLesson")
      BY <1>2 DEF UpdateLesson
    <2>2. LessonTraced(x, l, approved, shown)
      BY <2>1, CopyTraced DEF LessonOK, Lesson, LessonTraced
    <2>3. Save(r, "updateLesson", [c EXCEPT !.lesson[l] = x])
      <3>1. CourseOK(c)
        BY <2>1, CopyTraced
      <3> QED BY <1>2, <2>1, <3>1 DEF UpdateLesson, CourseOK, LessonsOK, IsPartial
    <2> HIDE DEF x
    <2> QED BY <2>1, <2>2, <2>3, LessonSaved
  <1>3. ASSUME NEW l, PublishLesson(r, l) PROVE (Trail /\ Alone)'
    <2> DEFINE x == [c.lesson[l] EXCEPT !.status = "published"]
    <2>1. /\ l \in DOMAIN c.lesson /\ May(r, "publishLesson")
          /\ Save(r, "publishLesson", [c EXCEPT !.lesson[l] = x])
      BY <1>3 DEF PublishLesson
    <2>2. LessonTraced(x, l, approved, shown)
      BY <2>1, CopyTraced DEF LessonOK, Lesson, LessonTraced
    <2> HIDE DEF x
    <2> QED BY <2>1, <2>2, LessonSaved
  <1>4. ASSUME NEW l, RemoveLesson(r, l) PROVE (Trail /\ Alone)'
    <2> DEFINE ls == Without(c.lesson, l)
               hs == [h \in DOMAIN c.homework \ HomeworkOf(c, l) |-> c.homework[h]]
               d == [c EXCEPT !.lesson = Without(@, l),
                              !.homework = [h \in DOMAIN @ \ HomeworkOf(c, l) |-> @[h]]]
    <2>1. May(r, "removeLesson") /\ Save(r, "removeLesson", d)
      BY <1>4 DEF RemoveLesson
    <2>2. /\ DOMAIN ls \subseteq DOMAIN c.lesson /\ \A k \in DOMAIN ls : ls[k] = c.lesson[k]
          /\ DOMAIN hs \subseteq DOMAIN c.homework /\ \A h \in DOMAIN hs : hs[h] = c.homework[h]
      BY DEF Without
    <2>3. CourseOK(c)
      BY <2>1, CopyTraced
    <2>4. d = [c EXCEPT !.lesson = ls, !.homework = hs]
      BY <2>3 DEF CourseOK
    <2> HIDE DEF ls, hs, d
    <2>5. /\ DOMAIN d = {"course", "member", "lesson", "homework"}
          /\ d.lesson = ls /\ d.homework = hs
      BY <2>3, <2>4 DEF CourseOK
    <2>6. CourseTraced(d, approved, shown)
      BY <2>1, <2>2, <2>5, CopyTraced DEF CourseTraced
    <2> QED BY <2>1, <2>5, <2>6, SaveTraced
  <1> QED BY <1>1, <1>2, <1>3, <1>4 DEF LessonRequest

LEMMA AttendanceRequestTraced ==
    ASSUME JInv, IInv', NEW r \in Requests, AttendanceRequest(r)
    PROVE  (Trail /\ Alone)'
  <1> DEFINE c == req[r].copy
  <1>0. ASSUME NEW op, May(r, op), NEW l \in DOMAIN c.lesson, NEW u,
               CanAccess(c, u, l) \/ IsMember(c, u), NEW e, e.user = u,
               Save(r, op, [c EXCEPT !.lesson[l].attendance = Put(@, u, e)])
        PROVE  (Trail /\ Alone)'
    <2> DEFINE entries == Put(c.lesson[l].attendance, u, e)
               x == [c.lesson[l] EXCEPT !.attendance = entries]
    <2>1. LessonOK(c.lesson[l]) /\ LessonTraced(c.lesson[l], l, approved, shown)
      BY <1>0, CopyTraced
    <2>2. MayEnter(u, l, approved, shown)
      BY <1>0, Entered
    <2>3. entries \subseteq c.lesson[l].attendance \cup {e}
      BY PutAdds
    <2>4. Save(r, op, [c EXCEPT !.lesson[l] = x])
      BY <1>0
    <2> HIDE DEF entries
    <2>5. /\ x.attendance = entries /\ x.notes = c.lesson[l].notes
          /\ x.likes = c.lesson[l].likes /\ x.tests = c.lesson[l].tests
      BY <2>1 DEF LessonOK, Lesson
    <2> HIDE DEF x
    <2>6. LessonTraced(x, l, approved, shown)
      BY <1>0, <2>1, <2>2, <2>3, <2>5 DEF LessonTraced
    <2> QED BY <1>0, <2>4, <2>6, LessonSaved
  <1>1. ASSUME NEW op, May(r, op), NEW l \in DOMAIN c.lesson, NEW u \in Actors
        PROVE  AttendanceOf(c, l, u) \in Attendance /\ AttendanceOf(c, l, u).user = u
    <2>1. c.lesson[l].attendance \subseteq Attendance
      BY <1>1, CopyTraced DEF LessonOK, Lesson
    <2>2. CASE HasEntry(c.lesson[l].attendance, u)
      BY <2>1, <2>2, EntryFound DEF AttendanceOf
    <2>3. CASE ~HasEntry(c.lesson[l].attendance, u)
      BY <1>1, <2>3 DEF AttendanceOf, Attendance
    <2> QED BY <2>2, <2>3
  <1>2. ASSUME NEW l, NEW u \in Actors, NEW percent, MarkOwnAttendance(r, u, l, percent)
        PROVE  (Trail /\ Alone)'
    <2> DEFINE old == AttendanceOf(c, l, u)
               progress == Clamp(IF percent > old.progress THEN percent ELSE old.progress, 0, 100)
               e == [old EXCEPT !.status = ResolveStatus(@, progress), !.progress = progress,
                                !.source = "auto"]
    <2>1. l \in DOMAIN c.lesson /\ May(r, "markOwnAttendance") /\ CanAccess(c, u, l)
      BY <1>2 DEF MarkOwnAttendance, CanAccess
    <2>2. old \in Attendance /\ old.user = u
      BY <1>1, <2>1
    <2>3. e.user = u
      <3> HIDE DEF old, progress
      <3> QED BY <2>2 DEF Attendance
    <2>4. Save(r, "markOwnAttendance", [c EXCEPT !.lesson[l].attendance = Put(@, u, e)])
      BY <1>2 DEF MarkOwnAttendance
    <2> HIDE DEF e
    <2> QED BY <1>0, <2>1, <2>3, <2>4
  <1>3. ASSUME NEW l, NEW u \in Actors, NEW intent, MarkMeetAttendance(r, u, l, intent)
        PROVE  (Trail /\ Alone)'
    <2> DEFINE old == AttendanceOf(c, l, u)
               e == IF intent = "join" /\ old.source # "manual" /\ old.status = "absent"
                    THEN [old EXCEPT !.status = "present"] ELSE old
    <2>1. l \in DOMAIN c.lesson /\ May(r, "markMeetAttendance") /\ CanAccess(c, u, l)
      BY <1>3 DEF MarkMeetAttendance, CanAccess
    <2>2. old \in Attendance /\ old.user = u
      BY <1>1, <2>1
    <2>3. e.user = u
      <3> HIDE DEF old
      <3> QED BY <2>2 DEF Attendance
    <2>4. Save(r, "markMeetAttendance", [c EXCEPT !.lesson[l].attendance = Put(@, u, e)])
      BY <1>3 DEF MarkMeetAttendance
    <2> HIDE DEF e
    <2> QED BY <1>0, <2>1, <2>3, <2>4
  <1>4. ASSUME NEW l, NEW u \in Users, NEW status, SetAttendanceStatus(r, u, l, status)
        PROVE  (Trail /\ Alone)'
    <2> DEFINE old == AttendanceOf(c, l, u)
               e == [old EXCEPT !.status = status, !.source = "manual"]
    <2>1. l \in DOMAIN c.lesson /\ May(r, "setAttendanceStatus") /\ IsMember(c, u)
      BY <1>4 DEF SetAttendanceStatus
    <2>2. old \in Attendance /\ old.user = u
      BY <1>1, <2>1 DEF Actors
    <2>3. e.user = u
      <3> HIDE DEF old
      <3> QED BY <2>2 DEF Attendance
    <2>4. Save(r, "setAttendanceStatus", [c EXCEPT !.lesson[l].attendance = Put(@, u, e)])
      BY <1>4 DEF SetAttendanceStatus
    <2> HIDE DEF e
    <2> QED BY <1>0, <2>1, <2>3, <2>4
  <1>5. ASSUME NEW l, NEW u, NEW score, SetLessonOralAssessment(r, u, l, score)
        PROVE  (Trail /\ Alone)'
    <2> DEFINE oral == c.lesson[l].oral
               old == IF HasEntry(oral, u) THEN EntryOf(oral, u) ELSE [user |-> u, score |-> Nobody]
    <2>1. l \in DOMAIN c.lesson /\ May(r, "setLessonOralAssessment")
      BY <1>5 DEF SetLessonOralAssessment
    <2>2. PICK s \in {old.score, score} :
             Save(r, "setLessonOralAssessment",
                  [c EXCEPT !.lesson[l].oral = Put(@, u, [old EXCEPT !.score = s])])
      BY <1>5 DEF SetLessonOralAssessment
    <2> DEFINE marks == Put(oral, u, [old EXCEPT !.score = s])
               x == [c.lesson[l] EXCEPT !.oral = marks]
    <2>3. Save(r, "setLessonOralAssessment", [c EXCEPT !.lesson[l] = x])
      BY <2>2
    <2> HIDE DEF marks
    <2>4. LessonTraced(x, l, approved, shown)
      BY <2>1, CopyTraced DEF LessonOK, Lesson, LessonTraced
    <2> HIDE DEF x
    <2> QED BY <2>1, <2>3, <2>4, LessonSaved
  <1> QED BY <1>2, <1>3, <1>4, <1>5 DEF AttendanceRequest


LEMMA HomeworkRequestTraced ==
    ASSUME JInv, IInv', NEW r \in Requests, HomeworkRequest(r)
    PROVE  (Trail /\ Alone)'
  <1> DEFINE c == req[r].copy
  <1>0. ASSUME NEW op, May(r, op), NEW h \in DOMAIN c.homework, NEW u,
               MayEnter(u, c.homework[h].lesson, approved, shown), NEW e, e.user = u,
               Save(r, op, [c EXCEPT !.homework[h].submissions = Put(@, u, e)])
        PROVE  (Trail /\ Alone)'
    <2> DEFINE entries == Put(c.homework[h].submissions, u, e)
               x == [c.homework[h] EXCEPT !.submissions = entries]
    <2>1. HomeworkOK(c.homework[h]) /\ HomeworkTraced(c.homework[h], approved, shown)
      BY <1>0, CopyTraced
    <2>2. entries \subseteq c.homework[h].submissions \cup {e}
      BY PutAdds
    <2>3. Save(r, op, [c EXCEPT !.homework[h] = x])
      BY <1>0
    <2> HIDE DEF entries
    <2>4. x.submissions = entries /\ x.lesson = c.homework[h].lesson
      BY <2>1 DEF HomeworkOK, Homework
    <2> HIDE DEF x
    <2>5. HomeworkTraced(x, approved, shown)
      BY <1>0, <2>1, <2>2, <2>4 DEF HomeworkTraced
    <2> QED BY <1>0, <2>3, <2>5, AssignmentSaved
  <1>1. ASSUME NEW op, May(r, op), NEW hs, Save(r, op, [c EXCEPT !.homework = hs]),
               \A h \in DOMAIN hs : HomeworkTraced(hs[h], approved, shown)
        PROVE  (Trail /\ Alone)'
    <2> DEFINE d == [c EXCEPT !.homework = hs]
    <2>1. CourseOK(c) /\ CourseTraced(c, approved, shown)
      BY <1>1, CopyTraced
    <2>2. /\ DOMAIN d = {"course", "member", "lesson", "homework"}
          /\ d.lesson = c.lesson /\ d.homework = hs
      BY <2>1 DEF CourseOK
    <2> HIDE DEF d
    <2>3. CourseTraced(d, approved, shown)
      BY <1>1, <2>1, <2>2 DEF CourseTraced
    <2> QED BY <1>1, <2>2, <2>3, SaveTraced DEF d
  <1>2. ASSUME NEW l, NEW enabled, NEW max, NewHomework(r, l, enabled, max)
        PROVE  (Trail /\ Alone)'
    <2> DEFINE x == [lesson |-> l, enabled |-> enabled, max |-> max, submissions |-> {}]
    <2>1. PICK h \in HomeworkIds \ used :
             Save(r, "upsertLessonHomework", [c EXCEPT !.homework = With(@, h, x)])
      BY <1>2 DEF NewHomework
    <2> DEFINE hs == With(c.homework, h, x)
    <2>2. May(r, "upsertLessonHomework")
      BY <1>2 DEF NewHomework
    <2>3. HomeworkTraced(x, approved, shown)
      BY DEF HomeworkTraced
    <2>4. /\ DOMAIN hs = DOMAIN c.homework \cup {h}
          /\ \A k \in DOMAIN hs : hs[k] = IF k = h THEN x ELSE c.homework[k]
      BY DEF With
    <2> HIDE DEF x, hs
    <2>5. \A k \in DOMAIN hs : HomeworkTraced(hs[k], approved, shown)
      BY <2>2, <2>3, <2>4, CopyTraced
    <2> QED BY <1>1, <2>1, <2>2, <2>5 DEF hs
  <1>3. ASSUME NEW h, NEW enabled, NEW max, ChangeHomework(r, h, enabled, max)
        PROVE  (Trail /\ Alone)'
    <2> DEFINE x == [c.homework[h] EXCEPT !.enabled = enabled, !.max = max]
    <2>1. h \in DOMAIN c.homework /\ May(r, "upsertLessonHomework")
      BY <1>3 DEF ChangeHomework
    <2>2. CourseOK(c) /\ HomeworkOK(c.homework[h])
            /\ HomeworkTraced(c.homework[h], approved, shown)
      BY <2>1, CopyTraced
    <2>3. Save(r, "upsertLessonHomework", [c EXCEPT !.homework[h] = x])
      BY <1>3, <2>1, <2>2 DEF ChangeHomework, CourseOK, AssignmentsOK, IsPartial
    <2>4. HomeworkTraced(x, approved, shown)
      BY <2>2 DEF HomeworkOK, Homework, HomeworkTraced
    <2> HIDE DEF x
    <2> QED BY <2>1, <2>3, <2>4, AssignmentSaved
  <1>4. ASSUME NEW h, DeleteLessonHomework(r, h) PROVE (Trail /\ Alone)'
    <2> DEFINE hs == Without(c.homework, h)
    <2>1. /\ May(r, "deleteLessonHomework")
          /\ Save(r, "deleteLessonHomework", [c EXCEPT !.homework = hs])
      BY <1>4 DEF DeleteLessonHomework
    <2>2. DOMAIN hs \subseteq DOMAIN c.homework /\ \A k \in DOMAIN hs : hs[k] = c.homework[k]
      BY DEF Without
    <2> HIDE DEF hs
    <2>3. \A k \in DOMAIN hs : HomeworkTraced(hs[k], approved, shown)
      BY <2>1, <2>2, CopyTraced
    <2> QED BY <1>1, <2>1, <2>3
  <1>5. ASSUME NEW h, NEW u, SubmitLessonHomework(r, u, h) PROVE (Trail /\ Alone)'
    <2> DEFINE e == [user |-> u, status |-> "submitted", score |-> Nobody]
    <2>1. /\ h \in DOMAIN c.homework /\ May(r, "submitLessonHomework")
          /\ CanAccess(c, u, c.homework[h].lesson)
          /\ Save(r, "submitLessonHomework", [c EXCEPT !.homework[h].submissions = Put(@, u, e)])
      BY <1>5 DEF SubmitLessonHomework
    <2>2. MayEnter(u, c.homework[h].lesson, approved, shown)
      BY <2>1, Entered
    <2>3. e.user = u
      OBVIOUS
    <2> HIDE DEF e
    <2> QED BY <1>0, <2>1, <2>2, <2>3
  <1>6. ASSUME NEW h, NEW u, NEW status, NEW score, ReviewLessonHomework(r, h, u, status, score)
        PROVE  (Trail /\ Alone)'
    <2> DEFINE hw == c.homework[h]
               new == IF score = Nobody THEN Nobody ELSE Clamp(score, 0, hw.max)
    <2>1. /\ h \in DOMAIN c.homework /\ May(r, "reviewLessonHomework")
          /\ HasEntry(hw.submissions, u)
      BY <1>6 DEF ReviewLessonHomework
    <2>2. PICK s \in {EntryOf(hw.submissions, u).score, new} :
             Save(r, "reviewLessonHomework", [c EXCEPT !.homework[h].submissions =
                    Put(@, u, [user |-> u, status |-> status, score |-> s])])
      BY <1>6 DEF ReviewLessonHomework
    <2> DEFINE e == [user |-> u, status |-> status, score |-> s]
    <2>3. HomeworkTraced(hw, approved, shown)
      BY <2>1, CopyTraced
    <2>4. MayEnter(u, hw.lesson, approved, shown)
      BY <2>1, <2>3 DEF HasEntry, HomeworkTraced
    <2>5. e.user = u
      OBVIOUS
    <2> HIDE DEF e
    <2> QED BY <1>0, <2>1, <2>2, <2>4, <2>5 DEF e
  <1> QED BY <1>2, <1>3, <1>4, <1>5, <1>6 DEF HomeworkRequest

LEMMA TestRequestTraced ==
    ASSUME JInv, IInv', NEW r \in Requests, TestRequest(r)
    PROVE  (Trail /\ Alone)'
  <1> DEFINE c == req[r].copy
             Results(t, l) == \A p \in t.progress : MayEnter(p.user, l, approved, shown)
  <1>0. ASSUME NEW op, May(r, op), NEW l \in DOMAIN c.lesson, NEW ts, \A t \in ts : Results(t, l),
               Save(r, op, [c EXCEPT !.lesson[l].tests = ts])
        PROVE  (Trail /\ Alone)'
    <2> DEFINE x == [c.lesson[l] EXCEPT !.tests = ts]
    <2>1. LessonOK(c.lesson[l]) /\ LessonTraced(c.lesson[l], l, approved, shown)
      BY <1>0, CopyTraced
    <2>2. LessonTraced(x, l, approved, shown)
      BY <1>0, <2>1 DEF LessonOK, Lesson, LessonTraced
    <2> HIDE DEF x
    <2> QED BY <1>0, <2>2, LessonSaved DEF x
  <1>1. ASSUME NEW op, May(r, op), NEW l \in DOMAIN c.lesson, NEW t \in c.lesson[l].tests
        PROVE  t \in LinkedTest /\ Results(t, l)
    BY <1>1, CopyTraced DEF LessonOK, Lesson, LessonTraced
  <1>2. ASSUME NEW l, NEW minimum, NewLinkedTest(r, l, minimum) PROVE (Trail /\ Alone)'
    <2>1. PICK t \in TestIds \ used :
             Save(r, "upsertLessonLinkedTest", [c EXCEPT !.lesson[l].tests =
                    @ \cup {[id |-> t, minimum |-> minimum, progress |-> {}]}])
      BY <1>2 DEF NewLinkedTest
    <2> DEFINE x == [id |-> t, minimum |-> minimum, progress |-> {}]
               ts == c.lesson[l].tests \cup {x}
    <2>2. l \in DOMAIN c.lesson /\ May(r, "upsertLessonLinkedTest")
      BY <1>2 DEF NewLinkedTest
    <2>3. \A y \in ts : Results(y, l)
      BY <1>1, <2>2
    <2>4. Save(r, "upsertLessonLinkedTest", [c EXCEPT !.lesson[l].tests = ts])
      BY <2>1
    <2> HIDE DEF ts
    <2> QED BY <1>0, <2>2, <2>3, <2>4
  <1>3. ASSUME NEW l, NEW t \in c.lesson[l].tests, NEW minimum, NEW same,
               ChangeLinkedTest(r, l, t, minimum, same)
        PROVE  (Trail /\ Alone)'
    <2> DEFINE ps == IF same THEN {Passing(p, minimum) : p \in t.progress} ELSE {}
               x == [t EXCEPT !.minimum = minimum, !.progress = ps]
               ts == (c.lesson[l].tests \ {t}) \cup {x}
    <2>1. /\ l \in DOMAIN c.lesson /\ May(r, "upsertLessonLinkedTest")
          /\ Save(r, "upsertLessonLinkedTest", [c EXCEPT !.lesson[l].tests = ts])
      BY <1>3 DEF ChangeLinkedTest
    <2>2. t \in LinkedTest /\ Results(t, l)
      BY <1>1, <2>1
    <2>3. ASSUME NEW p \in t.progress PROVE Passing(p, minimum).user = p.user
      <3>1. p \in Progress
        BY <2>2, <2>3 DEF LinkedTest
      <3> QED BY <3>1 DEF Passing, Progress
    <2>4. \A p \in ps : MayEnter(p.user, l, approved, shown)
      BY <2>2, <2>3
    <2> HIDE DEF ps
    <2>5. x.progress = ps
      BY <2>2 DEF LinkedTest
    <2> HIDE DEF x
    <2>6. \A y \in ts : Results(y, l)
      BY <1>1, <2>1, <2>4, <2>5
    <2> HIDE DEF ts
    <2> QED BY <1>0, <2>1, <2>6
  <1>4. ASSUME NEW l, NEW t, DeleteLessonLinkedTest(r, l, t) PROVE (Trail /\ Alone)'
    <2> DEFINE ts == {x \in c.lesson[l].tests : x.id # t}
    <2>1. /\ l \in DOMAIN c.lesson /\ May(r, "deleteLessonLinkedTest")
          /\ Save(r, "deleteLessonLinkedTest", [c EXCEPT !.lesson[l].tests = ts])
      BY <1>4 DEF DeleteLessonLinkedTest
    <2>2. \A y \in ts : Results(y, l)
      BY <1>1, <2>1
    <2> HIDE DEF ts
    <2> QED BY <1>0, <2>1, <2>2
  <1>5. ASSUME NEW l, NEW t \in c.lesson[l].tests, NEW u, NEW percent,
               SubmitLinkedTestAttempt(r, u, l, t, percent)
        PROVE  (Trail /\ Alone)'
    <2> DEFINE passed == percent >= t.minimum
               old == EntryOf(t.progress, u)
               best == IF percent > old.best THEN percent ELSE old.best
               b == old.passed \/ passed
               n == Clamp(old.attempts + 1, 0, MaxCount)
               kept == [old EXCEPT !.best = best, !.passed = b, !.attempts = n]
               first == [user |-> u, best |-> percent, passed |-> passed, attempts |-> 1]
               e == IF HasEntry(t.progress, u)
                    THEN [old EXCEPT !.best = IF percent > @ THEN percent ELSE @,
                                     !.passed = @ \/ passed,
                                     !.attempts = Clamp(@ + 1, 0, MaxCount)]
                    ELSE first
               x == [t EXCEPT !.progress = Put(@, u, e)]
               ts == (c.lesson[l].tests \ {t}) \cup {x}
    <2>1. /\ l \in DOMAIN c.lesson /\ May(r, "submitLessonLinkedTestAttempt")
          /\ CanAccess(c, u, l)
          /\ Save(r, "submitLessonLinkedTestAttempt", [c EXCEPT !.lesson[l].tests = ts])
      BY <1>5 DEF SubmitLinkedTestAttempt, CanAccess
    <2>2. t \in LinkedTest /\ Results(t, l) /\ MayEnter(u, l, approved, shown)
      BY <1>1, <2>1, Entered
    <2>3. HasEntry(t.progress, u) => old \in Progress /\ old.user = u
      BY <2>2, EntryFound DEF LinkedTest
    <2>4. e.user = u
      <3>1. CASE HasEntry(t.progress, u)
        <4>1. old \in Progress /\ old.user = u
          BY <2>3, <3>1
        <4>2. e = kept
          <5> HIDE DEF old, passed
          <5> QED BY <3>1
        <4> HIDE DEF e, old, best, b, n
        <4>3. kept.user = old.user
          BY <4>1 DEF Progress
        <4> QED BY <4>1, <4>2, <4>3
      <3>2. CASE ~HasEntry(t.progress, u)
        <4>1. e = first /\ first.user = u
          BY <3>2
        <4> QED BY <4>1
      <3> QED BY <3>1, <3>2
    <2> HIDE DEF e
    <2>5. Put(t.progress, u, e) \subseteq t.progress \cup {e}
      BY PutAdds
    <2>6. x.progress = Put(t.progress, u, e)
      BY <2>2 DEF LinkedTest
    <2> HIDE DEF x
    <2>7. Results(x, l)
      BY <2>2, <2>4, <2>5, <2>6
    <2>8. \A y \in ts : Results(y, l)
      BY <1>1, <2>1, <2>7
    <2> HIDE DEF ts
    <2> QED BY <1>0, <2>1, <2>8
  <1> QED BY <1>2, <1>3, <1>4, <1>5 DEF TestRequest


LEMMA NamedTraced ==
    ASSUME NEW x, LessonOK(x), NEW l, NEW A, NEW S, LessonTraced(x, l, A, S)
    PROVE  LessonTraced(Named(x), l, A, S)
  <1> DEFINE n == x.named + x.unnamed
             y == [x EXCEPT !.named = n]
  <1>1. /\ y.attendance = x.attendance /\ y.notes = x.notes /\ y.likes = x.likes
        /\ y.tests = x.tests /\ Named(x) = [y EXCEPT !.unnamed = 0]
    BY DEF Named, LessonOK, Lesson
  <1>2. DOMAIN y = DOMAIN x
    OBVIOUS
  <1> HIDE DEF y
  <1>3. /\ Named(x).attendance = x.attendance /\ Named(x).notes = x.notes
        /\ Named(x).likes = x.likes /\ Named(x).tests = x.tests
    BY <1>1, <1>2 DEF LessonOK, Lesson
  <1> QED BY <1>3 DEF LessonTraced

LEMMA MaterialRequestTraced ==
    ASSUME JInv, IInv', NEW r \in Requests, MaterialRequest(r)
    PROVE  (Trail /\ Alone)'
  <1> DEFINE c == req[r].copy
  <1>0. ASSUME NEW op, May(r, op), NEW l \in DOMAIN c.lesson
        PROVE  LessonOK(Named(c.lesson[l])) /\ LessonTraced(Named(c.lesson[l]), l, approved, shown)
    BY <1>0, CopyTraced, NamedOK, NamedTraced
  <1>1. CASE NameLibrary(r)
    <2> DEFINE ls == [l \in DOMAIN c.lesson |-> Named(c.lesson[l])]
               d == [c EXCEPT !.lesson = ls]
    <2>1. May(r, "getCourseMaterialLibrary") /\ Save(r, "getCourseMaterialLibrary", d)
      BY <1>1 DEF NameLibrary
    <2>2. CourseOK(c) /\ CourseTraced(c, approved, shown)
      BY <2>1, CopyTraced
    <2>3. \A l \in DOMAIN ls : LessonTraced(ls[l], l, approved, shown)
      BY <1>0, <2>1
    <2> HIDE DEF ls
    <2>4. /\ DOMAIN d = {"course", "member", "lesson", "homework"}
          /\ d.lesson = ls /\ d.homework = c.homework
      BY <2>2 DEF CourseOK
    <2> HIDE DEF d
    <2>5. CourseTraced(d, approved, shown)
      BY <2>2, <2>3, <2>4 DEF CourseTraced
    <2> QED BY <2>1, <2>4, <2>5, SaveTraced
  <1>2. ASSUME NEW l, NEW u, NameMaterials(r, u, l) PROVE (Trail /\ Alone)'
    <2> DEFINE x == Named(c.lesson[l])
    <2>1. /\ l \in DOMAIN c.lesson /\ May(r, "getLessonMaterials")
          /\ Save(r, "getLessonMaterials", [c EXCEPT !.lesson[l] = x])
      BY <1>2 DEF NameMaterials, CanAccess
    <2>2. LessonTraced(x, l, approved, shown)
      BY <1>0, <2>1
    <2> HIDE DEF x
    <2> QED BY <2>1, <2>2, LessonSaved
  <1>3. ASSUME NEW l, NEW new, UpsertLessonMaterial(r, l, new) PROVE (Trail /\ Alone)'
    <2> DEFINE m == Named(c.lesson[l])
               x == IF new THEN [m EXCEPT !.unnamed = 1] ELSE m
    <2>1. /\ l \in DOMAIN c.lesson /\ May(r, "upsertLessonMaterial")
          /\ Save(r, "upsertLessonMaterial", [c EXCEPT !.lesson[l] = x])
      BY <1>3 DEF UpsertLessonMaterial
    <2>2. LessonOK(m) /\ LessonTraced(m, l, approved, shown)
      BY <1>0, <2>1
    <2>3. LessonTraced(x, l, approved, shown)
      <3> HIDE DEF m
      <3> QED BY <2>2 DEF LessonOK, Lesson, LessonTraced
    <2> HIDE DEF x
    <2> QED BY <2>1, <2>3, LessonSaved
  <1>4. ASSUME NEW l, DeleteLessonMaterial(r, l) PROVE (Trail /\ Alone)'
    <2> DEFINE m == Named(c.lesson[l])
               x == [m EXCEPT !.named = m.named - 1]
    <2>1. /\ l \in DOMAIN c.lesson /\ May(r, "deleteLessonMaterial")
          /\ Save(r, "deleteLessonMaterial", [c EXCEPT !.lesson[l] = x])
      BY <1>4 DEF DeleteLessonMaterial
    <2>2. LessonOK(m) /\ LessonTraced(m, l, approved, shown)
      BY <1>0, <2>1
    <2>3. LessonTraced(x, l, approved, shown)
      <3> HIDE DEF m
      <3> QED BY <2>2 DEF LessonOK, Lesson, LessonTraced
    <2> HIDE DEF x
    <2> QED BY <2>1, <2>3, LessonSaved
  <1> QED BY <1>1, <1>2, <1>3, <1>4 DEF MaterialRequest

LEMMA ReaderRequestTraced ==
    ASSUME JInv, IInv', NEW r \in Requests, ReaderRequest(r)
    PROVE  (Trail /\ Alone)'
  <1> DEFINE c == req[r].copy
  <1>0. CourseOK(db) /\ CourseTraced(db, approved, shown)
    BY DEF JInv, IInv, Trail
  <1>1. ASSUME NEW op, May(r, op), NEW l \in DOMAIN db.lesson, NEW x,
               LessonTraced(x, l, approved, shown),
               StoreDirectly(r, op, [db EXCEPT !.lesson[l] = x])
        PROVE  (Trail /\ Alone)'
    <2> DEFINE d == [db EXCEPT !.lesson[l] = x]
    <2>1. d.lesson = [db.lesson EXCEPT ![l] = x] /\ d.homework = db.homework
      BY <1>0 DEF CourseOK
    <2> HIDE DEF d
    <2>2. CourseTraced(d, approved, shown)
      BY <1>0, <1>1, <2>1 DEF CourseTraced
    <2> QED BY <1>1, <2>2, DirectTraced DEF d
  <1>2. ASSUME NEW l \in DOMAIN db.lesson
        PROVE  LessonOK(db.lesson[l]) /\ LessonTraced(db.lesson[l], l, approved, shown)
    BY <1>0, <1>2 DEF CourseOK, LessonsOK, CourseTraced
  <1>3. ASSUME NEW l, IncrementViews(r, l) PROVE (Trail /\ Alone)'
    <2>1. May(r, "incrementViews")
      BY <1>3 DEF IncrementViews
    <2>2. CASE l \notin DOMAIN db.lesson
      BY <1>0, <1>3, <2>1, <2>2, DirectTraced DEF IncrementViews
    <2>3. CASE l \in DOMAIN db.lesson
      <3> DEFINE x == [db.lesson[l] EXCEPT !.views = Clamp(@ + 1, 0, MaxCount)]
      <3>1. StoreDirectly(r, "incrementViews", [db EXCEPT !.lesson[l] = x])
        BY <1>3, <2>3 DEF IncrementViews
      <3>2. LessonTraced(x, l, approved, shown)
        BY <1>2, <2>3 DEF LessonOK, Lesson, LessonTraced
      <3> HIDE DEF x
      <3> QED BY <1>1, <2>1, <2>3, <3>1, <3>2
    <2> QED BY <2>2, <2>3
  <1>4. ASSUME NEW l, AddComment(r, l) PROVE (Trail /\ Alone)'
    <2> DEFINE x == [c.lesson[l] EXCEPT !.comments = @ + 1]
    <2>1. /\ l \in DOMAIN c.lesson /\ May(r, "addComment")
          /\ Save(r, "addComment", [c EXCEPT !.lesson[l] = x])
      BY <1>4 DEF AddComment
    <2>2. LessonTraced(x, l, approved, shown)
      BY <2>1, CopyTraced DEF LessonOK, Lesson, LessonTraced
    <2> HIDE DEF x
    <2> QED BY <2>1, <2>2, LessonSaved
  <1>5. ASSUME NEW l, NEW u, ToggleLessonLike(r, u, l) PROVE (Trail /\ Alone)'
    <2> DEFINE old == c.lesson[l].likes
               likes == IF u \in old THEN old \ {u} ELSE old \cup {u}
               x == [c.lesson[l] EXCEPT !.likes = likes]
    <2>1. /\ l \in DOMAIN c.lesson /\ May(r, "toggleLessonLike") /\ CanAccess(c, u, l)
          /\ Save(r, "toggleLessonLike", [c EXCEPT !.lesson[l] = x])
      BY <1>5 DEF ToggleLessonLike, CanAccess
    <2>2. LessonOK(c.lesson[l]) /\ LessonTraced(c.lesson[l], l, approved, shown)
      BY <2>1, CopyTraced
    <2>3. MayEnter(u, l, approved, shown)
      BY <2>1, Entered
    <2>4. likes \subseteq old \cup {u}
      OBVIOUS
    <2> HIDE DEF likes
    <2>5. LessonTraced(x, l, approved, shown)
      BY <2>2, <2>3, <2>4 DEF LessonOK, Lesson, LessonTraced
    <2> HIDE DEF x
    <2> QED BY <2>1, <2>5, LessonSaved
  <1>6. ASSUME NEW l, NEW u, NEW timed, NEW untimed, UpsertLessonNote(r, u, l, timed, untimed)
        PROVE  (Trail /\ Alone)'
    <2>1. May(r, "upsertLessonNote") /\ CanAccess(c, u, l) /\ l \in DOMAIN c.lesson
      BY <1>6 DEF UpsertLessonNote, CanAccess
    <2>2. CASE l \notin DOMAIN db.lesson
      BY <1>0, <1>6, <2>1, <2>2, DirectTraced DEF UpsertLessonNote
    <2>3. CASE l \in DOMAIN db.lesson
      <3> DEFINE e == [user |-> u, timed |-> timed, untimed |-> untimed]
                 notes == Put(c.lesson[l].notes, u, e)
                 x == [db.lesson[l] EXCEPT !.notes = notes]
      <3>1. StoreDirectly(r, "upsertLessonNote", [db EXCEPT !.lesson[l] = x])
        BY <1>6, <2>3 DEF UpsertLessonNote
      <3>2. MayEnter(u, l, approved, shown) /\ LessonTraced(c.lesson[l], l, approved, shown)
        BY <2>1, CopyTraced, Entered
      <3>3. e.user = u
        OBVIOUS
      <3> HIDE DEF e
      <3>4. notes \subseteq c.lesson[l].notes \cup {e}
        BY PutAdds
      <3>5. \A v \in notes : MayEnter(v.user, l, approved, shown)
        BY <3>2, <3>3, <3>4 DEF LessonTraced
      <3> HIDE DEF notes
      <3>6. LessonTraced(x, l, approved, shown)
        BY <1>2, <2>3, <3>5 DEF LessonOK, Lesson, LessonTraced
      <3> HIDE DEF x
      <3> QED BY <1>1, <2>1, <2>3, <3>1, <3>6
    <2> QED BY <2>2, <2>3
  <1>7. ASSUME NEW u, NEW stars, UpsertCourseReview(r, u, stars) PROVE (Trail /\ Alone)'
    <2> DEFINE e == [user |-> u, stars |-> Clamp(stars, 1, 5)]
               reviews == Put(c.course.reviews, u, e)
               d == [db EXCEPT !.course.reviews = reviews, !.course.rating = Average(reviews),
                               !.course.count = Cardinality(reviews)]
    <2>1. May(r, "upsertCourseReview")
      BY <1>7 DEF UpsertCourseReview
    <2>2. CASE db.course = Nobody
      BY <1>0, <1>7, <2>1, <2>2, DirectTraced DEF UpsertCourseReview
    <2>3. CASE db.course # Nobody
      <3>1. StoreDirectly(r, "upsertCourseReview", d)
        BY <1>7, <2>3 DEF UpsertCourseReview
      <3>2. d.lesson = db.lesson /\ d.homework = db.homework
        <4> HIDE DEF reviews
        <4> QED BY <1>0 DEF CourseOK
      <3> HIDE DEF d
      <3>3. CourseTraced(d, approved, shown)
        BY <1>0, <3>2 DEF CourseTraced
      <3> QED BY <2>1, <3>1, <3>3, DirectTraced
    <2> QED BY <2>2, <2>3
  <1> QED BY <1>3, <1>4, <1>5, <1>6, <1>7 DEF ReaderRequest

LEMMA JStep == JInv /\ [Next]_vars => JInv'
  <1> SUFFICES ASSUME JInv, [Next]_vars PROVE JInv'
    OBVIOUS
  <1>1. IInv'
    BY StepOK DEF JInv
  <1>2. CASE Next
    <2>1. PICK r \in Requests : Step(r)
      BY <1>2 DEF Next
    <2>2. (Trail /\ Alone)'
      BY <1>1, <2>1, BeginMoves, PipelineTraced, MemberRequestTraced, LessonRequestTraced,
         AttendanceRequestTraced, HomeworkRequestTraced, TestRequestTraced,
         MaterialRequestTraced, ReaderRequestTraced DEF Step
    <2> QED BY <1>1, <2>2 DEF JInv
  <1>3. CASE UNCHANGED vars
    <2>1. UNCHANGED <<db, req, approved, shown>>
      BY <1>3 DEF vars
    <2>2. Trail' /\ Alone'
      BY <2>1 DEF JInv, Trail, Alone
    <2> QED BY <1>1, <2>2 DEF JInv
  <1> QED BY <1>2, <1>3

LEMMA TrailKept == Spec => []JInv
  <1>1. Init => JInv
    BY InitOK, TraceInit DEF JInv
  <1> QED BY <1>1, JStep, PTL DEF Spec

\* Whoever a stored row names - who attended, liked, took notes, has a result or
\* handed in homework - had a way into the lesson: the author, an account that was
\* once approved, or anybody if the lesson was once the preview.  However many
\* requests overlap and overwrite each other's rows, none can bring in anybody else.
THEOREM TracesCorrect == Spec => []TraceNeedsAccess
  <1>1. JInv => TraceNeedsAccess
    BY DEF JInv, Trail, TraceNeedsAccess
  <1> QED BY <1>1, TrailKept, PTL

\* A request that overlapped no other leaves the database exactly as its copy has
\* it, and one that deleted the course leaves nothing.
THEOREM SoloCorrect == Spec => SoloRequestStored
  <1>1. ASSUME JInv, IInv', NEW r \in Requests, NEW k \in Rows \cup {"course"},
               req[r].solo, req[r].todo = {k}
        PROVE  /\ Upsert(r, k) => db' = req[r].copy
               /\ Drop(r, k) => db' = Empty
    <2> DEFINE new == req[r].copy
    <2>1. /\ CourseOK(db) /\ CourseOK(db') /\ CourseOK(new) /\ Progressed(req[r], db)
      BY <1>1 DEF JInv, IInv, RequestOK, Alone
    <2>2. ASSUME Upsert(r, k) PROVE db' = new
      <3> DEFINE rows == [x \in DOMAIN db[k] \cup DOMAIN new[k] |->
                            IF x \in DOMAIN new[k] THEN new[k][x] ELSE db[k][x]]
      <3>1. req[r].at = "upsert" /\ db' = [db EXCEPT ![k] = rows]
        BY <2>2 DEF Upsert
      <3>2. /\ k \in Rows /\ db.course = new.course /\ DOMAIN db[k] \subseteq DOMAIN new[k]
            /\ \A j \in Rows \ {k} : db[j] = new[j]
        BY <1>1, <2>1, <3>1 DEF Progressed
      <3>3. rows = [x \in DOMAIN new[k] |-> new[k][x]]
        BY <3>2
      <3>4. new[k] = [x \in DOMAIN new[k] |-> new[k][x]]
        <4>1. CASE k = "member"
          BY <2>1, <4>1 DEF CourseOK, MembersOK, IsPartial
        <4>2. CASE k = "lesson"
          BY <2>1, <4>2 DEF CourseOK, LessonsOK, IsPartial
        <4>3. CASE k = "homework"
          BY <2>1, <4>3 DEF CourseOK, AssignmentsOK, IsPartial
        <4> QED BY <3>2, <4>1, <4>2, <4>3 DEF Rows
      <3> HIDE DEF rows, new
      <3>5. db'.course = new.course /\ \A j \in Rows : db'[j] = new[j]
        BY <2>1, <3>1, <3>2, <3>3, <3>4 DEF CourseOK, Rows
      <3> QED BY <2>1, <3>5 DEF CourseOK, Rows
    <2>3. ASSUME Drop(r, k) PROVE db' = Empty
      <3>1. req[r].at = "drop" /\ db' = [db EXCEPT ![k] = Empty[k]]
        BY <2>3 DEF Drop
      <3>2. \A j \in (Rows \cup {"course"}) \ {k} : db[j] = Empty[j]
        BY <1>1, <2>1, <3>1 DEF Progressed
      <3>3. \A j \in Rows \cup {"course"} : db'[j] = Empty[j]
        BY <2>1, <3>1, <3>2 DEF CourseOK, Rows
      <3> QED BY <2>1, <3>3 DEF CourseOK, Empty, Rows
    <2> QED BY <2>2, <2>3
  <1>2. JInv /\ JInv' /\ [Next]_vars =>
          [\A r \in Requests, k \in Rows \cup {"course"} :
              req[r].solo /\ req[r].todo = {k} =>
                  /\ Upsert(r, k) => db' = req[r].copy
                  /\ Drop(r, k) => db' = Empty]_vars
    BY <1>1 DEF JInv
  <1> QED BY <1>2, TrailKept, PTL DEF Spec, SoloRequestStored

================================================================================

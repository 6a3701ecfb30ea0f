------------------------------- MODULE MCCourse -------------------------------
(* Small courses for Course: two lessons, one approved member, one outsider.  *)
EXTENDS Course, TLC

CONSTANTS member, outsider, l1, l2, l3, h1, h2, t1, t2

MCUsers == {member, outsider}
MCLessons == {l1, l2, l3}
MCHomework == {h1, h2}
MCTests == {t1, t2}
MCPercents == {0, 50, 100}
MCMinimums == {0, 60, 100}
MCMaxScores == {50, 100}
MCStars == {0, 5}

Published(place) == NewLesson(place, "published", "file")
Doc(access) == [access |-> access, reviews |-> {}, rating |-> 0, count |-> 0]

Course(lessons, homework) ==
    [course |-> Doc("free_request"), member |-> (member :> "approved"),
     lesson |-> lessons, homework |-> homework]

One == l1 :> Published(0)
Two == One @@ l2 :> Published(1)

Watched == [user |-> member, status |-> "late", source |-> "auto", progress |-> 50]
Attempted == [user |-> member, best |-> 50, passed |-> FALSE, attempts |-> 1]
Quiz == [id |-> t1, minimum |-> 60, progress |-> {Attempted}]
Returned == [user |-> member, status |-> "needs_revision", score |-> 50]
Essay == [lesson |-> l1, enabled |-> TRUE, max |-> 100, submissions |-> {Returned}]
Reviewed ==
    [Course(One, << >>) EXCEPT
        !.member = member :> "approved" @@ outsider :> "approved",
        !.course.reviews = {[user |-> member, stars |-> 5]},
        !.course.rating = 50, !.course.count = 1]

MCScenarios ==
    {[start |-> [Course(One, << >>) EXCEPT !.member = << >>],
      mix |-> {"enroll", "approveUser", "removeUser", "update", "delete"}],
     [start |-> Reviewed, mix |-> {"removeUser", "upsertCourseReview"}],
     [start |-> Course(One, h1 :> Essay),
      mix |-> {"addLesson", "updateLesson", "publishLesson", "removeLesson"}],
     [start |-> Course([Two EXCEPT ![l1].attendance = {Watched}], << >>),
      mix |-> {"markOwnAttendance", "markMeetAttendance", "setAttendanceStatus"}],
     [start |-> Course(Two, << >>),
      mix |-> {"removeUser", "removeLesson", "toggleLessonLike"}],
     [start |-> Course(One, << >>),
      mix |-> {"setLessonOralAssessment", "incrementViews", "addComment", "upsertLessonNote"}],
     [start |-> Course(One, h1 :> Essay),
      mix |-> {"upsertLessonHomework", "deleteLessonHomework", "submitLessonHomework",
               "reviewLessonHomework"}],
     [start |-> Course([Two EXCEPT ![l1].tests = {Quiz}], << >>),
      mix |-> {"upsertLessonLinkedTest", "deleteLessonLinkedTest",
               "submitLessonLinkedTestAttempt"}],
     [start |-> Course([One EXCEPT ![l1].named = 1], << >>),
      mix |-> {"upsertLessonMaterial", "deleteLessonMaterial", "getLessonMaterials",
               "getCourseMaterialLibrary"}]}

Symmetry == Permutations(Requests)
===============================================================================

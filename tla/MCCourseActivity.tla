-------------------------- MODULE MCCourseActivity --------------------------
(* Small instances of CourseActivity for TLC. *)
EXTENDS CourseActivity, TLC

CONSTANTS r1, r2, r3, c1, c2, p1, p2

Symmetry == Permutations(Requests) \cup Permutations(Pids)

\* One course and two results, stars or ratings of it.
OneCourse  == {[id |-> c1, val |-> 1], [id |-> c1, val |-> 2]}
TwoCourses == {[id |-> c1, val |-> 1], [id |-> c2, val |-> 2]}

RecordMethods == {"UploadCourseRecord", "handleImport"}
TallyMethods  == {"RateCustomRanking", "rateObjects", "AddToBufferQueues",
                  "changeMeta", "handleStars"}
=============================================================================

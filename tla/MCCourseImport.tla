--------------------------- MODULE MCCourseImport ---------------------------
(* Small instances of CourseImport for TLC. *)
EXTENDS CourseImport, TLC

CONSTANTS r1, r2, i1, i2

\* Requests and imports are interchangeable, each among themselves.
Symmetry == Permutations(Requests) \cup Permutations(Imports)

\* A course is created or deleted beside the imports.
PlayerMethods == {"preparePostObject", "AdminDeleteCourse"}
PosterMethods == {"preparePostObject"}

C(p, n, id, meta) == [owner |-> p, size |-> n, id |-> id, meta |-> meta]

\* Two makers; the second id collides with what the sequence will give.
TwoCourses == {C(2, 2, 2, TRUE), C(1, 1, AutoId, FALSE)}
ExplicitCourses == {C(1, 1, 1, FALSE), C(1, 1, 3, FALSE)}
\* What the bucket and the tables hold at the start.
NoObjects == <<>>
=============================================================================

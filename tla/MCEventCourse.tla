---------------------------- MODULE MCEventCourse ----------------------------
(* Small instances of EventCourse for TLC. *)
EXTENDS EventCourse, TLC

CONSTANTS r1, r2, i1

Symmetry == Permutations(Requests)

PlayerMethods == {"preparePostObject", "completePostObject", "AdminDeleteCourse"}

\* A course without an id of its own, and one exported under the event's.
SomeCourses ==
  {[owner |-> 1, size |-> 1, id |-> id, meta |-> FALSE] : id \in {AutoId, EventId}}
\* What the bucket and the tables hold at the start.
NoObjects == <<>>
=============================================================================

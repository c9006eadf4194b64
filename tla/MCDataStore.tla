---------------------------- MODULE MCDataStore ----------------------------
(* Small instances of DataStore for TLC. *)
EXTENDS DataStore, TLC

CONSTANTS p1, p2, r1, r2, r3

\* Requests and players are interchangeable.
Symmetry == Permutations(Requests) \cup Permutations(Pids)

\* The two sides of a retried upload report.
RetryMethods == {"preparePostObject", "completePostObject"}
\* What the bucket and the tables hold at the start.
NoObjects == <<>>
OneObject == 1 :> [owner |-> p1, size |-> 1]
=============================================================================

---------------------------- MODULE MCConnections ----------------------------
(* A small instance of Connections for TLC. *)
EXTENDS Connections, TLC

CONSTANTS p1, p2, c1, c2, c3, u1, u2

Symmetry == Permutations(Pids) \cup Permutations(Conns) \cup Permutations(Updates)

EachOthers == {{p1, p2}}
\* Station URLs and notices share nothing but the connections: a behaviour of
\* this instance has either.
OneKind == \/ \A c \in Conns : urls[c] = <<>> /\ todo[c] = <<>>
           \/ /\ notices = [p \in Pids |-> NoRow] /\ asked = {} /\ failures = 0
              /\ \A r \in Updates : pc[r] = "idle"
\* One connection registers twice, or two of them once; one has rewritten some.
FewStations ==
  /\ Cardinality(rewritten) <= 1
  /\ \A c, d \in Conns : c # d => Len(urls[c]) + Len(urls[d]) <= MaxStations
Small == OneKind /\ FewStations
=============================================================================

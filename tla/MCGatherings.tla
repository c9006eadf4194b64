---------------------------- MODULE MCGatherings ----------------------------
(* Small instances of Gatherings for TLC. *)
EXTENDS Gatherings, TLC

CONSTANTS p1, p2, p3

Symmetry == Permutations(Pids)

OneExtra == {<<p>> : p \in Pids}

\* A session that ends with its owner, and one that goes on.
SessionFlags == {{}, {"DisconnectChangeOwner", "ParticipantsChangeOwner"}}

\* A community that stays when everybody has left, and one that is left by
\* disconnecting.
CommunityFlags == {{"PersistentGatheringAllowZeroUsers"},
                   {"PersistentGatheringLeaveParticipation"}}
=============================================================================

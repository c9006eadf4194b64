---------------------------- MODULE MCBrowsing ----------------------------
(* A small instance of Browsing for TLC. *)
EXTENDS Browsing, TLC

CONSTANTS r1, b1, c1, c2, p1

\* No ratings: none of the requests here reads or writes them.
NoRatings == \A id \in Courses : ratings[id] = NoRow
\* Moderators come before or after the request that writes, and only the other
\* course is prepared and completed in two steps.
Settled == \/ review = {} /\ \A b \in Browsers : arrival[b] # NoCall => arrival[b].review = {}
           \/ \A r \in Requests : pc[r] \in Ended \cup {"idle"}
\* A list of two names both courses.
ShortLists == \A r \in Requests : call[r] # NoCall /\ Len(call[r].items) = 2 =>
            call[r].method = "RateCustomRanking" /\ call[r].items[1] # call[r].items[2]
Small == NoRatings /\ Settled /\ ShortLists /\ stage[c1] # "pending"

SomeItems  == {[id |-> c1, val |-> 1], [id |-> c2, val |-> 2]}
SomeCaller == [b \in Browsers |-> p1]
SomeLists  == {<<>>, <<c2, c1>>}
SomeOwners == {<<>>, <<p1>>}
SomeMethods == {"UploadCourseRecord", "RateCustomRanking", "AddToBufferQueues", "changeMeta"}
=============================================================================

--------------------------- MODULE CourseActivity ---------------------------
(***************************************************************************)
(* What players do with published courses: records, stars, ratings and the *)
(* starred-courses lists.  As in DataStore every request is a goroutine    *)
(* without lock or transaction; it works through its list of items, and a  *)
(* step is one SQL statement.  Browsing has the requests that only read.   *)
(*                                                                         *)
(* The objects themselves move as ObjectLifecycle says, which DataStore    *)
(* and CourseImport implement.  Records, ratings, rankings and queues are  *)
(* keyed by a data id and a slot (an application, for rankings); the model *)
(* has slot 0 of each.  The others are alike, but for the queues: only an  *)
(* entry for slot 0 is preceded by a look at the object and its owner.     *)
(***************************************************************************)
EXTENDS Integers, Sequences, FiniteSets, FiniteSetsExt

CONSTANTS Requests,     \* the goroutines; each serves one request
          Pids, Courses,
          Items,        \* what a list of parameters may hold
          MaxItems,     \* the longest list of parameters
          Methods,      \* the methods called in this instance
          Makers,       \* the objects posted with DataType 1
          Shared,       \* the objects whose permissions admit everyone,
          Closed,       \* and those whose permission is no known value
          Reviewable,   \* bound: the objects that moderators look at
          NoOne, NoRow, NoCall

AllMethods == {"UploadCourseRecord", "RateCustomRanking", "rateObjects",
               "AddToBufferQueues", "changeMeta", "handleStars", "handleImport"}

\* A score, an amount of stars, a rating, a buffer or a data type.
Item == [id : Courses, val : Int]

\* The rows of course_records, object_ratings and buffer_queues.
Record == [first : Pids \cup {NoOne}, best : Pids, score : Int]
Rating == [total : Int, count : Nat]
Entry  == [by : Pids, val : Int]

ASSUME ActivityAssumption ==
  /\ Items \subseteq Item /\ Methods \subseteq AllMethods
  /\ MaxItems \in Nat
  /\ Makers \subseteq Courses /\ Shared \subseteq Courses
  /\ Closed \subseteq Courses \ Shared /\ Reviewable \subseteq Courses
  /\ NoOne \notin Pids /\ NoRow \notin Record /\ NoRow \notin Int
  /\ NoCall \notin [method : AllMethods, pid : Pids, items : Seq(Item)]

VARIABLES stage, owner, \* the objects, see ObjectLifecycle
          maker,        \* the objects with data_type 1,
          review,       \* and those that are under_review
          records,      \* datastore.course_records
          stars,        \* datastore.object_custom_rankings
          ratings,      \* datastore.object_ratings
          queue,        \* datastore.buffer_queues, and who sent each buffer last
          pc, call, at  \* what a request does next, was sent, and its item

tables  == <<records, stars, ratings, queue>>
objects == <<stage, owner, maker, review>>
vars    == <<stage, owner, maker, review, records, stars, ratings, queue, pc, call, at>>

Life == INSTANCE ObjectLifecycle
          WITH Objects <- Courses, Owners <- Pids, NoOwner <- NoOne

Labels == {"idle", "info", "check", "write", "stars", "ratings", "record", "ok", "error"}
Ended  == {"ok", "error"}

TypeOK ==
  /\ stage \in [Courses -> {"absent", "pending", "published", "withdrawn"}]
  /\ owner \in [Courses -> Pids \cup {NoOne}]
  /\ maker \subseteq Courses /\ review \subseteq Courses
  /\ records \in [Courses -> Record \cup {NoRow}]
  /\ stars \in [Courses -> Int \cup {NoRow}]
  /\ ratings \in [Courses -> Rating \cup {NoRow}]
  /\ queue \in [Courses -> SUBSET Entry]
  /\ pc \in [Requests -> Labels]
  /\ call \in [Requests -> [method : AllMethods, pid : Pids, items : Seq(Item)]
                           \cup {NoCall}]
  /\ at \in [Requests -> Nat]

\* Objects that were prepared get one rating row each (see DataStore).
Init ==
  /\ Life!Init
  /\ maker = Makers /\ review = {}
  /\ records = [id \in Courses |-> NoRow]
  /\ stars = [id \in Courses |-> NoRow]
  /\ ratings \in [Courses -> {NoRow, [total |-> 0, count |-> 0]}]
  /\ queue = [id \in Courses |-> {}]
  /\ pc = [r \in Requests |-> "idle"]
  /\ call = [r \in Requests |-> NoCall]
  /\ at = [r \in Requests |-> 1]
-----------------------------------------------------------------------------
IsObjectAvailable(id) == stage[id] = "published" /\ id \notin review

\* VerifyObjectPermission for somebody who asks to rate or to change.  With an
\* unknown permission not even the owner passes.
Permitted(id, pid) == id \notin Closed /\ (pid = owner[id] \/ id \in Shared)

ItemOf(r) == call[r].items[at[r]]

\* Where the work on an item begins.
FirstLabel(m) ==
  CASE m \in {"UploadCourseRecord", "RateCustomRanking"} -> "check"
    [] m \in {"rateObjects", "AddToBufferQueues", "changeMeta"} -> "info"
    [] m = "handleStars" -> "write"
    [] m = "handleImport" -> "stars"

\* Fault: an item is worked on again and again.
NextItemFault(r) ==
  /\ pc' = [pc EXCEPT ![r] = IF at[r] < Len(call[r].items)
                             THEN FirstLabel(call[r].method) ELSE "ok"]
  /\ UNCHANGED at

\* The next item of the list, or the reply after the last one.
NextItem(r) ==
  IF at[r] < Len(call[r].items)
  THEN /\ at' = [at EXCEPT ![r] = @ + 1]
       /\ pc' = [pc EXCEPT ![r] = FirstLabel(call[r].method)]
  ELSE /\ pc' = [pc EXCEPT ![r] = "ok"]
       /\ UNCHANGED at

Goto(r, label) == pc' = [pc EXCEPT ![r] = label] /\ UNCHANGED at

\* The item is done and the request ends with an error all the same.
DoneButFails(r) ==
  /\ at' = [at EXCEPT ![r] = @ + 1]
  /\ pc' = [pc EXCEPT ![r] = "error"]

\* The methods that take a single parameter.
Single == {"UploadCourseRecord", "changeMeta", "handleStars", "handleImport"}

\* A request arrives.  The tail of handleImport follows the INSERT of its own
\* course, so the course is there; the lists of the others hold any ids.
Receive(r) ==
  /\ pc[r] = "idle"
  /\ \E m \in Methods, p \in Pids, n \in 0..MaxItems : \E list \in [1..n -> Items] :
       /\ m \in Single => n = 1
       /\ m = "RateCustomRanking" => \A i \in 1..n : list[i].val >= 0
       /\ m = "handleImport" => stage[list[1].id] \in {"published", "withdrawn"}
       /\ call' = [call EXCEPT ![r] = [method |-> m, pid |-> p, items |-> list]]
       /\ pc' = [pc EXCEPT ![r] = IF n = 0 THEN "ok" ELSE FirstLabel(m)]
  /\ UNCHANGED <<objects, tables, at>>
-----------------------------------------------------------------------------
(* The checks before a write, each a statement of its own.                 *)

\* Fault: whoever may rate an object may write to its queue, a maker's too.
InfoFault(r) ==
  /\ pc[r] = "info"
  /\ LET id == ItemOf(r).id
         mayGo == call[r].method = "AddToBufferQueues" \/ Permitted(id, call[r].pid)
     IN Goto(r, IF ~IsObjectAvailable(id) \/ ~mayGo THEN "error"
                ELSE IF call[r].method = "AddToBufferQueues" THEN "check" ELSE "write")
  /\ UNCHANGED <<objects, tables, call>>

\* GetObjectInfoByDataID and who may go on: anybody who is permitted may rate
\* or change an object, and only the owner may write to slot 0 of a maker (the
\* other slots begin with the next check).
Info(r) ==
  /\ pc[r] = "info"
  /\ LET id == ItemOf(r).id
         mayGo == IF call[r].method = "AddToBufferQueues"
                  THEN id \in maker => call[r].pid = owner[id]
                  ELSE Permitted(id, call[r].pid)
     IN Goto(r, IF ~IsObjectAvailable(id) \/ ~mayGo THEN "error"
                ELSE IF call[r].method = "AddToBufferQueues" THEN "check" ELSE "write")
  /\ UNCHANGED <<objects, tables, call>>

\* Fault: stars and records are taken for any id.
CheckFault(r) ==
  /\ pc[r] = "check"
  /\ Goto(r, "write")
  /\ UNCHANGED <<objects, tables, call>>

\* IsObjectAvailable, inside the function that writes.  RateCustomRanking
\* goes on with the next item, the others report the error.
Check(r) ==
  /\ pc[r] = "check"
  /\ IF IsObjectAvailable(ItemOf(r).id) THEN Goto(r, "write")
     ELSE IF call[r].method = "RateCustomRanking" THEN NextItem(r)
     ELSE Goto(r, "error")
  /\ UNCHANGED <<objects, tables, call>>
-----------------------------------------------------------------------------
(* The writes: one INSERT ... ON CONFLICT DO UPDATE or UPDATE each.         *)

\* Fault: the holder is replaced but the score compared the wrong way round.
WriteRecordFault(r) ==
  /\ pc[r] = "write" /\ call[r].method = "UploadCourseRecord"
  /\ LET id == ItemOf(r).id  pid == call[r].pid  score == ItemOf(r).val IN
     records' = [records EXCEPT ![id] =
       IF @ = NoRow THEN [first |-> pid, best |-> pid, score |-> score]
       ELSE IF @.score < score THEN [first |-> @.first, best |-> pid, score |-> score]
       ELSE @]
  /\ Goto(r, "ok")
  /\ UNCHANGED <<objects, stars, ratings, queue, call>>

\* InsertOrUpdateCourseRecord; the row read back afterwards is only logged.
WriteRecord(r) ==
  /\ pc[r] = "write" /\ call[r].method = "UploadCourseRecord"
  /\ LET id == ItemOf(r).id  pid == call[r].pid  score == ItemOf(r).val IN
     records' = [records EXCEPT ![id] =
       IF @ = NoRow THEN [first |-> pid, best |-> pid, score |-> score]
       ELSE IF @.score > score THEN [first |-> @.first, best |-> pid, score |-> score]
       ELSE @]
  /\ Goto(r, "ok")
  /\ UNCHANGED <<objects, stars, ratings, queue, call>>

\* InsertOrUpdateCustomRanking and AdminAddStars, which adds without a check.
WriteStars(r) ==
  /\ pc[r] = "write" /\ call[r].method \in {"RateCustomRanking", "handleStars"}
  /\ stars' = [stars EXCEPT ![ItemOf(r).id] =
                 IF @ = NoRow THEN ItemOf(r).val ELSE @ + ItemOf(r).val]
  /\ NextItem(r)
  /\ UNCHANGED <<objects, records, ratings, queue, call>>

\* Fault: the count stays behind the total.
WriteRatingFault(r) ==
  /\ pc[r] = "write" /\ call[r].method = "rateObjects"
  /\ ratings' = [ratings EXCEPT ![ItemOf(r).id] =
       IF @ = NoRow THEN NoRow ELSE [@ EXCEPT !.total = @ + ItemOf(r).val]]
  /\ NextItem(r)
  /\ UNCHANGED <<objects, records, stars, queue, call>>

\* RateObjectWithPassword: an UPDATE, without effect where there is no row.  The
\* row read back afterwards only serves the reply, but its error is reported.
WriteRating(r) ==
  /\ pc[r] = "write" /\ call[r].method = "rateObjects"
  /\ ratings' = [ratings EXCEPT ![ItemOf(r).id] =
       IF @ = NoRow THEN NoRow
       ELSE [total |-> @.total + ItemOf(r).val, count |-> @.count + 1]]
  /\ NextItem(r) \/ DoneButFails(r)
  /\ UNCHANGED <<objects, records, stars, queue, call>>

\* InsertOrUpdateBufferQueueData: a buffer that is there gets a new date.
WriteBuffer(r) ==
  /\ pc[r] = "write" /\ call[r].method = "AddToBufferQueues"
  /\ queue' = [queue EXCEPT ![ItemOf(r).id] =
       {e \in @ : e.val # ItemOf(r).val} \cup {[by |-> call[r].pid, val |-> ItemOf(r).val]}]
  /\ NextItem(r)
  /\ UNCHANGED <<objects, records, stars, ratings, call>>

\* changeMeta sets the data type (the period and the meta binary are opaque).
WriteMeta(r) ==
  /\ pc[r] = "write" /\ call[r].method = "changeMeta"
  /\ maker' = IF ItemOf(r).val = 1 THEN maker \cup {ItemOf(r).id}
              ELSE maker \ {ItemOf(r).id}
  /\ Goto(r, "ok")
  /\ UNCHANGED <<stage, owner, review, tables, call>>

\* The end of handleImport sets what the metadata file says, whatever players
\* have sent since the course became visible: AdminSetStars, ...
ImportStars(r) ==
  /\ pc[r] = "stars"
  /\ stars' = [stars EXCEPT ![ItemOf(r).id] = ItemOf(r).val]
  /\ Goto(r, "ratings")
  /\ UNCHANGED <<objects, records, ratings, queue, call>>

\* ... AdminSetCourseRatings (the count of an existing row is kept), ...
ImportRatings(r) ==
  /\ pc[r] = "ratings"
  /\ ratings' = [ratings EXCEPT ![ItemOf(r).id] =
       [total |-> ItemOf(r).val, count |-> IF @ = NoRow THEN 1 ELSE @.count]]
  /\ Goto(r, "record")
  /\ UNCHANGED <<objects, records, stars, queue, call>>

\* Fault: a file without a best time is written as well.
ImportRecordFault(r) ==
  /\ pc[r] = "record"
  /\ \E first, best \in Pids \cup {NoOne} : records' = [records EXCEPT ![ItemOf(r).id] =
       [first |-> first, best |-> best, score |-> ItemOf(r).val]]
  /\ Goto(r, "ok")
  /\ UNCHANGED <<objects, stars, ratings, queue, call>>

\* ... and AdminSetCourseRecord, unless the file has no best time.
ImportRecord(r) ==
  /\ pc[r] = "record"
  /\ \/ UNCHANGED records
     \/ \E first \in Pids \cup {NoOne}, best \in Pids :
          records' = [records EXCEPT ![ItemOf(r).id] =
          [first |-> first, best |-> best, score |-> ItemOf(r).val]]
  /\ Goto(r, "ok")
  /\ UNCHANGED <<objects, stars, ratings, queue, call>>

\* A statement fails.  RateCustomRanking drops the error and handleImport
\* logs it; the others report it.
StatementFails(r) ==
  /\ pc[r] \notin Ended \cup {"idle"}
  /\ \/ call[r].method = "RateCustomRanking" /\ NextItem(r)
     \/ pc[r] = "stars" /\ Goto(r, "ratings")
     \/ pc[r] = "ratings" /\ Goto(r, "record")
     \/ pc[r] = "record" /\ Goto(r, "ok")
     \/ /\ call[r].method \notin {"RateCustomRanking", "handleImport"}
        /\ Goto(r, "error")
  /\ UNCHANGED <<objects, tables, call>>
-----------------------------------------------------------------------------
Step(r) ==
  \/ Info(r) \/ Check(r)
  \/ WriteRecord(r) \/ WriteStars(r) \/ WriteRating(r) \/ WriteBuffer(r)
  \/ WriteMeta(r) \/ ImportStars(r) \/ ImportRatings(r) \/ ImportRecord(r)

ObjectStep ==
  /\ Life!Next
  /\ UNCHANGED <<maker, review, tables, pc, call, at>>

\* A moderator holds an object back or lets it go.
Moderate(id) ==
  /\ stage[id] # "absent"
  /\ review' = IF id \in review THEN review \ {id} ELSE review \cup {id}
  /\ UNCHANGED <<stage, owner, maker, tables, pc, call, at>>

Next ==
  \/ \E r \in Requests : Receive(r) \/ Step(r) \/ StatementFails(r)
  \/ ObjectStep
  \/ \E id \in Reviewable : Moderate(id)

Spec == Init /\ [][Next]_vars

\* The scheduler runs every goroutine and every statement returns.
FairSpec == Spec /\ \A r \in Requests : WF_vars(Step(r) \/ StatementFails(r))
-----------------------------------------------------------------------------
(* Properties                                                              *)

Asked(r, m) == pc[r] # "idle" /\ call[r].method = m
Ok(r, m)    == pc[r] = "ok" /\ call[r].method = m

\* The requests of a kind that name a course, as pairs of request and item.
Mentions(m, id) ==
  {k \in Requests \X (1..MaxItems) :
     /\ Asked(k[1], m) /\ k[2] <= Len(call[k[1]].items)
     /\ call[k[1]].items[k[2]].id = id}

\* No import and no administrator has set the numbers of a course.
PlayersOnly(id) == Mentions("handleImport", id) = {} /\ Mentions("handleStars", id) = {}

\* The record of a course is the best of the results that were accepted, it
\* belongs to a player who sent exactly that result, and the first clear to
\* one who sent some result (InsertOrUpdateCourseRecord), whatever the order
\* of the concurrent uploads.
LeaderboardIsHonest ==
  \A id \in Courses : PlayersOnly(id) =>
    /\ \A r \in Requests :
         Ok(r, "UploadCourseRecord") /\ call[r].items[1].id = id =>
           records[id] # NoRow /\ records[id].score <= call[r].items[1].val
    /\ records[id] # NoRow =>
         /\ \E r \in Requests :
              /\ Asked(r, "UploadCourseRecord") /\ call[r].pid = records[id].best
              /\ call[r].items[1] = [id |-> id, val |-> records[id].score]
         /\ \E r \in Requests :
              /\ Asked(r, "UploadCourseRecord") /\ call[r].pid = records[id].first
              /\ call[r].items[1].id = id

\* Ratings, stars and starred courses are counted once per item: at least the
\* items of the requests that were answered with success, where a slot has a
\* row, and at most those that were sent (rateObjects stops at its first error
\* and leaves the earlier targets rated; RateCustomRanking never reports one).
CountedOnce ==
  \A id \in Courses : PlayersOnly(id) =>
    /\ LET sent == Mentions("rateObjects", id)
           answered == {m \in sent : pc[m[1]] = "ok"}
       IN ratings[id] # NoRow =>
            ratings[id].count \in Cardinality(answered)..Cardinality(sent)
    /\ LET Value(m) == call[m[1]].items[m[2]].val
       IN stars[id] # NoRow =>
            stars[id] <= MapThenSumSet(Value, Mentions("RateCustomRanking", id))
    /\ \A m \in Mentions("AddToBufferQueues", id) : pc[m[1]] = "ok" =>
         Cardinality({e \in queue[id] :
                        e.val = call[m[1]].items[m[2]].val}) = 1

\* There is no foreign key: that players leave no result, star or buffer for
\* an object that was never published rests on a check two statements before
\* the write, while the object moves on.
OnlyOnCourses ==
  \A id \in Courses :
    \/ stage[id] \in {"published", "withdrawn"}
    \/ /\ records[id] = NoRow /\ queue[id] = {}
       /\ stars[id] # NoRow => Mentions("handleStars", id) # {}

\* The list of starred courses of a maker object holds only what its owner
\* sent (AddToBufferQueues), although the data type and the owner are read two
\* statements before the buffer is written: changeMeta is the only way around.
MakerListIsOwners ==
  \A id \in Makers : Mentions("changeMeta", id) = {} =>
    \A e \in queue[id] : e.by = owner[id]

\* Every request is answered, however long its list and whatever fails.
Answered == \A r \in Requests : pc[r] # "idle" ~> pc[r] \in Ended
=============================================================================

------------------------------ MODULE Browsing ------------------------------
(***************************************************************************)
(* The requests that only read: the course lists of the SMM DataStore and  *)
(* of the pickup endpoint, the metadata of objects, their download URLs,   *)
(* and the records and queues of single courses.                           *)
(* Each is a goroutine that puts its reply together from many statements,  *)
(* while the requests of CourseActivity change stars, records and queues,  *)
(* and objects are published and withdrawn.                                *)
(***************************************************************************)
EXTENDS CourseActivity, SequencesExt, Lists

CONSTANTS Browsers,    \* the goroutines; each serves one request
          Caller,      \* of this player
          IdLists, OwnerLists, Lengths,  \* what clients send
          MaxResults, MaxRecommended, PoolSizes, MaxOfOwner  \* limits of the code

\* An entry of a reply; NoRow stands for the empty one.
Shown == [id : Courses, val : Int \cup {NoRow}, record : Record \cup {NoRow}]

\* Data ids are unsigned numbers of 64 bits, so that there are finitely many.
ASSUME BrowsingAssumption ==
  /\ IsFiniteSet(Courses) /\ NoRow \notin Shown
  /\ Caller \in [Browsers -> Pids]
  /\ IdLists \subseteq Seq(Courses) /\ OwnerLists \subseteq Seq(Pids)
  /\ Lengths \subseteq Nat /\ PoolSizes \subseteq Nat
  /\ MaxResults \in Nat \ {0} /\ MaxRecommended \in Nat \ {0} /\ MaxOfOwner \in Nat \ {0}

VARIABLES next,    \* the next statement of a request, or its reply
          ask,     \* its parameters: kind of list, limit, ids, owners, types
          owners,  \* the owners it has yet to query,
          ids,     \* the courses it has yet to read the stars of,
          rows,    \* and those it has yet to look up
          shown,   \* its reply so far
          missed,  \* history: courses left out because a statement failed or a
                   \* moderator held them back meanwhile
          arrival  \* history: the tables when it arrived

browseVars == <<next, ask, owners, ids, rows, shown, missed, arrival>>

\* Lists of a limited number of courses, and all kinds of replies.
PageKinds == {"some", "top"}
StarKinds == PageKinds \cup {"byId", "followings"}
MetaKinds == {"meta", "metas"}
OfIdKinds == MetaKinds \cup {"infos", "byId", "withRecords", "record", "queue"}
Kinds == StarKinds \cup OfIdKinds \cup {"byOwner"}

\* What becomes of an object that cannot be shown: an empty entry, an error
\* instead of the reply, or nothing.
GappedKinds == {"metas", "withRecords"}
StrictKinds == {"meta", "infos", "record", "queue"}
Types == {"maker", "course"}

BrowsingTypeOK ==
  /\ next \in [Browsers -> {"idle", "query", "filter", "rank", "look", "check",
                            "record", "queue", "ok", "error"}]
  /\ \A b \in Browsers :
       /\ ask[b] # NoCall =>
            /\ ask[b].kind \in Kinds /\ ask[b].limit \in Nat
            /\ ask[b].kind = "top" => ask[b].limit \in 1..MaxResults
            /\ ask[b].kind = "byOwner" => ask[b].limit \in 1..MaxOfOwner
       /\ owners[b] \in Seq(Pids) /\ ids[b] \in Seq(Courses) /\ rows[b] \in Seq(Shown)
       /\ shown[b] \in Seq(Shown \cup {NoRow}) /\ missed[b] \subseteq Courses

BrowsingInit ==
  /\ Init
  /\ next = [b \in Browsers |-> "idle"] /\ ask = [b \in Browsers |-> NoCall]
  /\ owners = [b \in Browsers |-> <<>>] /\ ids = [b \in Browsers |-> <<>>]
  /\ rows = [b \in Browsers |-> <<>>] /\ shown = [b \in Browsers |-> <<>>]
  /\ missed = [b \in Browsers |-> {}] /\ arrival = [b \in Browsers |-> NoCall]

EntryOf(id) == [id |-> id, val |-> NoRow, record |-> NoRow]
EntriesOf(list) == [i \in DOMAIN list |-> EntryOf(list[i])]
IdsOf(list) == {list[i].id : i \in {j \in DOMAIN list : list[j] # NoRow}}
-----------------------------------------------------------------------------
(* The handlers                                                            *)

\* A request arrives; a list without elements is answered at once.
Begin(b, kind, limit, list, people, types, label) ==
  /\ next[b] = "idle"
  /\ ask' = [ask EXCEPT ![b] = [kind |-> kind, limit |-> limit, ids |-> list,
                                owners |-> people, types |-> types]]
  /\ owners' = [owners EXCEPT ![b] = people]
  /\ ids' = [ids EXCEPT ![b] = IF label = "rank" THEN list ELSE <<>>]
  /\ rows' = [rows EXCEPT ![b] = IF label \in {"look", "check"} THEN EntriesOf(list) ELSE <<>>]
  /\ next' = [next EXCEPT ![b] =
       IF kind \notin PageKinds /\ people = <<>> /\ list = <<>> THEN "ok" ELSE label]
  /\ arrival' = [arrival EXCEPT ![b] =
       [stage |-> stage, stars |-> stars, records |-> records, queue |-> queue, maker |-> maker,
        review |-> review]]
  /\ UNCHANGED <<vars, shown, missed>>

Page(b, kind, limit) == Begin(b, kind, limit, <<>>, <<>>, {}, "query")

OfIds(b, kind, list, label) == Begin(b, kind, 0, list, <<>>, {}, label)

OfOwners(b, kind, limit, types) ==
  \E people \in OwnerLists : Begin(b, kind, limit, <<>>, people, types, "query")

\* Fault: no length is a length too.
ClampedFault(length, max) == IF length <= max THEN length ELSE max

\* A missing or too large length is the server's own.
Clamped(length, max) == IF length \in 1..max THEN length ELSE max

LatestCourseSearchObject(b) ==
  \E length \in Lengths : Page(b, "some", Clamped(length, MaxResults))

BestScoreRateCourseSearchObject(b) ==
  \E length \in Lengths : Page(b, "some", Clamped(length, MaxResults))

RecommendedCourseSearchObject(b) ==
  \E length \in Lengths : Page(b, "some", Clamped(length, MaxRecommended))

\* The length is taken as it is; a length of 0 asks for nothing.
CTRPickUpCourseSearchObject(b) == \E length \in Lengths : Page(b, "some", length)

\* The same, or an invalid argument.
SuggestedCourseSearchObject(b) ==
  \/ \E length \in Lengths : Page(b, "some", length)
  \/ /\ next[b] = "idle" /\ next' = [next EXCEPT ![b] = "error"]
     /\ UNCHANGED <<vars, ask, owners, ids, rows, shown, missed, arrival>>

\* The course pools of the 100 Mario Challenge, over HTTP.
handlePickup(b) == \E size \in PoolSizes : Page(b, "some", size)

GetCustomRanking(b) ==
  \E length \in Lengths : Page(b, "top", Clamped(length, MaxResults))

GetCustomRankingByDataID(b) == \E list \in IdLists : OfIds(b, "byId", list, "rank")

\* Of owners: their courses with stars, or all their objects of some types.
FollowingsLatestCourseSearchObject(b) == OfOwners(b, "followings", 0, {"course"})

GetMetaByOwnerID(b) ==
  \E length \in Lengths, types \in (SUBSET Types) \ {{}} :
    OfOwners(b, "byOwner", Clamped(length, MaxOfOwner), types)

GetMetasWithCourseRecord(b) == \E list \in IdLists : OfIds(b, "withRecords", list, "look")

\* By a data id, or by a persistence target for which the id is looked up
\* first.  The password never changes, and is checked where it is.
getMeta(b) == \E id \in Courses : OfIds(b, "meta", <<id>>, "look")

getMetas(b) == \E list \in IdLists : OfIds(b, "metas", list, "look")

getMetasMultipleParam(b) == \E list \in IdLists : OfIds(b, "metas", list, "look")

GetObjectInfos(b) == \E list \in IdLists : OfIds(b, "infos", list, "look")

GetCourseRecord(b) == \E id \in Courses : OfIds(b, "record", <<id>>, "check")

GetBufferQueue(b) == \E id \in Courses : OfIds(b, "queue", <<id>>, "check")
-----------------------------------------------------------------------------
(* The statements                                                          *)

\* Where a list goes on: with rows, with courses, with owners, or not at all.
Follow(b) ==
  next' = [next EXCEPT ![b] = IF rows'[b] # <<>> THEN "look"
                              ELSE IF ids'[b] # <<>> THEN "rank"
                              ELSE IF owners'[b] # <<>> THEN "query" ELSE "ok"]

Kept == UNCHANGED <<vars, ask, arrival>>

\* The lists without repetition of courses that a SELECT with a limit may
\* return of a set: all when they fit.
Pages(set, limit) ==
  {page \in UNION {[1..n -> set] : n \in 0..limit} :
     /\ \A i, j \in DOMAIN page : i # j => page[i] # page[j]
     /\ Len(page) = limit \/ Len(page) = Cardinality(set)}

Listed == {id \in Courses : IsObjectAvailable(id) /\ stars[id] # NoRow}

\* ORDER BY r.value DESC LIMIT n
TopRanked(page) ==
  /\ \A i, j \in DOMAIN page : i < j => stars[page[i]] >= stars[page[j]]
  /\ \A id \in Listed : id \in ToSet(page) \/ \A i \in DOMAIN page : stars[page[i]] >= stars[id]

\* GetRandomCoursesWithLimit, GetLatestCoursesWithLimit (the model keeps no
\* dates) and GetTopRankedCoursesWithLimit.
QueryPage(b) ==
  /\ next[b] = "query" /\ ask[b].kind \in PageKinds
  /\ \E page \in Pages(Listed, ask[b].limit) :
       /\ ask[b].kind = "top" => TopRanked(page)
       /\ ids' = [ids EXCEPT ![b] = page]
  /\ UNCHANGED <<owners, rows, shown, missed>> /\ Kept /\ Follow(b)

TypeOf(id) == IF id \in maker THEN "maker" ELSE "course"

\* GetUserCourseObjectIDs: every course of the owner, also those that are not
\* available, which are left out one by one ...
QueryCoursesOf(b) ==
  /\ next[b] = "query" /\ ask[b].kind = "followings"
  /\ UNCHANGED <<ids, shown, missed>> /\ Kept
  /\ owners' = [owners EXCEPT ![b] = Tail(@)]
  /\ \E list \in Pages({id \in Courses : owner[id] = Head(owners[b]) /\ TypeOf(id) = "course"},
                       Cardinality(Courses)) :
       /\ rows' = [rows EXCEPT ![b] = EntriesOf(list)]
       /\ IF list # <<>> THEN next' = [next EXCEPT ![b] = "filter"] ELSE Follow(b)

\* ... by IsObjectAvailable.
FilterCourse(b) ==
  /\ next[b] = "filter"
  /\ UNCHANGED <<owners, shown, missed>> /\ Kept
  /\ LET id == Head(rows[b]).id IN
     ids' = IF IsObjectAvailable(id) THEN [ids EXCEPT ![b] = Append(@, id)] ELSE ids
  /\ rows' = [rows EXCEPT ![b] = Tail(@)]
  /\ IF rows'[b] # <<>> THEN UNCHANGED next ELSE Follow(b)

\* GetObjectsByOwnerIDs, one owner.  Its limit counts the objects under review
\* as well, which are left out one by one later.
QueryObjectsOf(b) ==
  /\ next[b] = "query" /\ ask[b].kind = "byOwner"
  /\ owners' = [owners EXCEPT ![b] = Tail(@)]
  /\ \E list \in Pages({id \in Courses : /\ owner[id] = Head(owners[b]) /\ stage[id] = "published"
                                         /\ TypeOf(id) \in ask[b].types},
                       ask[b].limit) :
       rows' = [rows EXCEPT ![b] = EntriesOf(list)]
  /\ UNCHANGED <<ids, shown, missed>> /\ Kept /\ Follow(b)

\* GetCustomRankingsByDataIDs gets the courses of a page one at a time, and
\* other lists at once.
Batch(b) == IF ask[b].kind \in PageKinds THEN <<Head(ids[b])>> ELSE ids[b]

\* A value that does not fit the unsigned score is skipped by Scan.
Readable == {id \in Courses : stars[id] # NoRow /\ stars[id] >= 0}

\* Fault: a page is read in one go after all, and its first course kept.
ReadRanksFault(b) ==
  /\ next[b] = "rank"
  /\ LET list == Only(Batch(b), Readable) IN
     rows' = [rows EXCEPT ![b] = [i \in DOMAIN list |->
                [id |-> list[i], val |-> stars[list[i]], record |-> NoRow]]]
  /\ ids' = [ids EXCEPT ![b] = <<>>]
  /\ UNCHANGED <<owners, shown, missed>> /\ Kept /\ Follow(b)

ReadRanks(b) ==
  /\ next[b] = "rank"
  /\ LET list == Only(Batch(b), Readable) IN
     rows' = [rows EXCEPT ![b] = [i \in DOMAIN list |->
                [id |-> list[i], val |-> stars[list[i]], record |-> NoRow]]]
  /\ ids' = [ids EXCEPT ![b] = SubSeq(@, Len(Batch(b)) + 1, Len(@))]
  /\ UNCHANGED <<owners, shown, missed>> /\ Kept /\ Follow(b)

Show(b, entry) == shown' = [shown EXCEPT ![b] = Append(@, entry)]

\* Fault: the error is dropped.
RefuseFault(b) == UNCHANGED <<next, rows, shown>>

\* The handler returns an error.
Refuse(b) == next' = [next EXCEPT ![b] = "error"] /\ UNCHANGED <<rows, shown>>

\* Fault: an object is shown as it was found.
LookUpFault(b) ==
  /\ next[b] = "look"
  /\ UNCHANGED <<owners, ids, missed>> /\ Kept
  /\ rows' = [rows EXCEPT ![b] = Tail(@)] /\ Follow(b)
  /\ Show(b, Head(rows[b]))

\* Fault: an object that cannot be shown is left out of every reply.
LookUpGapFault(b) ==
  /\ next[b] = "look"
  /\ UNCHANGED <<owners, ids, missed>> /\ Kept
  /\ rows' = [rows EXCEPT ![b] = Tail(@)] /\ Follow(b)
  /\ IF IsObjectAvailable(Head(rows[b]).id) THEN Show(b, Head(rows[b])) ELSE UNCHANGED shown

\* Metadata is shown to those the permission admits.
Visible(b, id) ==
  IsObjectAvailable(id) /\ (ask[b].kind \in MetaKinds => Permitted(id, Caller[b]))

\* GetObjectInfoByDataID, and what the handlers make of an error.
LookUp(b) ==
  /\ next[b] = "look"
  /\ UNCHANGED <<owners, ids, missed>> /\ Kept
  /\ LET entry == Head(rows[b])
         visible == Visible(b, entry.id)
     IN IF visible /\ ask[b].kind = "withRecords"
        THEN next' = [next EXCEPT ![b] = "check"] /\ UNCHANGED <<rows, shown>>
        ELSE IF ~visible /\ ask[b].kind \in StrictKinds THEN Refuse(b)
        ELSE /\ rows' = [rows EXCEPT ![b] = Tail(@)] /\ Follow(b)
             /\ IF visible THEN Show(b, entry)
                ELSE IF ask[b].kind \in GappedKinds THEN Show(b, NoRow)
                ELSE UNCHANGED shown

\* A course of GetMetasWithCourseRecord without a record.
ShowWithout(b) ==
  rows' = [rows EXCEPT ![b] = Tail(@)] /\ Follow(b) /\ Show(b, EntryOf(Head(rows[b]).id))

\* IsObjectAvailable before a record or a queue is read.
CheckCourse(b) ==
  /\ next[b] = "check"
  /\ UNCHANGED <<owners, ids, missed>> /\ Kept
  /\ IF IsObjectAvailable(Head(rows[b]).id)
     THEN /\ next' = [next EXCEPT ![b] = IF ask[b].kind = "queue" THEN "queue" ELSE "record"]
          /\ UNCHANGED <<rows, shown>>
     ELSE IF ask[b].kind = "withRecords" THEN ShowWithout(b) ELSE Refuse(b)

\* GetCourseRecordByDataIDAndSlot.
ReadRecord(b) ==
  /\ next[b] = "record"
  /\ UNCHANGED <<owners, ids, missed>> /\ Kept
  /\ LET id == Head(rows[b]).id IN
     IF records[id] # NoRow
     THEN /\ Show(b, [EntryOf(id) EXCEPT !.record = records[id]])
          /\ rows' = [rows EXCEPT ![b] = Tail(@)] /\ Follow(b)
     ELSE IF ask[b].kind = "withRecords" THEN ShowWithout(b) ELSE Refuse(b)

\* GetBufferQueuesByDataIDAndSlot, by a date that the model does not keep.
ReadQueue(b) ==
  /\ next[b] = "queue"
  /\ LET id == Head(rows[b]).id IN
     \E list \in SetToSeqs({e.val : e \in queue[id]}) :
       shown' = [shown EXCEPT ![b] =
         [i \in DOMAIN list |-> [id |-> id, val |-> list[i], record |-> NoRow]]]
  /\ UNCHANGED <<owners, ids, missed>> /\ Kept
  /\ rows' = [rows EXCEPT ![b] = <<>>] /\ Follow(b)

\* A statement fails while a list is put together: it goes on without the
\* courses concerned ...
SkipFails(b) ==
  \/ /\ next[b] = "query" /\ ask[b].kind = "byOwner"
     /\ missed' = [missed EXCEPT ![b] = @ \cup {id \in Courses : owner[id] = Head(owners[b])}]
     /\ owners' = [owners EXCEPT ![b] = Tail(@)]
     /\ UNCHANGED <<ids, rows, shown>> /\ Follow(b)
  \/ /\ next[b] = "filter"
     /\ missed' = [missed EXCEPT ![b] = @ \cup {Head(rows[b]).id}]
     /\ rows' = [rows EXCEPT ![b] = Tail(@)]
     /\ UNCHANGED <<owners, ids, shown>>
     /\ IF rows'[b] # <<>> THEN UNCHANGED next ELSE Follow(b)
  \/ /\ next[b] = "rank"
     /\ missed' = [missed EXCEPT ![b] = @ \cup ToSet(Batch(b))]
     /\ ids' = [ids EXCEPT ![b] = SubSeq(@, Len(Batch(b)) + 1, Len(@))]
     /\ UNCHANGED <<owners, rows, shown>> /\ Follow(b)
  \/ /\ next[b] = "look" /\ ask[b].kind \notin StrictKinds
     /\ missed' = [missed EXCEPT ![b] = @ \cup {Head(rows[b]).id}]
     /\ rows' = [rows EXCEPT ![b] = Tail(@)]
     /\ IF ask[b].kind \in GappedKinds THEN Show(b, NoRow) ELSE UNCHANGED shown
     /\ UNCHANGED <<owners, ids>> /\ Follow(b)
  \/ /\ next[b] \in {"check", "record"} /\ ask[b].kind = "withRecords"
     /\ missed' = [missed EXCEPT ![b] = @ \cup {Head(rows[b]).id}]
     /\ UNCHANGED <<owners, ids>> /\ ShowWithout(b)

\* ... or the request is answered with an error.
RequestFails(b) ==
  /\ \/ next[b] = "query" /\ ask[b].kind # "byOwner"
     \/ next[b] \in {"look", "check", "record", "queue"} /\ ask[b].kind \in StrictKinds
  /\ Refuse(b) /\ UNCHANGED <<owners, ids, missed>> /\ Kept
-----------------------------------------------------------------------------
Arrive(b) ==
  \/ LatestCourseSearchObject(b) \/ BestScoreRateCourseSearchObject(b)
  \/ RecommendedCourseSearchObject(b) \/ CTRPickUpCourseSearchObject(b)
  \/ SuggestedCourseSearchObject(b) \/ handlePickup(b) \/ GetCustomRanking(b)
  \/ GetCustomRankingByDataID(b) \/ FollowingsLatestCourseSearchObject(b)
  \/ GetMetaByOwnerID(b) \/ GetMetasWithCourseRecord(b)
  \/ getMeta(b) \/ getMetas(b) \/ getMetasMultipleParam(b) \/ GetObjectInfos(b)
  \/ GetCourseRecord(b) \/ GetBufferQueue(b)

Read(b) ==
  \/ QueryPage(b) \/ QueryCoursesOf(b) \/ FilterCourse(b) \/ QueryObjectsOf(b)
  \/ ReadRanks(b) \/ LookUp(b) \/ CheckCourse(b) \/ ReadRecord(b) \/ ReadQueue(b)
  \/ SkipFails(b) /\ Kept
  \/ RequestFails(b)

Reading(b) == next[b] \notin {"idle", "ok", "error"}

\* The rest of the server runs, and moderators may hold courses back.
Elsewhere ==
  /\ Next
  /\ missed' = [b \in Browsers |->
       IF Reading(b) THEN missed[b] \cup (review' \ review) ELSE missed[b]]
  /\ UNCHANGED <<next, ask, owners, ids, rows, shown, arrival>>

BrowsingNext == \/ Elsewhere
                \/ \E b \in Browsers : Arrive(b) \/ Read(b)

BrowsingSpec == BrowsingInit /\ [][BrowsingNext]_<<vars, browseVars>>

\* As for the other requests, every goroutine runs and every statement returns.
BrowsingFairSpec ==
  /\ BrowsingSpec
  /\ \A b \in Browsers : WF_<<vars, browseVars>>(Read(b))
  /\ \A r \in Requests : WF_<<vars, browseVars>>((Step(r) \/ StatementFails(r))
                                                  /\ UNCHANGED browseVars)
-----------------------------------------------------------------------------
(* Properties                                                              *)

\* What a reply shows of a course it had while the request ran, although every
\* part comes from a statement of its own: no course that was withdrawn before
\* the request arrived, no stars, records or buffers from before or after.
ShownIsCurrent ==
  \A b \in Browsers : \A i \in {j \in DOMAIN shown[b] : shown[b][j] # NoRow} :
    LET entry == shown[b][i]
        id == entry.id
        past == arrival[b] IN
      /\ past.stage[id] # "withdrawn" /\ stage[id] \in {"published", "withdrawn"}
      /\ ask[b].kind \in StarKinds /\ PlayersOnly(id) =>
           /\ entry.val <= stars[id]
           /\ past.stars[id] # NoRow => past.stars[id] <= entry.val
      /\ entry.record # NoRow /\ PlayersOnly(id) =>
           /\ records[id].score <= entry.record.score /\ records[id].first = entry.record.first
           /\ past.records[id] # NoRow => entry.record.score <= past.records[id].score
      /\ ask[b].kind = "queue" => \E e \in queue[id] : e.val = entry.val

\* The courses that belong on the reply to a request.
Belongs(b) ==
  LET past == arrival[b]
      ranked == {id \in Courses : past.stars[id] # NoRow /\ PlayersOnly(id)}
      settled == {id \in Courses : Mentions("changeMeta", id) = {}}
      Type(id) == IF id \in past.maker THEN "maker" ELSE "course"
      ofOwners == {id \in settled : /\ owner[id] \in ToSet(ask[b].owners)
                                    /\ Type(id) \in ask[b].types}
  IN {id \in Courses : /\ past.stage[id] = "published" /\ id \notin past.review
                       /\ stage[id] = "published"} \cap
     CASE ask[b].kind \in PageKinds   -> ranked
       [] ask[b].kind = "byId"        -> ranked \cap ToSet(ask[b].ids)
       [] ask[b].kind = "followings"  -> ranked \cap ofOwners
       [] ask[b].kind = "byOwner"     -> ofOwners
       [] ask[b].kind \in MetaKinds   -> {id \in ToSet(ask[b].ids) : Permitted(id, Caller[b])}
       [] ask[b].kind \in {"infos", "withRecords", "record"} -> ToSet(ask[b].ids)
       [] OTHER                       -> {}

\* A reply leaves out no course without reason: one that was there, with its
\* stars, when the request arrived and still is, is shown unless a statement
\* about it failed, it was held back, or the reply has been cut at its limit.  A
\* page is filled by its query; courses that are withdrawn, or whose stars an
\* administrator takes away, before they are looked up leave it shorter, and so
\* do objects under review among those of an owner.  A queue has every buffer
\* that was in it.
NothingIsMissed ==
  \A b \in Browsers : next[b] = "ok" =>
    LET had == IdsOf(shown[b]) \cup missed[b]
        lost == {id \in Courses : \/ stage[id] = "withdrawn"
                                 \/ ~PlayersOnly(id)
                                 \/ (ask[b].kind = "byOwner" /\ id \in arrival[b].review)}
    IN /\ \/ Belongs(b) \subseteq had
          \/ /\ ask[b].kind \in PageKinds \cup {"byOwner"}
             /\ Cardinality(had \cup lost) >= ask[b].limit
       /\ ask[b].kind = "queue" =>
            \A e \in arrival[b].queue[ask[b].ids[1]] :
              \E i \in DOMAIN shown[b] : shown[b][i].val = e.val

\* A client that asks for objects by their ids takes the reply by position:
\* the i-th entry is the i-th object, or empty, whatever failed or was
\* withdrawn on the way.  Only GetCustomRankingByDataID shortens its reply.
ReplyIsAligned ==
  \A b \in {x \in Browsers : ask[x] # NoCall} :
    ask[b].kind \in MetaKinds \cup {"infos", "withRecords"} =>
    /\ \A i \in DOMAIN shown[b] : shown[b][i] # NoRow => shown[b][i].id = ask[b].ids[i]
    /\ next[b] = "ok" => Len(shown[b]) = Len(ask[b].ids)

\* Every request that reads is answered too.
BrowsingAnswered == \A b \in Browsers : next[b] # "idle" ~> next[b] \in {"ok", "error"}
=============================================================================

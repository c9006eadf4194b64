-------------------------- MODULE Browsing_proofs --------------------------
(***************************************************************************)
(* Proofs about Browsing: that a reply to a list of data ids has its       *)
(* entries where the client looks for them (ReplyInv), that it shows what  *)
(* courses had while it was put together (BrowseInv), and that it leaves   *)
(* out none without reason (WholeInv), whatever other requests write and   *)
(* whatever fails meanwhile.                                               *)
(***************************************************************************)
EXTENDS Browsing, CourseActivity_proofs, Lists_proofs

\* The requests for objects by their ids.
AlignedKinds == MetaKinds \cup {"infos", "withRecords"}

Entries == Seq(Shown \cup {NoRow})

\* Every browser has its own cell of the tables of browsers.
CellsOK ==
  /\ DOMAIN next = Browsers /\ DOMAIN ask = Browsers /\ DOMAIN owners = Browsers
  /\ DOMAIN ids = Browsers /\ DOMAIN rows = Browsers /\ DOMAIN shown = Browsers
  /\ DOMAIN missed = Browsers /\ DOMAIN arrival = Browsers

\* The reply so far stands for the first ids, and the rows for the others.
Aligned(list, done, todo) ==
  /\ list \in Seq(Courses) /\ done \in Entries /\ todo \in Seq(Shown)
  /\ Len(done) + Len(todo) = Len(list)
  /\ \A i \in 1..Len(done) : done[i] # NoRow => done[i].id = list[i]
  /\ \A j \in 1..Len(todo) : todo[j].id = list[Len(done) + j]

\* A request for objects by their ids only looks them up.
ReplyOK(b) ==
  /\ next[b] = "idle" => ask[b] = NoCall /\ shown[b] = <<>>
  /\ ask[b] # NoCall /\ ask[b].kind \in AlignedKinds =>
       /\ next[b] \in {"look", "check", "record", "ok", "error"}
       /\ next[b] \in {"check", "record"} => ask[b].kind = "withRecords"
       /\ next[b] \in {"look", "check", "record"} => rows[b] # <<>>
       /\ next[b] = "ok" => rows[b] = <<>>
       /\ owners[b] = <<>> /\ ids[b] = <<>>
       /\ Aligned(ask[b].ids, shown[b], rows[b])

ReplyInv == IInv /\ CellsOK /\ \A b \in Browsers : ReplyOK(b)
-----------------------------------------------------------------------------
\* At first every id of the list has its row.
LEMMA EntriesOfList ==
  ASSUME NEW list \in Seq(Courses)
  PROVE  /\ Aligned(list, <<>>, EntriesOf(list))
         /\ list = <<>> => EntriesOf(list) = <<>>
         /\ list # <<>> => EntriesOf(list) # <<>>
<1>1. Len(list) \in Nat /\ DOMAIN list = 1..Len(list) /\ \A i \in 1..Len(list) : list[i] \in Courses
  BY LenProperties, ElementOfSeq
<1>2. \A id \in Courses : EntryOf(id) \in Shown /\ EntryOf(id).id = id
  BY DEF EntryOf, Shown
<1>3. EntriesOf(list) \in [1..Len(list) -> Shown]
  BY <1>1, <1>2 DEF EntriesOf
<1>4. EntriesOf(list) \in Seq(Shown)
  BY <1>1, <1>3, SeqDef
<1>5. Len(EntriesOf(list)) = Len(list)
  <2> DEFINE n == Len(list)  m == Len(EntriesOf(list))
  <2>1. n \in Nat /\ m \in Nat /\ 1..n = 1..m
    BY <1>1, <1>3, <1>4, LenProperties
  <2> HIDE DEF n, m
  <2>2. n = m
    BY <2>1
  <2> QED
    BY <2>2 DEF n, m
<1>6. \A j \in 1..Len(list) : EntriesOf(list)[j].id = list[j]
  BY <1>1, <1>2 DEF EntriesOf
<1>7. <<>> \in Entries /\ Len(<<>>) = 0
  BY EmptySeq DEF Entries
<1>8. Aligned(list, <<>>, EntriesOf(list))
  BY <1>1, <1>4, <1>5, <1>6, <1>7 DEF Aligned
<1>9. (list = <<>> <=> Len(list) = 0) /\ (EntriesOf(list) = <<>> <=> Len(EntriesOf(list)) = 0)
  BY <1>4, EmptySeq
<1> QED
  BY <1>5, <1>8, <1>9

\* An entry for the head of the rows, or an empty one, keeps the reply aligned.
LEMMA NextEntry ==
  ASSUME NEW list, NEW done, NEW todo, Aligned(list, done, todo), todo # <<>>,
         NEW entry \in Shown \cup {NoRow}, entry # NoRow => entry.id = Head(todo).id
  PROVE  Aligned(list, Append(done, entry), Tail(todo))
<1>1. /\ done \in Entries /\ todo \in Seq(Shown) /\ list \in Seq(Courses)
      /\ Len(done) \in Nat /\ Len(todo) \in Nat /\ Len(list) \in Nat
      /\ Len(done) + Len(todo) = Len(list)
  BY LenProperties DEF Aligned, Entries
<1>2. /\ Append(done, entry) \in Entries /\ Len(Append(done, entry)) = Len(done) + 1
      /\ \A i \in 1..Len(done) : Append(done, entry)[i] = done[i]
      /\ Append(done, entry)[Len(done) + 1] = entry
  BY <1>1, AppendProperties DEF Entries
<1>3. /\ Tail(todo) \in Seq(Shown) /\ Len(Tail(todo)) = Len(todo) - 1 /\ Len(todo) # 0
      /\ \A j \in 1..Len(Tail(todo)) : Tail(todo)[j] = todo[j + 1]
      /\ Head(todo) = todo[1]
  BY <1>1, HeadTailProperties, EmptySeq
<1>4. /\ \A i \in 1..Len(done) : done[i] # NoRow => done[i].id = list[i]
      /\ \A j \in 1..Len(todo) : todo[j].id = list[Len(done) + j]
  BY DEF Aligned
<1>5. entry # NoRow => entry.id = list[Len(done) + 1]
  BY <1>1, <1>3, <1>4
<1>6. \A i \in 1..(Len(done) + 1) :
        Append(done, entry)[i] # NoRow => Append(done, entry)[i].id = list[i]
  <2> SUFFICES ASSUME NEW i \in 1..(Len(done) + 1), Append(done, entry)[i] # NoRow
               PROVE  Append(done, entry)[i].id = list[i]
    OBVIOUS
  <2>1. i \in 1..Len(done) \/ i = Len(done) + 1
    BY <1>1
  <2> QED
    BY <1>2, <1>4, <1>5, <2>1
<1>7. \A j \in 1..(Len(todo) - 1) : Tail(todo)[j].id = list[Len(done) + 1 + j]
  <2> SUFFICES ASSUME NEW j \in 1..(Len(todo) - 1)
               PROVE  Tail(todo)[j].id = list[Len(done) + 1 + j]
    OBVIOUS
  <2>1. Tail(todo)[j] = todo[j + 1] /\ j + 1 \in 1..Len(todo)
    BY <1>1, <1>3
  <2>2. todo[j + 1].id = list[Len(done) + (j + 1)]
    BY <1>4, <2>1
  <2>3. Len(done) + (j + 1) = Len(done) + 1 + j
    BY <1>1
  <2> QED
    BY <2>1, <2>2, <2>3
<1> QED
  BY <1>1, <1>2, <1>3, <1>6, <1>7 DEF Aligned
-----------------------------------------------------------------------------
\* A browser that does not move keeps its reply.
LEMMA SameReply ==
  ASSUME NEW b \in Browsers, ReplyOK(b),
         UNCHANGED <<next[b], ask[b], owners[b], ids[b], rows[b], shown[b]>>
  PROVE  ReplyOK(b)'
BY DEF ReplyOK

\* A request for objects by their ids begins with a row for each.
LEMMA BeginOK ==
  ASSUME CellsOK, NEW b \in Browsers, ReplyOK(b), NEW kind, NEW limit, NEW list, NEW people,
         NEW types, NEW label, Begin(b, kind, limit, list, people, types, label),
         label # "idle",
         kind \in AlignedKinds => label = "look" /\ people = <<>> /\ list \in Seq(Courses)
  PROVE  CellsOK' /\ ReplyOK(b)' /\ UNCHANGED vars
         /\ \A c \in Browsers \ {b} : ReplyOK(c) => ReplyOK(c)'
<1>1. CellsOK' /\ UNCHANGED vars
  BY DEF CellsOK, Begin
<1>2. /\ ask'[b].kind = kind /\ ask'[b].ids = list /\ owners'[b] = people /\ shown'[b] = shown[b]
      /\ next'[b] = IF kind \notin PageKinds /\ people = <<>> /\ list = <<>> THEN "ok" ELSE label
      /\ ids'[b] = IF label = "rank" THEN list ELSE <<>>
      /\ rows'[b] = IF label \in {"look", "check"} THEN EntriesOf(list) ELSE <<>>
      /\ next[b] = "idle"
  BY DEF CellsOK, Begin
<1>3. shown[b] = <<>>
  BY <1>2 DEF ReplyOK
<1>4. ReplyOK(b)'
  <2>1. next'[b] # "idle"
    BY <1>2
  <2>2. CASE kind \in AlignedKinds
    <3>1. /\ kind \notin PageKinds /\ label = "look" /\ people = <<>> /\ list \in Seq(Courses)
      BY <2>2 DEF AlignedKinds, MetaKinds, PageKinds
    <3>2. /\ owners'[b] = <<>> /\ ids'[b] = <<>> /\ rows'[b] = EntriesOf(list)
          /\ next'[b] = IF list = <<>> THEN "ok" ELSE "look"
      BY <1>2, <3>1
    <3> QED
      BY <1>2, <1>3, <2>1, <3>1, <3>2, EntriesOfList DEF ReplyOK
  <2>3. CASE kind \notin AlignedKinds
    BY <1>2, <2>1, <2>3 DEF ReplyOK
  <2> QED
    BY <2>2, <2>3
<1>5. \A c \in Browsers \ {b} : ReplyOK(c) => ReplyOK(c)'
  <2> SUFFICES ASSUME NEW c \in Browsers \ {b}, ReplyOK(c) PROVE ReplyOK(c)'
    OBVIOUS
  <2>1. UNCHANGED <<next[c], ask[c], owners[c], ids[c], rows[c], shown[c]>>
    BY DEF CellsOK, Begin
  <2> QED
    BY <2>1, SameReply
<1> QED
  BY <1>1, <1>4, <1>5

\* A step of the browsers that keeps the other tables and every reply aligned.
RepliesKept == CellsOK' /\ (\A c \in Browsers : ReplyOK(c)') /\ UNCHANGED vars

\* The beginnings of a request.
LEMMA BeginKeeps ==
  ASSUME ReplyInv, NEW b \in Browsers, NEW kind, NEW limit, NEW list, NEW people,
         NEW types, NEW label, Begin(b, kind, limit, list, people, types, label),
         label # "idle",
         kind \in AlignedKinds => label = "look" /\ people = <<>> /\ list \in Seq(Courses)
  PROVE  RepliesKept
<1>1. CellsOK /\ (\A c \in Browsers : ReplyOK(c))
  BY DEF ReplyInv
<1>2. CellsOK' /\ ReplyOK(b)' /\ UNCHANGED vars
      /\ \A c \in Browsers \ {b} : ReplyOK(c) => ReplyOK(c)'
  BY <1>1, BeginOK
<1> QED
  BY <1>1, <1>2 DEF RepliesKept

\* A page, the lists of owners and the lists of single courses are not aligned.
LEMMA ArriveOther ==
  ASSUME ReplyInv, NEW b \in Browsers
  PROVE  /\ \A kind \in PageKinds : \A limit : Page(b, kind, limit) => RepliesKept
         /\ \A kind \in {"followings", "byOwner"} : \A limit, types :
              OfOwners(b, kind, limit, types) => RepliesKept
         /\ \A kind \in Kinds \ AlignedKinds : \A list, label :
              OfIds(b, kind, list, label) /\ label # "idle" => RepliesKept
         /\ \A kind \in AlignedKinds, list \in Seq(Courses) :
              OfIds(b, kind, list, "look") => RepliesKept
<1>1. ASSUME NEW kind \in PageKinds, NEW limit, Page(b, kind, limit) PROVE RepliesKept
  <2>1. kind \notin AlignedKinds
    BY DEF PageKinds, AlignedKinds, MetaKinds
  <2> QED
    BY <1>1, <2>1, BeginKeeps DEF Page
<1>2. ASSUME NEW kind \in {"followings", "byOwner"}, NEW limit, NEW types,
             OfOwners(b, kind, limit, types)
      PROVE  RepliesKept
  <2>1. kind \notin AlignedKinds
    BY DEF AlignedKinds, MetaKinds
  <2>2. PICK people \in OwnerLists : Begin(b, kind, limit, <<>>, people, types, "query")
    BY <1>2 DEF OfOwners
  <2> QED
    BY <2>1, <2>2, BeginKeeps
<1>3. ASSUME NEW kind \in Kinds \ AlignedKinds, NEW list, NEW label, label # "idle",
             OfIds(b, kind, list, label)
      PROVE  RepliesKept
  <2>1. Begin(b, kind, 0, list, <<>>, {}, label) /\ kind \notin AlignedKinds
    BY <1>3 DEF OfIds
  <2> QED
    BY <1>3, <2>1, BeginKeeps
<1>4. ASSUME NEW kind \in AlignedKinds, NEW list \in Seq(Courses), OfIds(b, kind, list, "look")
      PROVE  RepliesKept
  <2>1. Begin(b, kind, 0, list, <<>>, {}, "look") /\ "look" # "idle"
    BY <1>4 DEF OfIds
  <2> QED
    BY <1>4, <2>1, BeginKeeps
<1> QED
  BY <1>1, <1>2, <1>3, <1>4

\* Every request that arrives begins so, or is refused at once.
LEMMA ArriveOK ==
  ASSUME ReplyInv, NEW b \in Browsers, Arrive(b)
  PROVE  RepliesKept
<1>0. CellsOK /\ (\A c \in Browsers : ReplyOK(c))
  BY DEF ReplyInv
<1>1. \A kind \in PageKinds : \A limit : Page(b, kind, limit) => RepliesKept
  BY ArriveOther
<1>2. \A kind \in {"followings", "byOwner"} : \A limit, types :
        OfOwners(b, kind, limit, types) => RepliesKept
  BY ArriveOther
<1>3. \A kind \in {"byId", "record", "queue"} : \A list, label :
        OfIds(b, kind, list, label) /\ label # "idle" => RepliesKept
  <2>1. {"byId", "record", "queue"} \subseteq Kinds \ AlignedKinds
    BY DEF Kinds, OfIdKinds, StarKinds, PageKinds, MetaKinds, AlignedKinds
  <2>2. \A kind \in Kinds \ AlignedKinds : \A list, label :
          OfIds(b, kind, list, label) /\ label # "idle" => RepliesKept
    BY ArriveOther
  <2> QED
    BY <2>1, <2>2
<1>4. \A kind \in AlignedKinds, list \in Seq(Courses) : OfIds(b, kind, list, "look") => RepliesKept
  BY ArriveOther
<1>5. "some" \in PageKinds /\ "top" \in PageKinds
  BY DEF PageKinds
<1>6. CASE \/ LatestCourseSearchObject(b) \/ BestScoreRateCourseSearchObject(b)
           \/ RecommendedCourseSearchObject(b) \/ CTRPickUpCourseSearchObject(b)
           \/ handlePickup(b) \/ GetCustomRanking(b)
  BY <1>1, <1>5, <1>6 DEF LatestCourseSearchObject, BestScoreRateCourseSearchObject,
     RecommendedCourseSearchObject, CTRPickUpCourseSearchObject, handlePickup,
     GetCustomRanking
<1>7. CASE SuggestedCourseSearchObject(b)
  <2>1. CASE \E length \in Lengths : Page(b, "some", length)
    BY <1>1, <1>5, <2>1
  <2>2. CASE /\ next[b] = "idle" /\ next' = [next EXCEPT ![b] = "error"]
             /\ UNCHANGED <<vars, ask, owners, ids, rows, shown, missed, arrival>>
    <3>1. CellsOK' /\ UNCHANGED vars
      BY <1>0, <2>2 DEF CellsOK
    <3>2. next'[b] = "error" /\ ask'[b] = NoCall
      BY <1>0, <2>2 DEF CellsOK, ReplyOK
    <3>3. ReplyOK(b)'
      BY <3>2 DEF ReplyOK
    <3>4. ASSUME NEW c \in Browsers, c # b PROVE ReplyOK(c)'
      <4>1. UNCHANGED <<next[c], ask[c], owners[c], ids[c], rows[c], shown[c]>>
        BY <1>0, <2>2, <3>4 DEF CellsOK
      <4> QED
        BY <1>0, <4>1, SameReply
    <3> QED
      BY <3>1, <3>3, <3>4 DEF RepliesKept
  <2> QED
    BY <1>7, <2>1, <2>2 DEF SuggestedCourseSearchObject
<1>8. CASE FollowingsLatestCourseSearchObject(b) \/ GetMetaByOwnerID(b)
  BY <1>2, <1>8 DEF FollowingsLatestCourseSearchObject, GetMetaByOwnerID
<1>9. CASE GetCustomRankingByDataID(b) \/ GetCourseRecord(b) \/ GetBufferQueue(b)
  BY <1>3, <1>9 DEF GetCustomRankingByDataID, GetCourseRecord, GetBufferQueue
<1>10. CASE \/ GetMetasWithCourseRecord(b) \/ getMetas(b) \/ getMetasMultipleParam(b)
            \/ GetObjectInfos(b)
  <2>1. PICK kind \in {"withRecords", "metas", "infos"}, list \in IdLists :
          OfIds(b, kind, list, "look")
    BY <1>10 DEF GetMetasWithCourseRecord, getMetas, getMetasMultipleParam, GetObjectInfos
  <2>2. list \in Seq(Courses) /\ kind \in AlignedKinds
    BY BrowsingAssumption DEF AlignedKinds, MetaKinds
  <2> QED
    BY <1>4, <2>1, <2>2
<1>11. CASE getMeta(b)
  <2>1. PICK id \in Courses : OfIds(b, "meta", <<id>>, "look")
    BY <1>11 DEF getMeta
  <2>2. <<id>> \in Seq(Courses) /\ "meta" \in AlignedKinds
    BY DEF AlignedKinds, MetaKinds
  <2> QED
    BY <1>4, <2>1, <2>2
<1> QED
  BY <1>6, <1>7, <1>8, <1>9, <1>10, <1>11 DEF Arrive
-----------------------------------------------------------------------------
\* A statement of a request touches its own cells only, and starts no request.
OwnCells(b) ==
  /\ CellsOK' /\ UNCHANGED <<vars, ask, arrival>> /\ next'[b] # "idle"
  /\ Reading(b) /\ missed[b] \subseteq missed'[b]
  /\ \A c \in Browsers \ {b} :
       UNCHANGED <<next[c], ask[c], owners[c], ids[c], rows[c], shown[c], missed[c]>>

LEMMA ReadIsOwn ==
  ASSUME CellsOK, NEW b \in Browsers, Read(b)
  PROVE  OwnCells(b)
<1> USE DEF OwnCells, CellsOK, Kept, Follow, Reading
<1>1. CASE QueryPage(b)
  BY <1>1 DEF QueryPage
<1>2. CASE QueryCoursesOf(b)
  BY <1>2 DEF QueryCoursesOf
<1>3. CASE FilterCourse(b)
  BY <1>3 DEF FilterCourse
<1>4. CASE QueryObjectsOf(b)
  BY <1>4 DEF QueryObjectsOf
<1>5. CASE ReadRanks(b)
  BY <1>5 DEF ReadRanks
<1>6. CASE LookUp(b)
  BY <1>6 DEF LookUp, Show, Refuse
<1>7. CASE CheckCourse(b)
  BY <1>7 DEF CheckCourse, ShowWithout, Show, Refuse
<1>8. CASE ReadRecord(b)
  BY <1>8 DEF ReadRecord, ShowWithout, Show, Refuse
<1>9. CASE ReadQueue(b)
  BY <1>9 DEF ReadQueue
<1>10. CASE SkipFails(b) /\ Kept
  BY <1>10 DEF SkipFails, ShowWithout, Show
<1>11. CASE RequestFails(b)
  BY <1>11 DEF RequestFails, Refuse
<1> QED
  BY <1>1, <1>2, <1>3, <1>4, <1>5, <1>6, <1>7, <1>8, <1>9, <1>10, <1>11 DEF Read

\* A request for objects by their ids that has not been answered.
Open(b) ==
  /\ ask[b] # NoCall /\ ask[b].kind \in AlignedKinds /\ rows[b] # <<>>
  /\ owners[b] = <<>> /\ ids[b] = <<>> /\ Aligned(ask[b].ids, shown[b], rows[b])

\* An entry for the row at the head leads to the next row, or to the reply.
LEMMA EntryDone ==
  ASSUME CellsOK, NEW b \in Browsers, OwnCells(b), Open(b),
         NEW entry \in Shown \cup {NoRow}, entry # NoRow => entry.id = Head(rows[b]).id,
         rows' = [rows EXCEPT ![b] = Tail(@)], Follow(b), Show(b, entry),
         UNCHANGED <<owners, ids>>
  PROVE  ReplyOK(b)'
<1>1. Aligned(ask[b].ids, Append(shown[b], entry), Tail(rows[b]))
  BY NextEntry DEF Open
<1>2. /\ ask'[b] = ask[b] /\ rows'[b] = Tail(rows[b]) /\ shown'[b] = Append(shown[b], entry)
      /\ owners'[b] = <<>> /\ ids'[b] = <<>>
  BY DEF CellsOK, OwnCells, Open, Show
<1>3. /\ next'[b] \in {"look", "ok"}
      /\ next'[b] = "look" <=> rows'[b] # <<>>
  BY <1>2 DEF CellsOK, Follow
<1> QED
  BY <1>1, <1>2, <1>3 DEF ReplyOK

\* A request that goes on with the same row, or is refused, keeps its reply.
LEMMA RowKept ==
  ASSUME CellsOK, NEW b \in Browsers, OwnCells(b), Open(b),
         next'[b] \in {"check", "record", "error"},
         next'[b] # "error" => ask[b].kind = "withRecords",
         UNCHANGED <<owners, ids, rows, shown>>
  PROVE  ReplyOK(b)'
BY DEF OwnCells, Open, ReplyOK

\* The entries shown for an id are entries.
LEMMA EntriesTyped ==
  ASSUME NEW b \in Browsers, Open(b), TypeOK
  PROVE  LET row == Head(rows[b]) IN
         /\ row \in Shown /\ EntryOf(row.id) \in Shown /\ EntryOf(row.id).id = row.id
         /\ [EntryOf(row.id) EXCEPT !.record = records[row.id]] \in Shown
         /\ [EntryOf(row.id) EXCEPT !.record = records[row.id]].id = row.id
<1> DEFINE row == Head(rows[b])
<1>1. row \in Shown
  BY HeadTailProperties DEF Open, Aligned
<1>2. row.id \in Courses
  BY <1>1 DEF Shown
<1> HIDE DEF row
<1>3. records[row.id] \in Record \cup {NoRow}
  BY <1>2 DEF TypeOK
<1>4. EntryOf(row.id) \in Shown /\ EntryOf(row.id).id = row.id
  BY <1>2 DEF EntryOf, Shown
<1>5. [EntryOf(row.id) EXCEPT !.record = records[row.id]]
        = [id |-> row.id, val |-> NoRow, record |-> records[row.id]]
  BY DEF EntryOf
<1>6. [id |-> row.id, val |-> NoRow, record |-> records[row.id]] \in Shown
  BY <1>2, <1>3 DEF Shown
<1> QED
  BY <1>1, <1>4, <1>5, <1>6 DEF row

\* The statements of such a request.
LEMMA OpenRead ==
  ASSUME ReplyInv, NEW b \in Browsers, Read(b), OwnCells(b),
         ask[b] # NoCall, ask[b].kind \in AlignedKinds
  PROVE  ReplyOK(b)'
<1> DEFINE row == Head(rows[b])
           found == [EntryOf(row.id) EXCEPT !.record = records[row.id]]
<1>1. CellsOK /\ ReplyOK(b) /\ TypeOK
  BY DEF ReplyInv, IInv
<1>2. /\ next[b] \in {"look", "check", "record", "ok", "error"}
      /\ next[b] \in {"check", "record"} => ask[b].kind = "withRecords"
      /\ next[b] \in {"look", "check", "record"} => Open(b)
  BY <1>1 DEF ReplyOK, Open
<1>3. ask[b].kind # "queue" /\ ask[b].kind # "byOwner"
  BY DEF AlignedKinds, MetaKinds
<1>4. Open(b) => /\ row \in Shown /\ EntryOf(row.id) \in Shown /\ EntryOf(row.id).id = row.id
                 /\ found \in Shown /\ found.id = row.id
  BY <1>1, EntriesTyped
<1> HIDE DEF found
<1>5. CASE LookUp(b)
  <2>1. Open(b) /\ UNCHANGED <<owners, ids>>
    BY <1>2, <1>5 DEF LookUp
  <2>2. CASE next'[b] \in {"check", "error"} /\ UNCHANGED <<rows, shown>>
             /\ (next'[b] # "error" => ask[b].kind = "withRecords")
    BY <1>1, <2>1, <2>2, RowKept
  <2>3. CASE /\ rows' = [rows EXCEPT ![b] = Tail(@)] /\ Follow(b)
             /\ Show(b, row) \/ Show(b, NoRow)
    BY <1>1, <1>4, <2>1, <2>3, EntryDone
  <2>4. ask[b].kind \in GappedKinds \/ ask[b].kind \in StrictKinds
    BY DEF AlignedKinds, MetaKinds, GappedKinds, StrictKinds
  <2> QED
    BY <1>1, <1>5, <2>2, <2>3, <2>4 DEF LookUp, Refuse, CellsOK
<1>6. CASE CheckCourse(b)
  <2>1. Open(b) /\ UNCHANGED <<owners, ids>> /\ ask[b].kind = "withRecords"
    BY <1>2, <1>6 DEF CheckCourse
  <2>2. CASE next'[b] = "record" /\ UNCHANGED <<rows, shown>>
    BY <1>1, <2>1, <2>2, RowKept
  <2>3. CASE ShowWithout(b)
    BY <1>1, <1>4, <2>1, <2>3, EntryDone DEF ShowWithout
  <2> QED
    BY <1>1, <1>3, <1>6, <2>1, <2>2, <2>3 DEF CheckCourse, CellsOK
<1>7. CASE ReadRecord(b)
  <2>1. Open(b) /\ UNCHANGED <<owners, ids>> /\ ask[b].kind = "withRecords"
    BY <1>2, <1>7 DEF ReadRecord
  <2>2. CASE Show(b, found) /\ rows' = [rows EXCEPT ![b] = Tail(@)] /\ Follow(b)
    BY <1>1, <1>4, <2>1, <2>2, EntryDone
  <2>3. CASE ShowWithout(b)
    BY <1>1, <1>4, <2>1, <2>3, EntryDone DEF ShowWithout
  <2> QED
    BY <1>7, <2>1, <2>2, <2>3 DEF ReadRecord, found
<1>8. CASE SkipFails(b)
  <2>1. \/ next[b] = "look" /\ ask[b].kind \notin StrictKinds
        \/ next[b] \in {"check", "record"}
    BY <1>2, <1>3, <1>8 DEF SkipFails
  <2>2. Open(b) /\ UNCHANGED <<owners, ids>>
    BY <1>2, <1>8, <2>1 DEF SkipFails
  <2>3. CASE next[b] = "look"
    <3>1. ask[b].kind \in GappedKinds
      BY <2>1, <2>3 DEF AlignedKinds, MetaKinds, GappedKinds, StrictKinds
    <3>2. rows' = [rows EXCEPT ![b] = Tail(@)] /\ Follow(b) /\ Show(b, NoRow)
      BY <1>8, <2>3, <3>1 DEF SkipFails
    <3> QED
      BY <1>1, <2>2, <3>2, EntryDone
  <2>4. CASE next[b] \in {"check", "record"}
    <3>1. ShowWithout(b)
      BY <1>8, <2>4 DEF SkipFails
    <3> QED
      BY <1>1, <1>4, <2>2, <3>1, EntryDone DEF ShowWithout
  <2> QED
    BY <2>1, <2>3, <2>4
<1>9. CASE RequestFails(b)
  <2>1. next'[b] = "error" /\ UNCHANGED <<owners, ids, rows, shown>>
    BY <1>1, <1>9 DEF RequestFails, Refuse, CellsOK
  <2>2. Open(b)
    BY <1>2, <1>9 DEF RequestFails
  <2> QED
    BY <1>1, <2>1, <2>2, RowKept
<1>10. ~QueryPage(b) /\ ~QueryCoursesOf(b) /\ ~FilterCourse(b) /\ ~QueryObjectsOf(b)
       /\ ~ReadRanks(b) /\ ~ReadQueue(b)
  BY <1>2 DEF QueryPage, QueryCoursesOf, FilterCourse, QueryObjectsOf, ReadRanks, ReadQueue
<1> QED
  BY <1>5, <1>6, <1>7, <1>8, <1>9, <1>10 DEF Read

LEMMA ReadOK ==
  ASSUME ReplyInv, NEW b \in Browsers, Read(b)
  PROVE  RepliesKept
<1>1. CellsOK /\ (\A c \in Browsers : ReplyOK(c))
  BY DEF ReplyInv
<1>2. OwnCells(b)
  BY <1>1, ReadIsOwn
<1>3. ReplyOK(b)'
  <2>1. CASE ask[b] # NoCall /\ ask[b].kind \in AlignedKinds
    BY <1>2, <2>1, OpenRead
  <2>2. CASE ~(ask[b] # NoCall /\ ask[b].kind \in AlignedKinds)
    BY <1>2, <2>2 DEF OwnCells, ReplyOK
  <2> QED
    BY <2>1, <2>2
<1>4. ASSUME NEW c \in Browsers, c # b PROVE ReplyOK(c)'
  <2>1. UNCHANGED <<next[c], ask[c], owners[c], ids[c], rows[c], shown[c]>>
    BY <1>2, <1>4 DEF OwnCells
  <2> QED
    BY <1>1, <2>1, SameReply
<1> QED
  BY <1>2, <1>3, <1>4 DEF OwnCells, RepliesKept
-----------------------------------------------------------------------------
LEMMA BrowsingInitOK == BrowsingInit => ReplyInv
<1> SUFFICES ASSUME BrowsingInit PROVE ReplyInv
  OBVIOUS
<1>1. IInv
  BY InitOK DEF BrowsingInit
<1>2. CellsOK
  BY DEF BrowsingInit, CellsOK
<1>3. ASSUME NEW b \in Browsers PROVE ReplyOK(b)
  <2>1. next[b] = "idle" /\ ask[b] = NoCall /\ shown[b] = <<>>
    BY DEF BrowsingInit
  <2> QED
    BY <2>1 DEF ReplyOK
<1> QED
  BY <1>1, <1>2, <1>3 DEF ReplyInv

\* A request does not move while another one or the rest of the server does, but
\* for the courses that are held back meanwhile, which are noted.
Away(b) ==
  /\ UNCHANGED <<next[b], ask[b], owners[b], ids[b], rows[b], shown[b], arrival[b]>>
  /\ missed[b] \subseteq missed'[b] /\ missed'[b] \subseteq missed[b] \cup review'
  /\ IF Reading(b) THEN review' \subseteq review \cup missed'[b] ELSE missed'[b] = missed[b]

LEMMA ElsewhereFacts ==
  ASSUME CellsOK, Elsewhere \/ UNCHANGED <<vars, browseVars>>
  PROVE  /\ [Next]_vars /\ CellsOK' /\ \A b \in Browsers : Away(b)
         /\ UNCHANGED <<next, ask, owners, ids, rows, shown, arrival>>
<1>1. CASE Elsewhere
  BY <1>1 DEF Elsewhere, CellsOK, Away
<1>2. CASE UNCHANGED <<vars, browseVars>>
  BY <1>2 DEF browseVars, vars, CellsOK, Away
<1> QED
  BY <1>1, <1>2

LEMMA OthersAway ==
  ASSUME UNCHANGED vars, NEW c,
         UNCHANGED <<next[c], ask[c], owners[c], ids[c], rows[c], shown[c], missed[c], arrival[c]>>
  PROVE  Away(c)
BY DEF Away, vars

LEMMA BrowsingStepOK == ReplyInv /\ [BrowsingNext]_<<vars, browseVars>> => ReplyInv'
<1> SUFFICES ASSUME ReplyInv, [BrowsingNext]_<<vars, browseVars>> PROVE ReplyInv'
  OBVIOUS
<1>0. IInv /\ CellsOK /\ (\A b \in Browsers : ReplyOK(b))
  BY DEF ReplyInv
<1>1. CASE RepliesKept
  <2>1. IInv'
    BY <1>0, <1>1, StepOK DEF RepliesKept
  <2> QED
    BY <1>1, <2>1 DEF RepliesKept, ReplyInv
<1>2. CASE Elsewhere \/ UNCHANGED <<vars, browseVars>>
  <2>0. /\ [Next]_vars /\ CellsOK'
        /\ UNCHANGED <<next, ask, owners, ids, rows, shown, arrival>>
    BY <1>0, <1>2, ElsewhereFacts
  <2>1. IInv'
    BY <1>0, <2>0, StepOK
  <2>2. CellsOK'
    BY <2>0
  <2>3. ASSUME NEW b \in Browsers PROVE ReplyOK(b)'
    <3>1. UNCHANGED <<next[b], ask[b], owners[b], ids[b], rows[b], shown[b]>>
      BY <2>0
    <3> QED
      BY <1>0, <3>1, SameReply
  <2> QED
    BY <2>1, <2>2, <2>3 DEF ReplyInv
<1>3. CASE \E b \in Browsers : Arrive(b) \/ Read(b)
  BY <1>1, <1>3, ArriveOK, ReadOK
<1> QED
  BY <1>2, <1>3 DEF BrowsingNext

\* Whatever other requests write, whatever is withdrawn and whichever
\* statements fail, the i-th entry of a reply to getMeta, getMetas,
\* getMetasMultipleParam, GetObjectInfos or GetMetasWithCourseRecord is the
\* i-th object asked for, or empty, and the reply has an entry for each.
THEOREM RepliesAreAligned == BrowsingSpec => []ReplyIsAligned
<1>1. BrowsingInit => ReplyInv
  BY BrowsingInitOK
<1>2. ReplyInv /\ [BrowsingNext]_<<vars, browseVars>> => ReplyInv'
  BY BrowsingStepOK
<1>3. ReplyInv => ReplyIsAligned
  <2> SUFFICES ASSUME ReplyInv, NEW b \in Browsers, ask[b] # NoCall, ask[b].kind \in AlignedKinds
               PROVE  /\ \A i \in DOMAIN shown[b] :
                           shown[b][i] # NoRow => shown[b][i].id = ask[b].ids[i]
                      /\ next[b] = "ok" => Len(shown[b]) = Len(ask[b].ids)
    BY DEF ReplyIsAligned, AlignedKinds
  <2>1. /\ Aligned(ask[b].ids, shown[b], rows[b])
        /\ next[b] = "ok" => rows[b] = <<>>
    BY DEF ReplyInv, ReplyOK
  <2>2. /\ DOMAIN shown[b] = 1..Len(shown[b]) /\ Len(shown[b]) \in Nat
        /\ Len(ask[b].ids) \in Nat /\ (rows[b] = <<>> => Len(rows[b]) = 0)
    BY <2>1, LenProperties DEF Aligned, Entries
  <2>3. \A i \in 1..Len(shown[b]) : shown[b][i] # NoRow => shown[b][i].id = ask[b].ids[i]
    BY <2>1 DEF Aligned
  <2>4. Len(shown[b]) + Len(rows[b]) = Len(ask[b].ids)
    BY <2>1 DEF Aligned
  <2>5. next[b] = "ok" => Len(shown[b]) = Len(ask[b].ids)
    <3> DEFINE n == Len(shown[b])  todo == Len(rows[b])  m == Len(ask[b].ids)
    <3>1. n \in Nat /\ m \in Nat /\ n + todo = m
      BY <2>2, <2>4
    <3>2. next[b] = "ok" => todo = 0
      BY <2>1, <2>2
    <3> HIDE DEF n, todo, m
    <3>3. next[b] = "ok" => n = m
      BY <3>1, <3>2
    <3> QED
      BY <3>3 DEF n, m
  <2> QED
    BY <2>2, <2>3, <2>5
<1> QED
  BY <1>1, <1>2, <1>3, PTL DEF BrowsingSpec
-----------------------------------------------------------------------------
(* What a reply shows.  The tables when a request arrived are its past, and *)
(* every reply is compared with them and with the tables of now.            *)

Now == [stage |-> stage, stars |-> stars, records |-> records, queue |-> queue, maker |-> maker,
        review |-> review]

\* The courses whose numbers only players have written.
Untouched == {id \in Courses : PlayersOnly(id)}

Numbers(t) ==
  /\ t.stars \in [Courses -> Int \cup {NoRow}]
  /\ t.records \in [Courses -> Record \cup {NoRow}]

\* The tables as they may become, with the numbers of the courses in P still
\* written by players only.
Later(old, new, P) ==
  \A id \in Courses :
    /\ old.stage[id] = "withdrawn" => new.stage[id] = "withdrawn"
    /\ old.stage[id] \in {"published", "withdrawn"} =>
         new.stage[id] \in {"published", "withdrawn"}
    /\ id \in P =>
         /\ old.stars[id] # NoRow => new.stars[id] # NoRow /\ old.stars[id] <= new.stars[id]
         /\ old.records[id] # NoRow =>
              /\ new.records[id] # NoRow
              /\ new.records[id].score <= old.records[id].score
              /\ new.records[id].first = old.records[id].first
    /\ \A e \in old.queue[id] : \E f \in new.queue[id] : f.val = e.val

\* A course that had not been withdrawn and can be seen, or could be.
StageOK(past, now, id) ==
  past.stage[id] # "withdrawn" /\ now.stage[id] \in {"published", "withdrawn"}

\* Stars that a course had since the request arrived, ...
StarsOK(past, now, P, e) ==
  e.id \in P =>
    /\ e.val \in Int /\ now.stars[e.id] # NoRow /\ e.val <= now.stars[e.id]
    /\ past.stars[e.id] # NoRow => past.stars[e.id] <= e.val

\* ... and a record.
BestOK(past, now, P, e) ==
  e.record # NoRow /\ e.id \in P =>
    /\ now.records[e.id] # NoRow /\ now.records[e.id].score <= e.record.score
    /\ now.records[e.id].first = e.record.first
    /\ past.records[e.id] # NoRow => e.record.score <= past.records[e.id].score

EntryOK(past, now, P, kind, e) ==
  /\ StageOK(past, now, e.id)
  /\ kind \in StarKinds => StarsOK(past, now, P, e)
  /\ BestOK(past, now, P, e)
  /\ kind = "queue" => \E f \in now.queue[e.id] : f.val = e.val

\* The entries of a reply, and the rows that wait for theirs: rows have no
\* records yet, and those of a ranking have their stars once it has been read.
Shows(past, now, P, kind, done) ==
  \A e \in ToSet(done) : e # NoRow => EntryOK(past, now, P, kind, e)

Waits(past, now, P, kind, label, todo) ==
  /\ \A e \in ToSet(todo) :
       /\ e.record = NoRow
       /\ kind \in StarKinds /\ label # "filter" => StarsOK(past, now, P, e)
  /\ label \in {"record", "queue"} \/ (label = "check" /\ kind = "withRecords") =>
       StageOK(past, now, Head(todo).id)
-----------------------------------------------------------------------------
\* A step of the other requests leads to later tables.
LEMMA NowIsLater ==
  ASSUME IInv, ScoresOK, [Next]_vars
  PROVE  Later(Now, Now', Untouched') /\ Untouched' \subseteq Untouched
         /\ Numbers(Now) /\ Numbers(Now')
<1>1. \A id \in Courses : Onward(id)
  BY GoesOnward
<1>2. TypeOK /\ TypeOK'
  BY StepOK DEF IInv
<1>3. Numbers(Now) /\ Numbers(Now')
  BY <1>2 DEF Numbers, Now, TypeOK
<1>4. Untouched' \subseteq Untouched
  <2>1. \A id \in Courses : PlayersOnly(id)' => PlayersOnly(id)
    <3> SUFFICES ASSUME NEW id \in Courses, PlayersOnly(id)' PROVE PlayersOnly(id)
      OBVIOUS
    <3> QED
      BY <1>1 DEF Onward
  <2> QED
    BY <2>1 DEF Untouched
<1>5. ASSUME NEW id \in Courses
      PROVE  /\ stage[id] = "withdrawn" => stage'[id] = "withdrawn"
             /\ stage[id] \in {"published", "withdrawn"} => stage'[id] \in {"published", "withdrawn"}
             /\ id \in Untouched' =>
                  /\ stars[id] # NoRow => stars'[id] # NoRow /\ stars[id] <= stars'[id]
                  /\ records[id] # NoRow => /\ records'[id] # NoRow
                                            /\ records'[id].score <= records[id].score
                                            /\ records'[id].first = records[id].first
             /\ \A e \in queue[id] : \E f \in queue'[id] : f.val = e.val
  <2>1. Onward(id) /\ (id \in Untouched' => PlayersOnly(id)')
    BY <1>1 DEF Untouched
  <2> QED
    BY <2>1 DEF Onward, Seen
<1>6. Later(Now, Now', Untouched')
  BY <1>5 DEF Later, Now
<1> QED
  BY <1>3, <1>4, <1>6

\* The tables are their own past.
LEMMA LaterSelf ==
  ASSUME NEW t, Numbers(t), NEW P
  PROVE  Later(t, t, P)
<1>1. ASSUME NEW id \in Courses
      PROVE  /\ t.stars[id] # NoRow => t.stars[id] <= t.stars[id]
             /\ t.records[id] # NoRow => t.records[id].score <= t.records[id].score
  <2>1. /\ t.stars[id] # NoRow => t.stars[id] \in Int
        /\ t.records[id] # NoRow => t.records[id].score \in Int
    BY DEF Numbers, Record
  <2>2. \A n \in Int : n <= n
    OBVIOUS
  <2> QED
    BY <2>1, <2>2
<1> QED
  BY <1>1 DEF Later

\* What is later than the later is later.
LEMMA LaterStill ==
  ASSUME NEW s, NEW t, NEW u, Numbers(s), Numbers(t), Numbers(u), NEW P, NEW Q, Q \subseteq P,
         Later(s, t, P), Later(t, u, Q)
  PROVE  Later(s, u, Q)
<1>0. \A m, n, k \in Int : m <= n /\ n <= k => m <= k
  OBVIOUS
<1> SUFFICES ASSUME NEW id \in Courses
             PROVE  /\ s.stage[id] = "withdrawn" => u.stage[id] = "withdrawn"
                    /\ s.stage[id] \in {"published", "withdrawn"} =>
                         u.stage[id] \in {"published", "withdrawn"}
                    /\ id \in Q =>
                         /\ s.stars[id] # NoRow => u.stars[id] # NoRow /\ s.stars[id] <= u.stars[id]
                         /\ s.records[id] # NoRow =>
                              /\ u.records[id] # NoRow
                              /\ u.records[id].score <= s.records[id].score
                              /\ u.records[id].first = s.records[id].first
                    /\ \A e \in s.queue[id] : \E f \in u.queue[id] : f.val = e.val
  BY DEF Later
<1>1. /\ s.stage[id] = "withdrawn" => u.stage[id] = "withdrawn"
      /\ s.stage[id] \in {"published", "withdrawn"} => u.stage[id] \in {"published", "withdrawn"}
  BY DEF Later
<1>2. \A e \in s.queue[id] : \E f \in u.queue[id] : f.val = e.val
  <2> SUFFICES ASSUME NEW e \in s.queue[id] PROVE \E f \in u.queue[id] : f.val = e.val
    OBVIOUS
  <2>1. PICK f \in t.queue[id] : f.val = e.val
    BY DEF Later
  <2>2. PICK g \in u.queue[id] : g.val = f.val
    BY DEF Later
  <2> QED
    BY <2>1, <2>2
<1>3. ASSUME id \in Q, s.stars[id] # NoRow
      PROVE  u.stars[id] # NoRow /\ s.stars[id] <= u.stars[id]
  <2>1. t.stars[id] # NoRow /\ s.stars[id] <= t.stars[id]
    BY <1>3 DEF Later
  <2>2. u.stars[id] # NoRow /\ t.stars[id] <= u.stars[id]
    BY <1>3, <2>1 DEF Later
  <2>3. s.stars[id] \in Int /\ t.stars[id] \in Int /\ u.stars[id] \in Int
    BY <1>3, <2>1, <2>2 DEF Numbers
  <2> QED
    BY <1>0, <2>1, <2>2, <2>3
<1>4. ASSUME id \in Q, s.records[id] # NoRow
      PROVE  /\ u.records[id] # NoRow
             /\ u.records[id].score <= s.records[id].score
             /\ u.records[id].first = s.records[id].first
  <2>1. /\ t.records[id] # NoRow /\ t.records[id].score <= s.records[id].score
        /\ t.records[id].first = s.records[id].first
    BY <1>4 DEF Later
  <2>2. /\ u.records[id] # NoRow /\ u.records[id].score <= t.records[id].score
        /\ u.records[id].first = t.records[id].first
    BY <1>4, <2>1 DEF Later
  <2>3. s.records[id] \in Record /\ t.records[id] \in Record /\ u.records[id] \in Record
    BY <1>4, <2>1, <2>2 DEF Numbers
  <2>4. s.records[id].score \in Int /\ t.records[id].score \in Int /\ u.records[id].score \in Int
    BY <2>3 DEF Record
  <2> QED
    BY <1>0, <2>1, <2>2, <2>4
<1> QED
  BY <1>1, <1>2, <1>3, <1>4

\* What was right of an entry stays right.
LEMMA EntryStays ==
  ASSUME NEW past, NEW old, NEW new, Numbers(past), Numbers(old), Numbers(new),
         NEW P, NEW Q, Q \subseteq P, Later(old, new, Q), NEW e \in Shown, NEW kind
  PROVE  /\ StageOK(past, old, e.id) => StageOK(past, new, e.id)
         /\ StarsOK(past, old, P, e) => StarsOK(past, new, Q, e)
         /\ EntryOK(past, old, P, kind, e) => EntryOK(past, new, Q, kind, e)
<1>0. \A m, n, k \in Int : m <= n /\ n <= k => m <= k
  OBVIOUS
<1>1. e.id \in Courses /\ e.record \in Record \cup {NoRow}
  BY DEF Shown
<1>2. StageOK(past, old, e.id) => StageOK(past, new, e.id)
  BY <1>1 DEF StageOK, Later
<1>3. StarsOK(past, old, P, e) => StarsOK(past, new, Q, e)
  <2> SUFFICES ASSUME StarsOK(past, old, P, e), e.id \in Q
               PROVE  /\ e.val \in Int /\ new.stars[e.id] # NoRow /\ e.val <= new.stars[e.id]
                      /\ past.stars[e.id] # NoRow => past.stars[e.id] <= e.val
    BY DEF StarsOK
  <2>1. /\ e.val \in Int /\ old.stars[e.id] # NoRow /\ e.val <= old.stars[e.id]
        /\ past.stars[e.id] # NoRow => past.stars[e.id] <= e.val
    BY DEF StarsOK
  <2>2. new.stars[e.id] # NoRow /\ old.stars[e.id] <= new.stars[e.id]
    BY <1>1, <2>1 DEF Later
  <2>3. old.stars[e.id] \in Int /\ new.stars[e.id] \in Int
    BY <1>1, <2>1, <2>2 DEF Numbers
  <2> QED
    BY <1>0, <2>1, <2>2, <2>3
<1>4. BestOK(past, old, P, e) => BestOK(past, new, Q, e)
  <2> SUFFICES ASSUME BestOK(past, old, P, e), e.record # NoRow, e.id \in Q
               PROVE  /\ new.records[e.id] # NoRow /\ new.records[e.id].score <= e.record.score
                      /\ new.records[e.id].first = e.record.first
                      /\ past.records[e.id] # NoRow =>
                           e.record.score <= past.records[e.id].score
    BY DEF BestOK
  <2>1. /\ old.records[e.id] # NoRow /\ old.records[e.id].score <= e.record.score
        /\ old.records[e.id].first = e.record.first
        /\ past.records[e.id] # NoRow => e.record.score <= past.records[e.id].score
    BY DEF BestOK
  <2>2. /\ new.records[e.id] # NoRow /\ new.records[e.id].score <= old.records[e.id].score
        /\ new.records[e.id].first = old.records[e.id].first
    BY <1>1, <2>1 DEF Later
  <2>3. old.records[e.id] \in Record /\ new.records[e.id] \in Record /\ e.record \in Record
    BY <1>1, <2>1, <2>2 DEF Numbers
  <2>4. old.records[e.id].score \in Int /\ new.records[e.id].score \in Int /\ e.record.score \in Int
    BY <2>3 DEF Record
  <2> QED
    BY <1>0, <2>1, <2>2, <2>4
<1>5. (\E f \in old.queue[e.id] : f.val = e.val) => \E f \in new.queue[e.id] : f.val = e.val
  <2> SUFFICES ASSUME NEW f \in old.queue[e.id], f.val = e.val
               PROVE  \E g \in new.queue[e.id] : g.val = e.val
    OBVIOUS
  <2> QED
    BY <1>1 DEF Later
<1> QED
  BY <1>2, <1>3, <1>4, <1>5 DEF EntryOK
-----------------------------------------------------------------------------
(* The requests                                                            *)

BrowseLabels == {"idle", "query", "filter", "rank", "look", "check", "record", "queue",
                 "ok", "error"}

\* The parameters of a request, and its cells of the tables of browsers.
AskOK(q) ==
  /\ q.kind \in Kinds /\ q.limit \in Nat
  /\ q.kind = "top" => q.limit \in 1..MaxResults
  /\ q.kind = "byOwner" => q.limit \in 1..MaxOfOwner

Typed(people, list, todo, done, left) ==
  /\ people \in Seq(Pids) /\ list \in Seq(Courses) /\ todo \in Seq(Shown)
  /\ done \in Entries /\ left \subseteq Courses

\* The statements that a kind of request comes to, and what is left for them.
OnPath(label, kind, people, list, todo) ==
  /\ label \in BrowseLabels \ {"idle"}
  /\ label = "query" => /\ kind \in PageKinds \cup {"followings", "byOwner"}
                        /\ kind \in PageKinds \/ people # <<>>
  /\ label = "filter" => kind = "followings" /\ todo # <<>>
  /\ label = "rank" => kind \in StarKinds /\ list # <<>>
  /\ label = "look" => kind \notin {"record", "queue"} /\ todo # <<>>
  /\ label = "check" => kind \in {"withRecords", "record", "queue"} /\ todo # <<>>
  /\ label = "record" => kind \in {"withRecords", "record"} /\ todo # <<>>
  /\ label = "queue" => kind = "queue" /\ todo # <<>>
  /\ kind \notin {"followings", "byOwner"} => people = <<>>
  /\ kind \notin StarKinds => list = <<>>
  /\ kind \in {"record", "queue"} => todo = <<>> \/ Tail(todo) = <<>>

Fresh(b) ==
  /\ next[b] \in {"idle", "error"} /\ ask[b] = NoCall
  /\ owners[b] = <<>> /\ ids[b] = <<>> /\ rows[b] = <<>> /\ shown[b] = <<>> /\ missed[b] = {}

Served(b) ==
  /\ AskOK(ask[b]) /\ Typed(owners[b], ids[b], rows[b], shown[b], missed[b])
  /\ OnPath(next[b], ask[b].kind, owners[b], ids[b], rows[b])
  /\ Numbers(arrival[b]) /\ Later(arrival[b], Now, Untouched)
  /\ Shows(arrival[b], Now, Untouched, ask[b].kind, shown[b])
  /\ Waits(arrival[b], Now, Untouched, ask[b].kind, next[b], rows[b])

\* The inductive invariant of the contents.
BrowseInv ==
  /\ ReplyInv /\ ScoresOK /\ QueuesFinite /\ next \in [Browsers -> BrowseLabels]
  /\ \A b \in Browsers : Fresh(b) \/ Served(b)
-----------------------------------------------------------------------------
\* A request that does not move, while others take a step.
LEMMA ServedStays ==
  ASSUME IInv, ScoresOK, [Next]_vars, NEW b \in Browsers, Fresh(b) \/ Served(b), Away(b)
  PROVE  Fresh(b)' \/ Served(b)'
<1>1. CASE Fresh(b)
  BY <1>1 DEF Fresh, Away, Reading
<1>2. CASE Served(b)
  <2> DEFINE past == arrival[b]
  <2>1. /\ Later(Now, Now', Untouched') /\ Untouched' \subseteq Untouched
        /\ Numbers(Now) /\ Numbers(Now')
    BY NowIsLater
  <2>2. /\ AskOK(ask[b]) /\ Typed(owners[b], ids[b], rows[b], shown[b], missed[b])
        /\ OnPath(next[b], ask[b].kind, owners[b], ids[b], rows[b])
        /\ Numbers(past) /\ Later(past, Now, Untouched)
        /\ Shows(past, Now, Untouched, ask[b].kind, shown[b])
        /\ Waits(past, Now, Untouched, ask[b].kind, next[b], rows[b])
    BY <1>2 DEF Served
  <2> DEFINE old == Now  new == Now'  P == Untouched  Q == Untouched'
             kind == ask[b].kind  done == shown[b]  todo == rows[b]  label == next[b]
  <2>3. /\ Later(old, new, Q) /\ Q \subseteq P /\ Numbers(old) /\ Numbers(new)
        /\ Numbers(past) /\ Later(past, old, P)
        /\ Shows(past, old, P, kind, done) /\ Waits(past, old, P, kind, label, todo)
        /\ done \in Seq(Shown \cup {NoRow}) /\ todo \in Seq(Shown)
        /\ label \in {"check", "record", "queue"} => todo # <<>>
    BY <2>1, <2>2 DEF Typed, Entries, OnPath
  <2> HIDE DEF past, old, new, P, Q, kind, done, todo, label
  <2>4. Later(past, new, Q)
    BY <2>3, LaterStill
  <2>5. Shows(past, new, Q, kind, done)
    <3> SUFFICES ASSUME NEW e \in ToSet(done), e # NoRow PROVE EntryOK(past, new, Q, kind, e)
      BY DEF Shows
    <3>1. e \in Shown
      BY <2>3, ElementsTyped
    <3>2. EntryOK(past, old, P, kind, e)
      BY <2>3 DEF Shows
    <3> QED
      BY <2>3, <3>1, <3>2, EntryStays
  <2>6. Waits(past, new, Q, kind, label, todo)
    <3>1. ASSUME NEW e \in ToSet(todo)
          PROVE  e.record = NoRow /\ (kind \in StarKinds /\ label # "filter" =>
                                        StarsOK(past, new, Q, e))
      <4>1. e \in Shown
        BY <2>3, ElementsTyped
      <4>2. e.record = NoRow /\ (kind \in StarKinds /\ label # "filter" =>
                                   StarsOK(past, old, P, e))
        BY <2>3 DEF Waits
      <4> QED
        BY <2>3, <4>1, <4>2, EntryStays
    <3>2. label \in {"record", "queue"} \/ (label = "check" /\ kind = "withRecords") =>
            StageOK(past, new, Head(todo).id)
      <4> SUFFICES ASSUME label \in {"record", "queue"} \/ (label = "check" /\ kind = "withRecords")
                   PROVE  StageOK(past, new, Head(todo).id)
        OBVIOUS
      <4>1. Head(todo) \in Shown
        BY <2>3, HeadTailProperties
      <4>2. StageOK(past, old, Head(todo).id)
        BY <2>3 DEF Waits
      <4> QED
        BY <2>3, <4>1, <4>2, EntryStays
    <3> QED
      BY <3>1, <3>2 DEF Waits
  <2>7. /\ Numbers(past) /\ Later(past, Now', Untouched')
        /\ Shows(past, Now', Untouched', ask[b].kind, shown[b])
        /\ Waits(past, Now', Untouched', ask[b].kind, next[b], rows[b])
    BY <2>3, <2>4, <2>5, <2>6 DEF new, Q, kind, done, todo, label
  <2>8. Typed(owners[b], ids[b], rows[b], shown[b], missed'[b])
    <3>1. review' \subseteq Courses
      BY StepOK DEF IInv, TypeOK
    <3> QED
      BY <2>2, <3>1 DEF Typed, Away
  <2>9. UNCHANGED <<next[b], ask[b], owners[b], ids[b], rows[b], shown[b], arrival[b]>>
    BY DEF Away
  <2> QED
    BY <2>2, <2>7, <2>8, <2>9 DEF Served, past
<1> QED
  BY <1>1, <1>2

\* Where nothing but the browsers moves, the tables are what they were.
LEMMA NowStays ==
  ASSUME UNCHANGED vars
  PROVE  Now' = Now /\ Untouched' = Untouched
<1>1. Now' = Now
  BY DEF vars, Now
<1>2. \A id \in Courses : PlayersOnly(id)' = PlayersOnly(id)
  BY DEF vars, PlayersOnly, Mentions, Asked
<1> QED
  BY <1>1, <1>2 DEF Untouched

\* What a statement has to leave behind for its request.
LEMMA StatementServes ==
  ASSUME NEW b \in Browsers, Served(b), OwnCells(b),
         Typed(owners'[b], ids'[b], rows'[b], shown'[b], missed'[b]),
         OnPath(next'[b], ask[b].kind, owners'[b], ids'[b], rows'[b]),
         Shows(arrival[b], Now, Untouched, ask[b].kind, shown'[b]),
         Waits(arrival[b], Now, Untouched, ask[b].kind, next'[b], rows'[b])
  PROVE  Served(b)'
<1>1. Now' = Now /\ Untouched' = Untouched
  BY NowStays DEF OwnCells
<1>2. ask'[b] = ask[b] /\ arrival'[b] = arrival[b]
  BY DEF OwnCells
<1>3. AskOK(ask[b]) /\ Numbers(arrival[b]) /\ Later(arrival[b], Now, Untouched)
  BY DEF Served
<1> QED
  BY <1>1, <1>2, <1>3 DEF Served

\* Where Follow leads.
LEMMA FollowPath ==
  ASSUME NEW kind \in Kinds, NEW people, NEW list, NEW todo, NEW label,
         label = IF todo # <<>> THEN "look" ELSE IF list # <<>> THEN "rank"
                 ELSE IF people # <<>> THEN "query" ELSE "ok",
         kind \notin {"followings", "byOwner"} => people = <<>>,
         kind \notin StarKinds => list = <<>>,
         kind \in {"record", "queue"} => todo = <<>>
  PROVE  OnPath(label, kind, people, list, todo)
BY DEF OnPath, BrowseLabels

\* What a list keeps when its head is taken.
LEMMA TailOf ==
  ASSUME NEW S, NEW s \in Seq(S), s # <<>>
  PROVE  /\ Head(s) \in S /\ Head(s) \in ToSet(s) /\ Tail(s) \in Seq(S)
         /\ ToSet(Tail(s)) \subseteq ToSet(s)
<1>1. /\ Head(s) \in S /\ Tail(s) \in Seq(S) /\ Len(Tail(s)) = Len(s) - 1 /\ Len(s) \in Nat
      /\ \A i \in 1..Len(Tail(s)) : Tail(s)[i] = s[i + 1]
  BY HeadTailProperties, LenProperties
<1>2. ASSUME NEW x \in ToSet(Tail(s)) PROVE x \in ToSet(s)
  <2>1. PICK i \in DOMAIN Tail(s) : Tail(s)[i] = x
    BY <1>2 DEF ToSet
  <2>2. i \in 1..Len(Tail(s)) /\ DOMAIN s = 1..Len(s)
    BY <1>1, LenProperties
  <2>3. i + 1 \in DOMAIN s /\ s[i + 1] = x
    BY <1>1, <2>1, <2>2
  <2> QED
    BY <2>3 DEF ToSet
<1>3. Head(s) \in ToSet(s)
  BY HeadIsElement
<1> QED
  BY <1>1, <1>2, <1>3

\* Fewer rows, of a request that has not to filter them, wait as before.
LEMMA FewerWait ==
  ASSUME NEW past, NEW now, NEW P, NEW kind, NEW label, NEW todo, NEW after, NEW rest,
         Waits(past, now, P, kind, label, todo), ToSet(rest) \subseteq ToSet(todo),
         after \in {"look", "rank", "query", "ok", "error"}, label # "filter" \/ rest = <<>>
  PROVE  Waits(past, now, P, kind, after, rest)
<1>1. ToSet(<<>>) = {}
  BY DEF ToSet
<1> QED
  BY <1>1 DEF Waits
-----------------------------------------------------------------------------
\* The cells of the other browsers.
OthersStay(b) ==
  \A c \in Browsers \ {b} :
    UNCHANGED <<next[c], ask[c], owners[c], ids[c], rows[c], shown[c], missed[c], arrival[c]>>

\* How the handlers begin a request of a kind.
Begins(kind, limit, list, people, types, label) ==
  /\ AskOK([kind |-> kind, limit |-> limit])
  /\ list \in Seq(Courses) /\ people \in Seq(Pids)
  /\ \/ label = "query" /\ kind \in PageKinds /\ list = <<>> /\ people = <<>>
     \/ label = "query" /\ kind \in {"followings", "byOwner"} /\ list = <<>>
        /\ (kind = "followings" => types = {"course"})
     \/ label = "rank" /\ kind = "byId" /\ people = <<>>
     \/ label = "look" /\ kind \in MetaKinds \cup {"infos", "withRecords"} /\ people = <<>>
     \/ label = "check" /\ kind \in {"record", "queue"} /\ people = <<>>
        /\ \E id \in Courses : list = <<id>>

\* A request that begins so is served: its past is now.
LEMMA BeginServed ==
  ASSUME TypeOK, CellsOK, NEW b \in Browsers, Fresh(b),
         NEW kind, NEW limit, NEW list, NEW people, NEW types, NEW label,
         Begins(kind, limit, list, people, types, label),
         Begin(b, kind, limit, list, people, types, label)
  PROVE  Served(b)' /\ OthersStay(b)
<1>1. OthersStay(b) /\ UNCHANGED vars
  BY DEF CellsOK, Begin, OthersStay
<1> DEFINE first == IF kind \notin PageKinds /\ people = <<>> /\ list = <<>> THEN "ok" ELSE label
           todo == IF label \in {"look", "check"} THEN EntriesOf(list) ELSE <<>>
           later == IF label = "rank" THEN list ELSE <<>>
           q == [kind |-> kind, limit |-> limit, ids |-> list, owners |-> people, types |-> types]
<1>2. /\ ask'[b] = q /\ owners'[b] = people /\ ids'[b] = later /\ rows'[b] = todo
      /\ next'[b] = first /\ arrival'[b] = Now
      /\ shown'[b] = <<>> /\ missed'[b] = {}
  BY DEF CellsOK, Begin, Fresh, Now
<1>3. q.kind = kind /\ AskOK(q)
  BY DEF Begins, AskOK
<1>4. /\ EntriesOf(list) \in Seq(Shown) /\ (list # <<>> => EntriesOf(list) # <<>>)
      /\ (list = <<>> => EntriesOf(list) = <<>>)
  BY EntriesOfList DEF Begins, Aligned
<1>5. Typed(people, later, todo, <<>>, {})
  <2>1. <<>> \in Seq(Shown) /\ <<>> \in Seq(Courses) /\ <<>> \in Seq(Shown \cup {NoRow})
    BY EmptySeq
  <2> QED
    BY <1>4, <2>1 DEF Begins, Typed, Entries
<1>6. OnPath(first, kind, people, later, todo)
  <2> USE DEF OnPath, BrowseLabels, PageKinds, StarKinds, MetaKinds
  <2>1. CASE label = "query" /\ kind \in PageKinds /\ list = <<>> /\ people = <<>>
    BY <2>1
  <2>2. CASE label = "query" /\ kind \in {"followings", "byOwner"} /\ list = <<>>
    BY <2>2
  <2>3. CASE label = "rank" /\ kind = "byId" /\ people = <<>>
    BY <2>3
  <2>4. CASE label = "look" /\ kind \in MetaKinds \cup {"infos", "withRecords"} /\ people = <<>>
    BY <1>4, <2>4
  <2>5. CASE label = "check" /\ kind \in {"record", "queue"} /\ people = <<>>
             /\ \E id \in Courses : list = <<id>>
    <3>1. PICK id \in Courses : list = <<id>>
      BY <2>5
    <3>2. list # <<>> /\ EntriesOf(list) = <<EntryOf(id)>>
      BY <3>1 DEF EntriesOf
    <3>3. Tail(<<EntryOf(id)>>) = <<>> /\ <<EntryOf(id)>> # <<>>
      OBVIOUS
    <3> QED
      BY <2>5, <3>2, <3>3
  <2> QED
    BY <2>1, <2>2, <2>3, <2>4, <2>5 DEF Begins
<1>7. Numbers(Now) /\ Later(Now, Now, Untouched)
  <2>1. Numbers(Now)
    BY DEF Numbers, Now, TypeOK
  <2> QED
    BY <2>1, LaterSelf
<1>8. Shows(Now, Now, Untouched, kind, <<>>)
  <2>1. ToSet(<<>>) = {}
    BY DEF ToSet
  <2> QED
    BY <2>1 DEF Shows
<1>9. Waits(Now, Now, Untouched, kind, first, todo)
  <2>1. ToSet(<<>>) = {}
    BY DEF ToSet
  <2>2. \A e \in ToSet(EntriesOf(list)) : e.record = NoRow
    BY DEF ToSet, EntriesOf, EntryOf
  <2>3. label \in {"look", "check"} => kind \notin StarKinds
    BY DEF Begins, StarKinds, PageKinds, MetaKinds
  <2>4. first \notin {"record", "queue"} /\ ~(first = "check" /\ kind = "withRecords")
    BY DEF Begins, PageKinds, MetaKinds
  <2> QED
    BY <2>1, <2>2, <2>3, <2>4 DEF Waits
<1>10. Now' = Now /\ Untouched' = Untouched
  BY <1>1, NowStays
<1> HIDE DEF first, todo, later, q
<1>11. Served(b)'
  BY <1>2, <1>3, <1>5, <1>6, <1>7, <1>8, <1>9, <1>10 DEF Served
<1> QED
  BY <1>1, <1>11

\* So does every request that arrives, or it is refused at once.
LEMMA ArrivalBegins ==
  ASSUME NEW b \in Browsers, Arrive(b)
  PROVE  \/ \E kind, limit, list, people, types, label :
              /\ Begins(kind, limit, list, people, types, label)
              /\ Begin(b, kind, limit, list, people, types, label)
         \/ /\ next[b] = "idle" /\ next' = [next EXCEPT ![b] = "error"]
            /\ UNCHANGED <<vars, ask, owners, ids, rows, shown, missed, arrival>>
<1> DEFINE Some == \E kind, limit, list, people, types, label :
                     /\ Begins(kind, limit, list, people, types, label)
                     /\ Begin(b, kind, limit, list, people, types, label)
           Refused == /\ next[b] = "idle" /\ next' = [next EXCEPT ![b] = "error"]
                      /\ UNCHANGED <<vars, ask, owners, ids, rows, shown, missed, arrival>>
<1> SUFFICES Some \/ Refused
  OBVIOUS
<1>1. /\ "some" \in Kinds /\ "top" \in Kinds /\ "byId" \in Kinds /\ "followings" \in Kinds
      /\ "byOwner" \in Kinds /\ "meta" \in Kinds /\ "metas" \in Kinds /\ "infos" \in Kinds
      /\ "withRecords" \in Kinds /\ "record" \in Kinds /\ "queue" \in Kinds
  BY DEF Kinds, StarKinds, PageKinds, OfIdKinds, MetaKinds
<1>2. <<>> \in Seq(Courses) /\ <<>> \in Seq(Pids)
  BY EmptySeq
<1>3. ASSUME NEW length \in Nat, NEW max \in Nat \ {0} PROVE Clamped(length, max) \in 1..max
  BY DEF Clamped
<1>4. ASSUME NEW limit \in Nat, Page(b, "some", limit) PROVE Some
  <2>1. Begins("some", limit, <<>>, <<>>, {}, "query")
    BY <1>1, <1>2 DEF Begins, AskOK, PageKinds
  <2>2. Begin(b, "some", limit, <<>>, <<>>, {}, "query")
    BY <1>4 DEF Page
  <2> QED
    BY <2>1, <2>2
<1>5. ASSUME NEW limit \in 1..MaxResults, Page(b, "top", limit) PROVE Some
  <2>0. MaxResults \in Nat
    BY BrowsingAssumption
  <2>1. Begins("top", limit, <<>>, <<>>, {}, "query")
    BY <1>1, <1>2, <2>0 DEF Begins, AskOK, PageKinds
  <2>2. Begin(b, "top", limit, <<>>, <<>>, {}, "query")
    BY <1>5 DEF Page
  <2> QED
    BY <2>1, <2>2
<1>6. ASSUME NEW kind \in {"followings", "byOwner"}, NEW limit \in Nat,
             kind = "byOwner" => limit \in 1..MaxOfOwner, NEW types,
             kind = "followings" => types = {"course"},
             OfOwners(b, kind, limit, types)
      PROVE  Some
  <2>1. PICK people \in OwnerLists : Begin(b, kind, limit, <<>>, people, types, "query")
    BY <1>6 DEF OfOwners
  <2>2. people \in Seq(Pids)
    BY BrowsingAssumption
  <2>3. Begins(kind, limit, <<>>, people, types, "query")
    BY <1>1, <1>2, <1>6, <2>2 DEF Begins, AskOK
  <2> QED
    BY <2>1, <2>3
<1>7. ASSUME NEW kind \in {"meta", "metas", "infos", "withRecords"}, NEW list \in Seq(Courses),
             OfIds(b, kind, list, "look")
      PROVE  Some
  <2>1. Begins(kind, 0, list, <<>>, {}, "look")
    BY <1>1, <1>2, <1>7 DEF Begins, AskOK, MetaKinds
  <2>2. Begin(b, kind, 0, list, <<>>, {}, "look")
    BY <1>7 DEF OfIds
  <2> QED
    BY <2>1, <2>2
<1>8. ASSUME NEW kind \in {"record", "queue"}, NEW id \in Courses, OfIds(b, kind, <<id>>, "check")
      PROVE  Some
  <2>0. <<id>> \in Seq(Courses)
    OBVIOUS
  <2>1. Begins(kind, 0, <<id>>, <<>>, {}, "check")
    BY <1>1, <1>2, <1>8, <2>0 DEF Begins, AskOK, MetaKinds
  <2>2. Begin(b, kind, 0, <<id>>, <<>>, {}, "check")
    BY <1>8 DEF OfIds
  <2> QED
    BY <2>1, <2>2
<1>9. ASSUME NEW list \in IdLists, OfIds(b, "byId", list, "rank") PROVE Some
  <2>0. list \in Seq(Courses)
    BY BrowsingAssumption
  <2>1. Begins("byId", 0, list, <<>>, {}, "rank")
    BY <1>1, <1>2, <2>0 DEF Begins, AskOK
  <2>2. Begin(b, "byId", 0, list, <<>>, {}, "rank")
    BY <1>9 DEF OfIds
  <2> QED
    BY <2>1, <2>2
<1>0. ASSUME next[b] = "idle", next' = [next EXCEPT ![b] = "error"],
             UNCHANGED <<vars, ask, owners, ids, rows, shown, missed, arrival>>
      PROVE  Refused
  BY <1>0
<1> HIDE DEF Some, Refused
<1>10. CASE \/ LatestCourseSearchObject(b) \/ BestScoreRateCourseSearchObject(b)
            \/ RecommendedCourseSearchObject(b) \/ CTRPickUpCourseSearchObject(b)
            \/ handlePickup(b)
  <2>1. \A length \in Lengths, max \in {MaxResults, MaxRecommended} :
          Clamped(length, max) \in Nat
    BY <1>3, BrowsingAssumption
  <2>2. Lengths \subseteq Nat /\ PoolSizes \subseteq Nat
    BY BrowsingAssumption
  <2> QED
    BY <1>4, <1>10, <2>1, <2>2 DEF LatestCourseSearchObject, BestScoreRateCourseSearchObject,
       RecommendedCourseSearchObject, CTRPickUpCourseSearchObject, handlePickup
<1>11. CASE SuggestedCourseSearchObject(b)
  <2>1. Lengths \subseteq Nat
    BY BrowsingAssumption
  <2> QED
    BY <1>0, <1>4, <1>11, <2>1 DEF SuggestedCourseSearchObject
<1>12. CASE GetCustomRanking(b)
  <2>1. \A length \in Lengths : Clamped(length, MaxResults) \in 1..MaxResults
    BY <1>3, BrowsingAssumption
  <2> QED
    BY <1>5, <1>12, <2>1 DEF GetCustomRanking
<1>13. CASE FollowingsLatestCourseSearchObject(b)
  BY <1>6, <1>13 DEF FollowingsLatestCourseSearchObject
<1>14. CASE GetMetaByOwnerID(b)
  <2>1. PICK length \in Lengths, types \in (SUBSET Types) \ {{}} :
          OfOwners(b, "byOwner", Clamped(length, MaxOfOwner), types)
    BY <1>14 DEF GetMetaByOwnerID
  <2>2. Clamped(length, MaxOfOwner) \in 1..MaxOfOwner /\ MaxOfOwner \in Nat
    BY <1>3, BrowsingAssumption
  <2>3. Clamped(length, MaxOfOwner) \in Nat
    BY <2>2
  <2> QED
    BY <1>6, <2>1, <2>2, <2>3
<1>15. CASE \/ GetMetasWithCourseRecord(b) \/ getMeta(b) \/ getMetas(b)
            \/ getMetasMultipleParam(b) \/ GetObjectInfos(b)
  <2>1. IdLists \subseteq Seq(Courses) /\ \A id \in Courses : <<id>> \in Seq(Courses)
    BY BrowsingAssumption
  <2> QED
    BY <1>7, <1>15, <2>1 DEF GetMetasWithCourseRecord, getMeta, getMetas,
       getMetasMultipleParam, GetObjectInfos
<1>16. CASE GetCourseRecord(b) \/ GetBufferQueue(b)
  BY <1>8, <1>16 DEF GetCourseRecord, GetBufferQueue
<1>17. CASE GetCustomRankingByDataID(b)
  BY <1>9, <1>17 DEF GetCustomRankingByDataID
<1> QED
  BY <1>10, <1>11, <1>12, <1>13, <1>14, <1>15, <1>16, <1>17 DEF Arrive

LEMMA ArriveServed ==
  ASSUME BrowseInv, NEW b \in Browsers, Arrive(b)
  PROVE  (Fresh(b)' \/ Served(b)') /\ OthersStay(b)
<1>1. TypeOK /\ CellsOK /\ ReplyOK(b) /\ (Fresh(b) \/ Served(b))
  BY DEF BrowseInv, ReplyInv, IInv
<1>2. next[b] = "idle"
  BY ArrivalBegins DEF Begin
<1>3. Fresh(b)
  BY <1>1, <1>2 DEF Served, OnPath
<1>4. CASE \E kind, limit, list, people, types, label :
             /\ Begins(kind, limit, list, people, types, label)
             /\ Begin(b, kind, limit, list, people, types, label)
  BY <1>1, <1>3, <1>4, BeginServed
<1>5. CASE /\ next[b] = "idle" /\ next' = [next EXCEPT ![b] = "error"]
           /\ UNCHANGED <<vars, ask, owners, ids, rows, shown, missed, arrival>>
  BY <1>1, <1>3, <1>5 DEF Fresh, OthersStay, CellsOK
<1> QED
  BY <1>4, <1>5, ArrivalBegins
-----------------------------------------------------------------------------
(* The statements                                                          *)

\* Rows as they wait for a look at their courses.
RowsReady(past, now, P, kind, todo) ==
  \A e \in ToSet(todo) : e.record = NoRow /\ (kind \in StarKinds => StarsOK(past, now, P, e))

\* What is known of a request whose statement runs.
LEMMA ServedFacts ==
  ASSUME NEW b \in Browsers, Served(b)
  PROVE  /\ ask[b].kind \in Kinds /\ ask[b].limit \in Nat
         /\ Typed(owners[b], ids[b], rows[b], shown[b], missed[b])
         /\ OnPath(next[b], ask[b].kind, owners[b], ids[b], rows[b])
         /\ Shows(arrival[b], Now, Untouched, ask[b].kind, shown[b])
         /\ Waits(arrival[b], Now, Untouched, ask[b].kind, next[b], rows[b])
         /\ next[b] # "filter" => RowsReady(arrival[b], Now, Untouched, ask[b].kind, rows[b])
BY DEF Served, AskOK, Waits, RowsReady

\* A list without elements, and one with the entries of some courses.
LEMMA NoElements == ToSet(<<>>) = {}
  BY DEF ToSet

LEMMA EntriesWait ==
  ASSUME NEW list \in Seq(Courses)
  PROVE  /\ EntriesOf(list) \in Seq(Shown) /\ (EntriesOf(list) = <<>> <=> list = <<>>)
         /\ \A e \in ToSet(EntriesOf(list)) : e.record = NoRow
<1>1. EntriesOf(list) \in Seq(Shown) /\ (EntriesOf(list) = <<>> <=> list = <<>>)
  BY EntriesOfList DEF Aligned
<1>2. \A e \in ToSet(EntriesOf(list)) : e.record = NoRow
  BY DEF ToSet, EntriesOf, EntryOf
<1> QED
  BY <1>1, <1>2

\* A SELECT returns courses of its set.
LEMMA PageTyped ==
  ASSUME NEW set, set \subseteq Courses, NEW limit \in Nat, NEW page \in Pages(set, limit)
  PROVE  page \in Seq(Courses) /\ ToSet(page) \subseteq set
<1>1. PICK n \in 0..limit : page \in [1..n -> set]
  BY DEF Pages
<1>2. n \in Nat
  OBVIOUS
<1>3. page \in Seq(set)
  BY <1>1, <1>2, SeqDef
<1>4. page \in [1..n -> Courses]
  BY <1>1
<1>5. page \in Seq(Courses)
  BY <1>2, <1>4, SeqDef
<1> QED
  BY <1>3, <1>5, ElementsTyped

\* A statement that goes where Follow leads.
LEMMA FollowServes ==
  ASSUME CellsOK, NEW b \in Browsers, Served(b), OwnCells(b), Follow(b),
         Typed(owners'[b], ids'[b], rows'[b], shown'[b], missed'[b]),
         ask[b].kind \notin {"followings", "byOwner"} => owners'[b] = <<>>,
         ask[b].kind \notin StarKinds => ids'[b] = <<>>,
         ask[b].kind \in {"record", "queue"} => rows'[b] = <<>>,
         Shows(arrival[b], Now, Untouched, ask[b].kind, shown'[b]),
         RowsReady(arrival[b], Now, Untouched, ask[b].kind, rows'[b])
  PROVE  Served(b)'
<1>1. next'[b] = IF rows'[b] # <<>> THEN "look" ELSE IF ids'[b] # <<>> THEN "rank"
                 ELSE IF owners'[b] # <<>> THEN "query" ELSE "ok"
  BY DEF Follow, CellsOK
<1>2. ask[b].kind \in Kinds
  BY ServedFacts
<1> DEFINE kind == ask[b].kind  people == owners'[b]  list == ids'[b]  todo == rows'[b]
           label == next'[b]
<1>3. OnPath(label, kind, people, list, todo)
  <2> HIDE DEF kind, people, list, todo, label
  <2>1. /\ label = IF todo # <<>> THEN "look" ELSE IF list # <<>> THEN "rank"
                   ELSE IF people # <<>> THEN "query" ELSE "ok"
        /\ kind \in Kinds /\ (kind \notin {"followings", "byOwner"} => people = <<>>)
        /\ (kind \notin StarKinds => list = <<>>) /\ (kind \in {"record", "queue"} => todo = <<>>)
    BY <1>1, <1>2 DEF kind, people, list, todo, label
  <2> QED
    BY <2>1, FollowPath
<1>4. Waits(arrival[b], Now, Untouched, ask[b].kind, next'[b], rows'[b])
  <2>1. next'[b] \in {"look", "rank", "query", "ok"}
    BY <1>1
  <2> QED
    BY <2>1 DEF Waits, RowsReady
<1> QED
  BY <1>3, <1>4, StatementServes

\* One more entry of a reply.
LEMMA OneMore ==
  ASSUME NEW past, NEW now, NEW P, NEW kind, NEW done \in Entries, Shows(past, now, P, kind, done),
         NEW e \in Shown \cup {NoRow}, e # NoRow => EntryOK(past, now, P, kind, e)
  PROVE  Append(done, e) \in Entries /\ Shows(past, now, P, kind, Append(done, e))
<1>1. Append(done, e) \in Entries
  BY AppendProperties DEF Entries
<1>2. ToSet(Append(done, e)) = ToSet(done) \cup {e}
  BY ElementsOfAppend DEF Entries
<1> QED
  BY <1>1, <1>2 DEF Shows

\* The row at the head is done with, with an entry or without.
LEMMA RowDone ==
  ASSUME CellsOK, NEW b \in Browsers, Served(b), OwnCells(b), Follow(b),
         rows[b] # <<>>, next[b] # "filter", rows' = [rows EXCEPT ![b] = Tail(@)],
         UNCHANGED <<owners, ids>>, missed'[b] \subseteq Courses,
         \/ UNCHANGED shown
         \/ \E e \in Shown \cup {NoRow} :
              /\ e # NoRow => EntryOK(arrival[b], Now, Untouched, ask[b].kind, e)
              /\ Show(b, e)
  PROVE  Served(b)'
<1>1. /\ Typed(owners[b], ids[b], rows[b], shown[b], missed[b])
      /\ OnPath(next[b], ask[b].kind, owners[b], ids[b], rows[b])
      /\ Shows(arrival[b], Now, Untouched, ask[b].kind, shown[b])
      /\ RowsReady(arrival[b], Now, Untouched, ask[b].kind, rows[b])
  BY ServedFacts
<1>2. rows'[b] = Tail(rows[b]) /\ owners'[b] = owners[b] /\ ids'[b] = ids[b]
  BY DEF CellsOK
<1>3. Tail(rows[b]) \in Seq(Shown) /\ ToSet(Tail(rows[b])) \subseteq ToSet(rows[b])
  BY <1>1, TailOf DEF Typed
<1>4. RowsReady(arrival[b], Now, Untouched, ask[b].kind, rows'[b])
  BY <1>1, <1>2, <1>3 DEF RowsReady
<1>5. shown'[b] \in Entries /\ Shows(arrival[b], Now, Untouched, ask[b].kind, shown'[b])
  <2>1. CASE UNCHANGED shown
    BY <1>1, <2>1 DEF Typed
  <2>2. ASSUME NEW e \in Shown \cup {NoRow}, Show(b, e),
               e # NoRow => EntryOK(arrival[b], Now, Untouched, ask[b].kind, e)
        PROVE  shown'[b] \in Entries /\ Shows(arrival[b], Now, Untouched, ask[b].kind, shown'[b])
    <3>1. shown'[b] = Append(shown[b], e)
      BY <2>2 DEF Show, CellsOK
    <3>2. shown[b] \in Entries
      BY <1>1 DEF Typed
    <3> QED
      BY <1>1, <2>2, <3>1, <3>2, OneMore
  <2> QED
    BY <2>1, <2>2
<1>6. Typed(owners'[b], ids'[b], rows'[b], shown'[b], missed'[b])
  BY <1>1, <1>2, <1>3, <1>5 DEF Typed
<1>7. /\ ask[b].kind \notin {"followings", "byOwner"} => owners'[b] = <<>>
      /\ ask[b].kind \notin StarKinds => ids'[b] = <<>>
      /\ ask[b].kind \in {"record", "queue"} => rows'[b] = <<>>
  BY <1>1, <1>2 DEF OnPath
<1> QED
  BY <1>4, <1>5, <1>6, <1>7, FollowServes

\* The request goes on with the row at the head, or is refused.
LEMMA RowKeeps ==
  ASSUME CellsOK, NEW b \in Browsers, Served(b), OwnCells(b), next[b] # "filter",
         UNCHANGED <<owners, ids, rows, shown, missed>>,
         \/ next'[b] = "error"
         \/ /\ rows[b] # <<>> /\ StageOK(arrival[b], Now, Head(rows[b]).id)
            /\ \/ next'[b] = "check" /\ ask[b].kind = "withRecords"
               \/ next'[b] = "record" /\ ask[b].kind \in {"withRecords", "record"}
               \/ next'[b] = "queue" /\ ask[b].kind = "queue"
  PROVE  Served(b)'
<1>1. /\ Typed(owners[b], ids[b], rows[b], shown[b], missed[b])
      /\ OnPath(next[b], ask[b].kind, owners[b], ids[b], rows[b])
      /\ Shows(arrival[b], Now, Untouched, ask[b].kind, shown[b])
      /\ RowsReady(arrival[b], Now, Untouched, ask[b].kind, rows[b])
  BY ServedFacts
<1>2. OnPath(next'[b], ask[b].kind, owners'[b], ids'[b], rows'[b])
  BY <1>1 DEF OnPath, BrowseLabels
<1>3. Waits(arrival[b], Now, Untouched, ask[b].kind, next'[b], rows'[b])
  BY <1>1 DEF Waits, RowsReady
<1> QED
  BY <1>1, <1>2, <1>3, StatementServes
-----------------------------------------------------------------------------
\* A course that can be seen now had not been withdrawn before.
LEMMA SeenNow ==
  ASSUME NEW b \in Browsers, Served(b), NEW id \in Courses, IsObjectAvailable(id)
  PROVE  StageOK(arrival[b], Now, id)
BY DEF Served, Later, Now, StageOK, IsObjectAvailable

\* An entry that has neither stars nor a record.
LEMMA PlainEntry ==
  ASSUME NEW past, NEW now, NEW P, NEW id \in Courses, StageOK(past, now, id),
         NEW kind, kind \notin StarKinds, kind # "queue"
  PROVE  EntryOf(id) \in Shown /\ EntryOK(past, now, P, kind, EntryOf(id))
<1>1. EntryOf(id) \in Shown /\ EntryOf(id).id = id /\ EntryOf(id).record = NoRow
  BY DEF EntryOf, Shown
<1> HIDE DEF EntryOf
<1> QED
  BY <1>1 DEF EntryOK, BestOK

LEMMA KindsApart ==
  /\ PageKinds \subseteq StarKinds /\ "followings" \in StarKinds
  /\ "byOwner" \notin StarKinds /\ "withRecords" \notin StarKinds
  /\ "record" \notin StarKinds /\ "queue" \notin StarKinds
  /\ "followings" \notin PageKinds /\ "byOwner" \notin PageKinds
  BY DEF PageKinds, StarKinds

\* GetRandomCoursesWithLimit and the like.
LEMMA QueryPageServes ==
  ASSUME CellsOK, NEW b \in Browsers, Served(b), OwnCells(b), QueryPage(b)
  PROVE  Served(b)'
<1>1. next[b] = "query" /\ ask[b].kind \in PageKinds /\ Follow(b)
      /\ UNCHANGED <<owners, rows, shown, missed>>
  BY DEF QueryPage
<1>2. /\ ask[b].limit \in Nat /\ Typed(owners[b], ids[b], rows[b], shown[b], missed[b])
      /\ OnPath(next[b], ask[b].kind, owners[b], ids[b], rows[b])
      /\ Shows(arrival[b], Now, Untouched, ask[b].kind, shown[b])
      /\ RowsReady(arrival[b], Now, Untouched, ask[b].kind, rows[b])
  BY <1>1, ServedFacts
<1>3. PICK page \in Pages(Listed, ask[b].limit) : ids' = [ids EXCEPT ![b] = page]
  BY DEF QueryPage
<1>4. ids'[b] \in Seq(Courses)
  <2>1. page \in Seq(Courses)
    BY <1>2, PageTyped DEF Listed
  <2> QED
    BY <1>3, <2>1 DEF CellsOK
<1>5. Typed(owners'[b], ids'[b], rows'[b], shown'[b], missed'[b])
  BY <1>1, <1>2, <1>4 DEF Typed
<1>6. /\ ask[b].kind \notin {"followings", "byOwner"} => owners'[b] = <<>>
      /\ ask[b].kind \in StarKinds /\ ask[b].kind \notin {"record", "queue"}
  BY <1>1, <1>2, KindsApart DEF OnPath
<1> QED
  BY <1>1, <1>2, <1>5, <1>6, FollowServes

\* GetUserCourseObjectIDs.
LEMMA QueryCoursesServes ==
  ASSUME CellsOK, NEW b \in Browsers, Served(b), OwnCells(b), QueryCoursesOf(b)
  PROVE  Served(b)'
<1>1. /\ next[b] = "query" /\ ask[b].kind = "followings" /\ UNCHANGED <<ids, shown, missed>>
      /\ owners' = [owners EXCEPT ![b] = Tail(@)]
  BY DEF QueryCoursesOf
<1>2. /\ Typed(owners[b], ids[b], rows[b], shown[b], missed[b])
      /\ OnPath(next[b], ask[b].kind, owners[b], ids[b], rows[b])
      /\ Shows(arrival[b], Now, Untouched, ask[b].kind, shown[b])
  BY ServedFacts
<1> DEFINE set == {id \in Courses : owner[id] = Head(owners[b]) /\ TypeOf(id) = "course"}
<1>3. PICK list \in Pages(set, Cardinality(Courses)) :
        /\ rows' = [rows EXCEPT ![b] = EntriesOf(list)]
        /\ IF list # <<>> THEN next' = [next EXCEPT ![b] = "filter"] ELSE Follow(b)
  BY DEF QueryCoursesOf
<1>4. list \in Seq(Courses)
  <2>1. Cardinality(Courses) \in Nat
    BY BrowsingAssumption, FS_CardinalityType
  <2>2. set \subseteq Courses
    OBVIOUS
  <2> HIDE DEF set
  <2> QED
    BY <2>1, <2>2, PageTyped
<1>5. /\ EntriesOf(list) \in Seq(Shown) /\ (EntriesOf(list) = <<>> <=> list = <<>>)
      /\ \A e \in ToSet(EntriesOf(list)) : e.record = NoRow
  BY <1>4, EntriesWait
<1>6. /\ rows'[b] = EntriesOf(list) /\ owners'[b] = Tail(owners[b]) /\ ids'[b] = ids[b]
      /\ shown'[b] = shown[b] /\ missed'[b] = missed[b]
  BY <1>1, <1>3 DEF CellsOK
<1>7. owners[b] # <<>> /\ owners[b] \in Seq(Pids)
  BY <1>1, <1>2, KindsApart DEF OnPath, Typed
<1>8. Tail(owners[b]) \in Seq(Pids)
  BY <1>7, TailOf
<1>9. Typed(owners'[b], ids'[b], rows'[b], shown'[b], missed'[b])
  BY <1>2, <1>5, <1>6, <1>8 DEF Typed
<1>10. CASE list # <<>>
  <2>1. next'[b] = "filter"
    BY <1>3, <1>10 DEF CellsOK
  <2>2. OnPath(next'[b], ask[b].kind, owners'[b], ids'[b], rows'[b])
    BY <1>1, <1>5, <1>6, <1>10, <2>1, KindsApart DEF OnPath, BrowseLabels
  <2>3. Waits(arrival[b], Now, Untouched, ask[b].kind, next'[b], rows'[b])
    BY <1>5, <1>6, <2>1 DEF Waits
  <2> QED
    BY <1>2, <1>6, <1>9, <2>2, <2>3, StatementServes
<1>11. CASE list = <<>>
  <2>1. rows'[b] = <<>> /\ Follow(b)
    BY <1>3, <1>5, <1>6, <1>11
  <2>2. RowsReady(arrival[b], Now, Untouched, ask[b].kind, rows'[b])
    BY <2>1, NoElements DEF RowsReady
  <2> QED
    BY <1>1, <1>2, <1>6, <1>9, <2>1, <2>2, KindsApart, FollowServes
<1> QED
  BY <1>10, <1>11

\* A course is filtered, or left out because its statement failed.
LEMMA FilterServes ==
  ASSUME CellsOK, NEW b \in Browsers, Served(b), OwnCells(b), next[b] = "filter",
         UNCHANGED <<owners, shown>>, rows' = [rows EXCEPT ![b] = Tail(@)],
         \/ UNCHANGED ids
         \/ ids' = [ids EXCEPT ![b] = Append(@, Head(rows[b]).id)],
         missed'[b] \subseteq missed[b] \cup {Head(rows[b]).id},
         IF rows'[b] # <<>> THEN UNCHANGED next ELSE Follow(b)
  PROVE  Served(b)'
<1>1. /\ Typed(owners[b], ids[b], rows[b], shown[b], missed[b])
      /\ OnPath(next[b], ask[b].kind, owners[b], ids[b], rows[b])
      /\ Shows(arrival[b], Now, Untouched, ask[b].kind, shown[b])
      /\ Waits(arrival[b], Now, Untouched, ask[b].kind, next[b], rows[b])
  BY ServedFacts
<1>2. ask[b].kind = "followings" /\ rows[b] # <<>> /\ rows[b] \in Seq(Shown)
  BY <1>1 DEF OnPath, Typed
<1>3. /\ Head(rows[b]) \in Shown /\ Tail(rows[b]) \in Seq(Shown)
      /\ ToSet(Tail(rows[b])) \subseteq ToSet(rows[b])
  BY <1>2, TailOf
<1>4. Head(rows[b]).id \in Courses
  BY <1>3 DEF Shown
<1>5. rows'[b] = Tail(rows[b]) /\ owners'[b] = owners[b] /\ shown'[b] = shown[b]
      /\ (ids'[b] = ids[b] \/ ids'[b] = Append(ids[b], Head(rows[b]).id))
  BY DEF CellsOK
<1>6. ids'[b] \in Seq(Courses) /\ missed'[b] \subseteq Courses
  <2>1. ids[b] \in Seq(Courses) /\ missed[b] \subseteq Courses
    BY <1>1 DEF Typed
  <2>2. Append(ids[b], Head(rows[b]).id) \in Seq(Courses)
    BY <1>4, <2>1, AppendProperties
  <2> QED
    BY <1>4, <1>5, <2>1, <2>2
<1>7. Typed(owners'[b], ids'[b], rows'[b], shown'[b], missed'[b])
  BY <1>1, <1>3, <1>5, <1>6 DEF Typed
<1>8. CASE rows'[b] # <<>>
  <2>1. next'[b] = "filter"
    BY <1>8
  <2>2. OnPath(next'[b], ask[b].kind, owners'[b], ids'[b], rows'[b])
    BY <1>2, <1>8, <2>1, KindsApart DEF OnPath, BrowseLabels
  <2>3. Waits(arrival[b], Now, Untouched, ask[b].kind, next'[b], rows'[b])
    BY <1>1, <1>3, <1>5, <2>1 DEF Waits
  <2> QED
    BY <1>1, <1>5, <1>7, <2>2, <2>3, StatementServes
<1>9. CASE rows'[b] = <<>>
  <2>1. Follow(b)
    BY <1>9
  <2>2. RowsReady(arrival[b], Now, Untouched, ask[b].kind, rows'[b])
    BY <1>9, NoElements DEF RowsReady
  <2> QED
    BY <1>1, <1>2, <1>5, <1>7, <1>9, <2>1, <2>2, KindsApart, FollowServes
<1> QED
  BY <1>8, <1>9

\* GetObjectsByOwnerIDs, also when it fails: then nothing is shown of an owner.
LEMMA OwnerServes ==
  ASSUME CellsOK, NEW b \in Browsers, Served(b), OwnCells(b), Follow(b),
         next[b] = "query", ask[b].kind = "byOwner", owners' = [owners EXCEPT ![b] = Tail(@)],
         UNCHANGED <<ids, shown>>, missed'[b] \subseteq Courses,
         \/ UNCHANGED rows
         \/ \E list \in Seq(Courses) : rows' = [rows EXCEPT ![b] = EntriesOf(list)]
  PROVE  Served(b)'
<1>1. /\ Typed(owners[b], ids[b], rows[b], shown[b], missed[b])
      /\ OnPath(next[b], ask[b].kind, owners[b], ids[b], rows[b])
      /\ Shows(arrival[b], Now, Untouched, ask[b].kind, shown[b])
      /\ RowsReady(arrival[b], Now, Untouched, ask[b].kind, rows[b])
  BY ServedFacts
<1>2. owners'[b] = Tail(owners[b]) /\ ids'[b] = ids[b] /\ shown'[b] = shown[b]
  BY DEF CellsOK
<1>3. Tail(owners[b]) \in Seq(Pids)
  <2>1. owners[b] # <<>> /\ owners[b] \in Seq(Pids)
    BY <1>1, KindsApart DEF OnPath, Typed
  <2> QED
    BY <2>1, TailOf
<1>4. rows'[b] \in Seq(Shown) /\ RowsReady(arrival[b], Now, Untouched, ask[b].kind, rows'[b])
  <2>1. CASE UNCHANGED rows
    BY <1>1, <2>1 DEF Typed
  <2>2. ASSUME NEW list \in Seq(Courses), rows' = [rows EXCEPT ![b] = EntriesOf(list)]
        PROVE  rows'[b] \in Seq(Shown)
               /\ RowsReady(arrival[b], Now, Untouched, ask[b].kind, rows'[b])
    <3>1. rows'[b] = EntriesOf(list)
      BY <2>2 DEF CellsOK
    <3> QED
      BY <3>1, EntriesWait, KindsApart DEF RowsReady
  <2> QED
    BY <2>1, <2>2
<1>5. Typed(owners'[b], ids'[b], rows'[b], shown'[b], missed'[b])
  BY <1>1, <1>2, <1>3, <1>4 DEF Typed
<1>6. ask[b].kind \notin StarKinds /\ ids'[b] = <<>>
  BY <1>1, <1>2, KindsApart DEF OnPath
<1> QED
  BY <1>1, <1>2, <1>4, <1>5, <1>6, FollowServes

\* What is left of the courses once a batch has been read.
LEMMA BatchFacts ==
  ASSUME NEW b \in Browsers, ids[b] \in Seq(Courses), ids[b] # <<>>
  PROVE  /\ Batch(b) \in Seq(Courses)
         /\ SubSeq(ids[b], Len(Batch(b)) + 1, Len(ids[b])) \in Seq(Courses)
<1> DEFINE s == ids[b]  n == Len(s)
<1>1. Head(s) \in Courses /\ n \in Nat /\ s \in Seq(Courses)
  BY HeadTailProperties, LenProperties
<1>2. Batch(b) \in Seq(Courses) /\ Len(Batch(b)) \in Nat
  <2>1. <<Head(s)>> \in Seq(Courses) /\ Len(<<Head(s)>>) = 1
    BY <1>1
  <2> QED
    BY <1>1, <2>1 DEF Batch
<1> DEFINE k == Len(Batch(b))
<1> HIDE DEF k, s, n
<1>3. SubSeq(s, k + 1, n) \in Seq(Courses)
  <2>1. k \in Nat /\ n \in Nat /\ n = Len(s)
    BY <1>1, <1>2 DEF k, n
  <2>2. \A i \in (k + 1)..n : s[i] \in Courses
    BY <1>1, <2>1, ElementOfSeq
  <2> QED
    BY <2>1, <2>2, SubSeqProperties
<1> QED
  BY <1>2, <1>3 DEF k, s, n

\* GetCustomRankingsByDataIDs, also when it fails.
LEMMA RanksServe ==
  ASSUME TypeOK, CellsOK, NEW b \in Browsers, Served(b), OwnCells(b), Follow(b), next[b] = "rank",
         ids' = [ids EXCEPT ![b] = SubSeq(@, Len(Batch(b)) + 1, Len(@))],
         UNCHANGED <<owners, shown>>,
         \/ UNCHANGED rows /\ missed'[b] = missed[b] \cup ToSet(Batch(b))
         \/ /\ UNCHANGED missed
            /\ LET list == Only(Batch(b), Readable) IN
               rows' = [rows EXCEPT ![b] = [i \in DOMAIN list |->
                          [id |-> list[i], val |-> stars[list[i]], record |-> NoRow]]]
  PROVE  Served(b)'
<1>1. /\ Typed(owners[b], ids[b], rows[b], shown[b], missed[b])
      /\ OnPath(next[b], ask[b].kind, owners[b], ids[b], rows[b])
      /\ Shows(arrival[b], Now, Untouched, ask[b].kind, shown[b])
      /\ RowsReady(arrival[b], Now, Untouched, ask[b].kind, rows[b])
  BY ServedFacts
<1>2. ids[b] \in Seq(Courses) /\ ids[b] # <<>> /\ ask[b].kind \in StarKinds
  BY <1>1 DEF Typed, OnPath
<1>3. Batch(b) \in Seq(Courses)
      /\ SubSeq(ids[b], Len(Batch(b)) + 1, Len(ids[b])) \in Seq(Courses)
  BY <1>2, BatchFacts
<1>4. ids'[b] \in Seq(Courses) /\ owners'[b] = owners[b] /\ shown'[b] = shown[b]
  BY <1>3 DEF CellsOK
<1>5. /\ rows'[b] \in Seq(Shown) /\ missed'[b] \subseteq Courses
      /\ RowsReady(arrival[b], Now, Untouched, ask[b].kind, rows'[b])
  <2>1. CASE UNCHANGED rows /\ missed'[b] = missed[b] \cup ToSet(Batch(b))
    <3>1. ToSet(Batch(b)) \subseteq Courses
      BY <1>3, ElementsTyped
    <3> QED
      BY <1>1, <2>1, <3>1 DEF Typed
  <2> DEFINE list == Only(Batch(b), Readable)
             found == [i \in DOMAIN list |->
                         [id |-> list[i], val |-> stars[list[i]], record |-> NoRow]]
  <2>2. CASE UNCHANGED missed /\ rows' = [rows EXCEPT ![b] = found]
    <3>1. rows'[b] = found /\ missed'[b] \subseteq Courses
      BY <1>1, <2>2 DEF CellsOK, Typed
    <3>2. list \in Seq(Courses) /\ ToSet(list) \subseteq Readable
      BY <1>3, OnlyFacts
    <3> HIDE DEF list
    <3>3. ASSUME NEW id \in Readable
          PROVE  LET e == [id |-> id, val |-> stars[id], record |-> NoRow] IN
                 /\ e \in Shown /\ e.record = NoRow
                 /\ StarsOK(arrival[b], Now, Untouched, e)
      <4> DEFINE e == [id |-> id, val |-> stars[id], record |-> NoRow]
      <4>1. id \in Courses /\ stars[id] \in Int /\ stars[id] # NoRow
        BY DEF Readable, TypeOK
      <4>2. e.id = id /\ e.val = stars[id] /\ e.record = NoRow /\ e \in Shown
        BY <4>1 DEF Shown
      <4> HIDE DEF e
      <4>3. \A n \in Int : n <= n
        OBVIOUS
      <4>4. id \in Untouched /\ arrival[b].stars[id] # NoRow =>
              arrival[b].stars[id] <= Now.stars[id]
        BY <4>1 DEF Served, Later
      <4>5. Now.stars[id] = stars[id]
        BY DEF Now
      <4>6. StarsOK(arrival[b], Now, Untouched, e)
        BY <4>1, <4>2, <4>3, <4>4, <4>5 DEF StarsOK
      <4> QED
        BY <4>2, <4>6 DEF e
    <3>4. \A i \in DOMAIN list : list[i] \in Readable
      BY <3>2 DEF ToSet
    <3>5. found \in Seq(Shown)
      <4>1. DOMAIN list = 1..Len(list) /\ Len(list) \in Nat
        BY <3>2, LenProperties
      <4>2. \A i \in DOMAIN list : [id |-> list[i], val |-> stars[list[i]], record |-> NoRow] \in Shown
        BY <3>3, <3>4
      <4>3. found \in [1..Len(list) -> Shown]
        BY <4>1, <4>2
      <4> QED
        BY <4>1, <4>3, SeqDef
    <3>6. ASSUME NEW e \in ToSet(found)
          PROVE  e.record = NoRow /\ StarsOK(arrival[b], Now, Untouched, e)
      <4>1. PICK i \in DOMAIN found : found[i] = e
        BY <3>6 DEF ToSet
      <4>2. list[i] \in Readable
            /\ e = [id |-> list[i], val |-> stars[list[i]], record |-> NoRow]
        BY <3>4, <4>1
      <4> QED
        BY <3>3, <4>2
    <3> HIDE DEF found
    <3> QED
      BY <3>1, <3>5, <3>6 DEF RowsReady
  <2> QED
    BY <2>1, <2>2
<1>6. Typed(owners'[b], ids'[b], rows'[b], shown'[b], missed'[b])
  BY <1>1, <1>4, <1>5 DEF Typed
<1>7. /\ ask[b].kind \notin {"followings", "byOwner"} => owners'[b] = <<>>
      /\ ask[b].kind \notin {"record", "queue"}
  BY <1>1, <1>2, <1>4, KindsApart DEF OnPath
<1> QED
  BY <1>1, <1>2, <1>4, <1>5, <1>6, <1>7, FollowServes

\* What is known of the row at the head.
LEMMA HeadFacts ==
  ASSUME NEW b \in Browsers, Served(b), next[b] \in {"look", "check", "record", "queue"}
  PROVE  /\ rows[b] # <<>> /\ Head(rows[b]) \in Shown /\ Head(rows[b]).id \in Courses
         /\ Head(rows[b]).record = NoRow
         /\ ask[b].kind \in StarKinds => StarsOK(arrival[b], Now, Untouched, Head(rows[b]))
         /\ next[b] \in {"record", "queue"} \/ (next[b] = "check" /\ ask[b].kind = "withRecords")
              => StageOK(arrival[b], Now, Head(rows[b]).id)
         /\ next[b] = "look" => ask[b].kind \notin {"record", "queue"}
         /\ next[b] = "check" => ask[b].kind \in {"withRecords", "record", "queue"}
         /\ next[b] = "record" => ask[b].kind \in {"withRecords", "record"}
         /\ next[b] = "queue" => ask[b].kind = "queue"
<1>1. /\ Typed(owners[b], ids[b], rows[b], shown[b], missed[b])
      /\ OnPath(next[b], ask[b].kind, owners[b], ids[b], rows[b])
      /\ Waits(arrival[b], Now, Untouched, ask[b].kind, next[b], rows[b])
      /\ RowsReady(arrival[b], Now, Untouched, ask[b].kind, rows[b])
  BY ServedFacts
<1>2. rows[b] # <<>> /\ rows[b] \in Seq(Shown)
  BY <1>1 DEF Typed, OnPath
<1>3. Head(rows[b]) \in Shown /\ Head(rows[b]) \in ToSet(rows[b])
  BY <1>2, TailOf
<1>4. Head(rows[b]).id \in Courses
  BY <1>3 DEF Shown
<1>5. /\ Head(rows[b]).record = NoRow
      /\ ask[b].kind \in StarKinds => StarsOK(arrival[b], Now, Untouched, Head(rows[b]))
  BY <1>1, <1>3 DEF RowsReady
<1>6. next[b] \in {"record", "queue"} \/ (next[b] = "check" /\ ask[b].kind = "withRecords")
              => StageOK(arrival[b], Now, Head(rows[b]).id)
  BY <1>1 DEF Waits
<1>7. /\ next[b] = "look" => ask[b].kind \notin {"record", "queue"}
      /\ next[b] = "check" => ask[b].kind \in {"withRecords", "record", "queue"}
      /\ next[b] = "record" => ask[b].kind \in {"withRecords", "record"}
      /\ next[b] = "queue" => ask[b].kind = "queue"
  BY <1>1 DEF OnPath
<1> QED
  BY <1>2, <1>3, <1>4, <1>5, <1>6, <1>7

\* GetObjectInfoByDataID.
LEMMA LookUpServes ==
  ASSUME CellsOK, NEW b \in Browsers, Served(b), OwnCells(b), LookUp(b)
  PROVE  Served(b)'
<1> DEFINE entry == Head(rows[b])
           visible == Visible(b, entry.id)
<1>1. next[b] = "look" /\ UNCHANGED <<owners, ids, missed>>
  BY DEF LookUp
<1>2. /\ rows[b] # <<>> /\ entry \in Shown /\ entry.id \in Courses /\ entry.record = NoRow
      /\ ask[b].kind \in StarKinds => StarsOK(arrival[b], Now, Untouched, entry)
      /\ ask[b].kind \notin {"record", "queue"}
  BY <1>1, HeadFacts
<1>3. visible => StageOK(arrival[b], Now, entry.id)
  BY <1>2, SeenNow DEF Visible
<1>4. visible => EntryOK(arrival[b], Now, Untouched, ask[b].kind, entry)
  BY <1>2, <1>3 DEF EntryOK, BestOK
<1>5. missed'[b] \subseteq Courses
  BY <1>1, ServedFacts DEF Typed
<1>6. CASE visible /\ ask[b].kind = "withRecords"
  <2>1. next'[b] = "check" /\ UNCHANGED <<rows, shown>>
    BY <1>6 DEF LookUp, CellsOK
  <2> QED
    BY <1>1, <1>2, <1>3, <1>6, <2>1, RowKeeps
<1>7. CASE ~visible /\ ask[b].kind \in StrictKinds
  <2>1. next'[b] = "error" /\ UNCHANGED <<rows, shown>>
    BY <1>7 DEF LookUp, Refuse, CellsOK
  <2> QED
    BY <1>1, <2>1, RowKeeps
<1>8. CASE ~(visible /\ ask[b].kind = "withRecords") /\ ~(~visible /\ ask[b].kind \in StrictKinds)
  <2>1. /\ rows' = [rows EXCEPT ![b] = Tail(@)] /\ Follow(b)
        /\ \/ visible /\ Show(b, entry)
           \/ Show(b, NoRow)
           \/ UNCHANGED shown
    BY <1>8 DEF LookUp
  <2>2. \/ UNCHANGED shown
        \/ \E e \in Shown \cup {NoRow} :
             /\ e # NoRow => EntryOK(arrival[b], Now, Untouched, ask[b].kind, e)
             /\ Show(b, e)
    <3> HIDE DEF entry, visible
    <3> QED
      BY <1>2, <1>4, <2>1
  <2> QED
    BY <1>1, <1>2, <1>5, <2>1, <2>2, RowDone
<1> QED
  BY <1>6, <1>7, <1>8

\* A course of GetMetasWithCourseRecord without a record.
LEMMA WithoutServes ==
  ASSUME CellsOK, NEW b \in Browsers, Served(b), OwnCells(b), next[b] \in {"check", "record"},
         ask[b].kind = "withRecords", UNCHANGED <<owners, ids>>, missed'[b] \subseteq Courses,
         ShowWithout(b)
  PROVE  Served(b)'
<1> DEFINE e == EntryOf(Head(rows[b]).id)
<1>1. /\ rows[b] # <<>> /\ Head(rows[b]).id \in Courses
      /\ StageOK(arrival[b], Now, Head(rows[b]).id)
  BY HeadFacts
<1>2. e \in Shown /\ EntryOK(arrival[b], Now, Untouched, ask[b].kind, e)
  BY <1>1, PlainEntry, KindsApart
<1>3. rows' = [rows EXCEPT ![b] = Tail(@)] /\ Follow(b) /\ Show(b, e)
  BY DEF ShowWithout
<1> HIDE DEF e
<1> QED
  BY <1>1, <1>2, <1>3, RowDone

\* IsObjectAvailable.
LEMMA CheckServes ==
  ASSUME CellsOK, NEW b \in Browsers, Served(b), OwnCells(b), CheckCourse(b)
  PROVE  Served(b)'
<1>1. next[b] = "check" /\ UNCHANGED <<owners, ids, missed>>
  BY DEF CheckCourse
<1>2. /\ rows[b] # <<>> /\ Head(rows[b]).id \in Courses
      /\ ask[b].kind \in {"withRecords", "record", "queue"}
  BY <1>1, HeadFacts
<1>3. missed'[b] \subseteq Courses
  BY <1>1, ServedFacts DEF Typed
<1>4. CASE IsObjectAvailable(Head(rows[b]).id)
  <2>1. /\ next'[b] = IF ask[b].kind = "queue" THEN "queue" ELSE "record"
        /\ UNCHANGED <<rows, shown>>
    BY <1>4 DEF CheckCourse, CellsOK
  <2>2. StageOK(arrival[b], Now, Head(rows[b]).id)
    BY <1>2, <1>4, SeenNow
  <2> QED
    BY <1>1, <1>2, <2>1, <2>2, RowKeeps
<1>5. CASE ~IsObjectAvailable(Head(rows[b]).id) /\ ask[b].kind = "withRecords"
  BY <1>1, <1>3, <1>5, WithoutServes DEF CheckCourse
<1>6. CASE ~IsObjectAvailable(Head(rows[b]).id) /\ ask[b].kind # "withRecords"
  <2>1. next'[b] = "error" /\ UNCHANGED <<rows, shown>>
    BY <1>6 DEF CheckCourse, Refuse, CellsOK
  <2> QED
    BY <1>1, <2>1, RowKeeps
<1> QED
  BY <1>4, <1>5, <1>6

\* GetCourseRecordByDataIDAndSlot.
LEMMA RecordServes ==
  ASSUME TypeOK, CellsOK, NEW b \in Browsers, Served(b), OwnCells(b), ReadRecord(b)
  PROVE  Served(b)'
<1> DEFINE id == Head(rows[b]).id
           e == [EntryOf(id) EXCEPT !.record = records[id]]
<1>1. next[b] = "record" /\ UNCHANGED <<owners, ids, missed>>
  BY DEF ReadRecord
<1>2. /\ rows[b] # <<>> /\ id \in Courses /\ StageOK(arrival[b], Now, id)
      /\ ask[b].kind \in {"withRecords", "record"}
  BY <1>1, HeadFacts
<1>3. missed'[b] \subseteq Courses
  BY <1>1, ServedFacts DEF Typed
<1>4. CASE records[id] # NoRow
  <2>1. rows' = [rows EXCEPT ![b] = Tail(@)] /\ Follow(b) /\ Show(b, e)
    BY <1>4 DEF ReadRecord
  <2>2. e = [id |-> id, val |-> NoRow, record |-> records[id]]
    BY DEF EntryOf
  <2>3. records[id] \in Record /\ records[id].score \in Int
    <3>1. records[id] \in Record
      BY <1>2, <1>4 DEF TypeOK
    <3> QED
      BY <3>1 DEF Record
  <2>4. Later(arrival[b], Now, Untouched)
    BY DEF Served
  <2> DEFINE best == records[id]  course == id  past == arrival[b]
  <2>5. id \in Untouched /\ past.records[id] # NoRow => best.score <= past.records[id].score
    BY <1>2, <2>4 DEF Later, Now
  <2>6. Now.records[id] = best
    BY DEF Now
  <2>7. best.score <= best.score
    <3>1. \A n \in Int : n <= n
      OBVIOUS
    <3> QED
      BY <2>3, <3>1
  <2>8. e.id = id /\ e.record = best /\ e \in Shown
    BY <1>2, <2>2, <2>3 DEF Shown
  <2>9. ask[b].kind \notin StarKinds /\ ask[b].kind # "queue"
    BY <1>2, KindsApart
  <2> HIDE DEF e, best, id, past
  <2>10. BestOK(past, Now, Untouched, e)
    BY <1>4, <2>5, <2>6, <2>7, <2>8 DEF BestOK, best
  <2>11. EntryOK(arrival[b], Now, Untouched, ask[b].kind, e)
    BY <1>2, <2>8, <2>9, <2>10 DEF EntryOK, past
  <2> QED
    BY <1>1, <1>2, <1>3, <2>1, <2>8, <2>11, RowDone
<1>5. CASE records[id] = NoRow /\ ask[b].kind = "withRecords"
  BY <1>1, <1>3, <1>5, WithoutServes DEF ReadRecord
<1>6. CASE records[id] = NoRow /\ ask[b].kind # "withRecords"
  <2>1. next'[b] = "error" /\ UNCHANGED <<rows, shown>>
    BY <1>6 DEF ReadRecord, Refuse, CellsOK
  <2> QED
    BY <1>1, <2>1, RowKeeps
<1> QED
  BY <1>4, <1>5, <1>6

\* GetBufferQueuesByDataIDAndSlot.
LEMMA QueueServes ==
  ASSUME TypeOK, QueuesFinite, CellsOK, NEW b \in Browsers, Served(b), OwnCells(b), ReadQueue(b)
  PROVE  Served(b)'
<1> DEFINE id == Head(rows[b]).id
<1>1. /\ next[b] = "queue" /\ UNCHANGED <<owners, ids, missed>> /\ Follow(b)
      /\ rows' = [rows EXCEPT ![b] = <<>>]
  BY DEF ReadQueue
<1>2. id \in Courses /\ StageOK(arrival[b], Now, id) /\ ask[b].kind = "queue"
  BY <1>1, HeadFacts
<1> DEFINE values == {e.val : e \in queue[id]}
<1>3. PICK list \in SetToSeqs(values) :
        shown' = [shown EXCEPT ![b] =
          [i \in DOMAIN list |-> [id |-> id, val |-> list[i], record |-> NoRow]]]
  BY DEF ReadQueue
<1> DEFINE reply == [i \in DOMAIN list |-> [id |-> id, val |-> list[i], record |-> NoRow]]
<1>4. values \subseteq Int /\ Cardinality(values) \in Nat
  <2>1. values \subseteq Int
    BY <1>2 DEF TypeOK, Entry
  <2>2. IsFiniteSet(values)
    BY <1>2 DEF QueuesFinite, Buffers
  <2> HIDE DEF values
  <2> QED
    BY <2>1, <2>2, FS_CardinalityType
<1>5. shown'[b] = reply /\ rows'[b] = <<>>
  BY <1>1, <1>3 DEF CellsOK
<1>6. ASSUME NEW val \in values
      PROVE  LET e == [id |-> id, val |-> val, record |-> NoRow] IN
             e \in Shown /\ EntryOK(arrival[b], Now, Untouched, ask[b].kind, e)
  <2> DEFINE e == [id |-> id, val |-> val, record |-> NoRow]
  <2>1. e \in Shown /\ e.id = id /\ e.val = val /\ e.record = NoRow
    BY <1>2, <1>4 DEF Shown
  <2>2. \E f \in Now.queue[id] : f.val = val
    BY DEF Now
  <2> HIDE DEF e, id
  <2>3. EntryOK(arrival[b], Now, Untouched, ask[b].kind, e)
    BY <1>2, <2>1, <2>2, KindsApart DEF EntryOK, BestOK
  <2> QED
    BY <2>1, <2>3 DEF e
<1> DEFINE n == Cardinality(values)
<1>7. list \in [1..n -> values]
  BY DEF SetToSeqs
<1> HIDE DEF values, n
<1>8. DOMAIN list = 1..n /\ n \in Nat /\ \A i \in 1..n : list[i] \in values
  BY <1>4, <1>7 DEF n
<1>9. reply \in Entries
  <2>1. \A i \in 1..n : [id |-> id, val |-> list[i], record |-> NoRow] \in Shown \cup {NoRow}
    BY <1>6, <1>8
  <2>2. reply \in [1..n -> Shown \cup {NoRow}]
    BY <1>8, <2>1
  <2> QED
    BY <1>8, <2>2, SeqDef DEF Entries
<1>10. Shows(arrival[b], Now, Untouched, ask[b].kind, reply)
  <2> SUFFICES ASSUME NEW e \in ToSet(reply)
               PROVE  EntryOK(arrival[b], Now, Untouched, ask[b].kind, e)
    BY DEF Shows
  <2>1. PICK i \in DOMAIN reply : reply[i] = e
    BY DEF ToSet
  <2>2. list[i] \in values /\ e = [id |-> id, val |-> list[i], record |-> NoRow]
    BY <1>8, <2>1
  <2> QED
    BY <1>6, <2>2
<1>11. Typed(owners[b], ids[b], rows[b], shown[b], missed[b])
       /\ OnPath(next[b], ask[b].kind, owners[b], ids[b], rows[b])
  BY ServedFacts
<1> HIDE DEF reply
<1>12. Typed(owners'[b], ids'[b], rows'[b], shown'[b], missed'[b])
  <2>1. <<>> \in Seq(Shown)
    BY EmptySeq
  <2> QED
    BY <1>1, <1>5, <1>9, <1>11, <2>1 DEF Typed
<1>13. RowsReady(arrival[b], Now, Untouched, ask[b].kind, rows'[b])
  BY <1>5, NoElements DEF RowsReady
<1>14. owners'[b] = <<>> /\ ids'[b] = <<>>
  BY <1>1, <1>2, <1>11, KindsApart DEF OnPath
<1> QED
  BY <1>1, <1>5, <1>10, <1>12, <1>13, <1>14, FollowServes

\* A statement fails and the list goes on without its courses.
LEMMA SkipServes ==
  ASSUME TypeOK, CellsOK, NEW b \in Browsers, Served(b), OwnCells(b), SkipFails(b)
  PROVE  Served(b)'
<1>1. Typed(owners[b], ids[b], rows[b], shown[b], missed[b])
  BY ServedFacts
<1>2. missed[b] \subseteq Courses
  BY <1>1 DEF Typed
<1>3. CASE next[b] = "query"
  <2>1. /\ ask[b].kind = "byOwner" /\ owners' = [owners EXCEPT ![b] = Tail(@)]
        /\ UNCHANGED <<ids, rows, shown>> /\ Follow(b)
        /\ missed' = [missed EXCEPT ![b] = @ \cup {id \in Courses : owner[id] = Head(owners[b])}]
    BY <1>3 DEF SkipFails
  <2>2. missed'[b] \subseteq Courses
    BY <1>2, <2>1 DEF CellsOK
  <2> QED
    BY <1>3, <2>1, <2>2, OwnerServes
<1>4. CASE next[b] = "filter"
  <2>1. /\ missed' = [missed EXCEPT ![b] = @ \cup {Head(rows[b]).id}]
        /\ rows' = [rows EXCEPT ![b] = Tail(@)] /\ UNCHANGED <<owners, ids, shown>>
        /\ IF rows'[b] # <<>> THEN UNCHANGED next ELSE Follow(b)
    BY <1>4 DEF SkipFails
  <2>2. missed'[b] \subseteq missed[b] \cup {Head(rows[b]).id}
    BY <2>1 DEF CellsOK
  <2> QED
    BY <1>4, <2>1, <2>2, FilterServes
<1>5. CASE next[b] = "rank"
  <2>1. /\ missed' = [missed EXCEPT ![b] = @ \cup ToSet(Batch(b))]
        /\ ids' = [ids EXCEPT ![b] = SubSeq(@, Len(Batch(b)) + 1, Len(@))]
        /\ UNCHANGED <<owners, rows, shown>> /\ Follow(b)
    BY <1>5 DEF SkipFails
  <2>2. missed'[b] = missed[b] \cup ToSet(Batch(b))
    BY <2>1 DEF CellsOK
  <2> QED
    BY <1>5, <2>1, <2>2, RanksServe
<1>6. CASE next[b] = "look"
  <2>1. /\ missed' = [missed EXCEPT ![b] = @ \cup {Head(rows[b]).id}]
        /\ rows' = [rows EXCEPT ![b] = Tail(@)] /\ (Show(b, NoRow) \/ UNCHANGED shown)
        /\ UNCHANGED <<owners, ids>> /\ Follow(b)
    BY <1>6 DEF SkipFails
  <2>2. rows[b] # <<>> /\ Head(rows[b]).id \in Courses
    BY <1>6, HeadFacts
  <2>3. missed'[b] \subseteq Courses
    BY <1>2, <2>1, <2>2 DEF CellsOK
  <2> QED
    BY <1>6, <2>1, <2>2, <2>3, RowDone
<1>7. CASE next[b] \in {"check", "record"}
  <2>1. /\ missed' = [missed EXCEPT ![b] = @ \cup {Head(rows[b]).id}]
        /\ UNCHANGED <<owners, ids>> /\ ShowWithout(b) /\ ask[b].kind = "withRecords"
    BY <1>7 DEF SkipFails
  <2>2. Head(rows[b]).id \in Courses
    BY <1>7, HeadFacts
  <2>3. missed'[b] \subseteq Courses
    BY <1>2, <2>1, <2>2 DEF CellsOK
  <2> QED
    BY <1>7, <2>1, <2>3, WithoutServes
<1> QED
  BY <1>3, <1>4, <1>5, <1>6, <1>7 DEF SkipFails

\* Every statement serves its request.
LEMMA ReadServes ==
  ASSUME BrowseInv, NEW b \in Browsers, Read(b)
  PROVE  Served(b)' /\ OwnCells(b)
<1>1. TypeOK /\ QueuesFinite /\ CellsOK /\ (Fresh(b) \/ Served(b))
  BY DEF BrowseInv, ReplyInv, IInv
<1>2. OwnCells(b)
  BY <1>1, ReadIsOwn
<1>3. next[b] \notin {"idle", "error"}
  BY DEF Read, QueryPage, QueryCoursesOf, FilterCourse, QueryObjectsOf, ReadRanks, LookUp,
         CheckCourse, ReadRecord, ReadQueue, SkipFails, RequestFails
<1>4. Served(b)
  BY <1>1, <1>3 DEF Fresh
<1>5. missed[b] \subseteq Courses
  BY <1>4, ServedFacts DEF Typed
<1>6. CASE FilterCourse(b)
  <2>1. /\ next[b] = "filter" /\ UNCHANGED <<owners, shown, missed>>
        /\ rows' = [rows EXCEPT ![b] = Tail(@)]
        /\ ids' = [ids EXCEPT ![b] = Append(@, Head(rows[b]).id)] \/ UNCHANGED ids
        /\ IF rows'[b] # <<>> THEN UNCHANGED next ELSE Follow(b)
    BY <1>6 DEF FilterCourse
  <2> QED
    BY <1>1, <1>2, <1>4, <2>1, FilterServes
<1>7. CASE QueryObjectsOf(b)
  <2> DEFINE set == {id \in Courses : /\ owner[id] = Head(owners[b]) /\ stage[id] = "published"
                                      /\ TypeOf(id) \in ask[b].types}
  <2>1. /\ next[b] = "query" /\ ask[b].kind = "byOwner" /\ owners' = [owners EXCEPT ![b] = Tail(@)]
        /\ UNCHANGED <<ids, shown, missed>> /\ Follow(b)
    BY <1>7 DEF QueryObjectsOf
  <2>2. PICK list \in Pages(set, ask[b].limit) : rows' = [rows EXCEPT ![b] = EntriesOf(list)]
    BY <1>7 DEF QueryObjectsOf
  <2>3. list \in Seq(Courses)
    <3>1. set \subseteq Courses /\ ask[b].limit \in Nat
      BY <1>4, ServedFacts
    <3> HIDE DEF set
    <3> QED
      BY <3>1, PageTyped
  <2> HIDE DEF set
  <2> QED
    BY <1>1, <1>2, <1>4, <1>5, <2>1, <2>2, <2>3, OwnerServes
<1>8. CASE ReadRanks(b)
  <2>1. /\ next[b] = "rank" /\ UNCHANGED <<owners, shown, missed>> /\ Follow(b)
        /\ ids' = [ids EXCEPT ![b] = SubSeq(@, Len(Batch(b)) + 1, Len(@))]
        /\ LET list == Only(Batch(b), Readable) IN
           rows' = [rows EXCEPT ![b] = [i \in DOMAIN list |->
                      [id |-> list[i], val |-> stars[list[i]], record |-> NoRow]]]
    BY <1>8 DEF ReadRanks
  <2> QED
    BY <1>1, <1>2, <1>4, <2>1, RanksServe
<1>9. CASE RequestFails(b)
  <2>1. next[b] # "filter" /\ next'[b] = "error" /\ UNCHANGED <<owners, ids, rows, shown, missed>>
    BY <1>1, <1>9 DEF RequestFails, Refuse, CellsOK
  <2> QED
    BY <1>1, <1>2, <1>4, <2>1, RowKeeps
<1>10. CASE QueryPage(b) \/ QueryCoursesOf(b)
  BY <1>1, <1>2, <1>4, <1>10, QueryPageServes, QueryCoursesServes
<1>11. CASE LookUp(b) \/ CheckCourse(b)
  BY <1>1, <1>2, <1>4, <1>11, LookUpServes, CheckServes
<1>12. CASE ReadRecord(b) \/ ReadQueue(b)
  BY <1>1, <1>2, <1>4, <1>12, RecordServes, QueueServes
<1>13. CASE SkipFails(b) /\ Kept
  BY <1>1, <1>2, <1>4, <1>13, SkipServes
<1> QED
  BY <1>2, <1>6, <1>7, <1>8, <1>9, <1>10, <1>11, <1>12, <1>13 DEF Read
-----------------------------------------------------------------------------
\* Every label that a request comes to is one of these.
LEMMA LabelsStay ==
  ASSUME NEW b \in Browsers, Arrive(b) \/ Read(b), next \in [Browsers -> BrowseLabels]
  PROVE  next' \in [Browsers -> BrowseLabels]
<1> DEFINE Proceeds == \E label \in BrowseLabels : next' = [next EXCEPT ![b] = label]
<1>0. {"query", "filter", "rank", "look", "check", "record", "queue", "ok", "error"}
        \subseteq BrowseLabels
  BY DEF BrowseLabels
<1>1. CASE Proceeds
  BY <1>1
<1>2. CASE UNCHANGED next
  BY <1>2
<1>3. CASE Arrive(b)
  <2>1. CASE \E kind, limit, list, people, types, label :
               /\ Begins(kind, limit, list, people, types, label)
               /\ Begin(b, kind, limit, list, people, types, label)
    <3>1. PICK kind, limit, list, people, types, label :
            /\ Begins(kind, limit, list, people, types, label)
            /\ Begin(b, kind, limit, list, people, types, label)
      BY <2>1
    <3>2. label \in {"query", "rank", "look", "check"}
      BY <3>1 DEF Begins
    <3>3. \/ next' = [next EXCEPT ![b] = "ok"]
          \/ next' = [next EXCEPT ![b] = label]
      BY <3>1 DEF Begin
    <3> QED
      BY <1>0, <1>1, <3>2, <3>3
  <2>2. CASE next' = [next EXCEPT ![b] = "error"]
    BY <1>0, <1>1, <2>2
  <2> QED
    BY <1>3, <2>1, <2>2, ArrivalBegins
<1>4. CASE Follow(b) \/ Refuse(b)
  <2>1. \E label \in {"look", "rank", "query", "ok", "error"} :
          next' = [next EXCEPT ![b] = label]
    BY <1>4 DEF Follow, Refuse
  <2> QED
    BY <1>0, <1>1, <2>1
<1>5. CASE \E label \in {"filter", "check", "record", "queue"} : next' = [next EXCEPT ![b] = label]
  BY <1>0, <1>1, <1>5
<1>6. CASE Read(b)
  <2>1. \/ Follow(b) \/ Refuse(b) \/ UNCHANGED next
        \/ \E label \in {"filter", "check", "record", "queue"} : next' = [next EXCEPT ![b] = label]
    <3>1. CASE QueryPage(b) \/ QueryObjectsOf(b) \/ ReadRanks(b) \/ ReadQueue(b)
      BY <3>1 DEF QueryPage, QueryObjectsOf, ReadRanks, ReadQueue
    <3>2. CASE QueryCoursesOf(b) \/ FilterCourse(b)
      BY <3>2 DEF QueryCoursesOf, FilterCourse
    <3>3. CASE LookUp(b)
      BY <3>3 DEF LookUp
    <3>4. CASE CheckCourse(b)
      BY <3>4 DEF CheckCourse, ShowWithout
    <3>5. CASE ReadRecord(b) \/ RequestFails(b)
      BY <3>5 DEF ReadRecord, ShowWithout, RequestFails
    <3>6. CASE SkipFails(b)
      BY <3>6 DEF SkipFails, ShowWithout
    <3> QED
      BY <1>6, <3>1, <3>2, <3>3, <3>4, <3>5, <3>6 DEF Read
  <2> QED
    BY <1>2, <1>4, <1>5, <2>1
<1> QED
  BY <1>3, <1>6

LEMMA BrowseInitOK == BrowsingInit => BrowseInv
<1> SUFFICES ASSUME BrowsingInit PROVE BrowseInv
  OBVIOUS
<1>1. ReplyInv
  BY BrowsingInitOK
<1>2. ScoresOK /\ QueuesFinite
  BY InitScores, InitQueues DEF BrowsingInit
<1>3. next \in [Browsers -> BrowseLabels] /\ \A b \in Browsers : Fresh(b)
  BY DEF BrowsingInit, BrowseLabels, Fresh
<1> QED
  BY <1>1, <1>2, <1>3 DEF BrowseInv

LEMMA BrowseStepOK == BrowseInv /\ [BrowsingNext]_<<vars, browseVars>> => BrowseInv'
<1> SUFFICES ASSUME BrowseInv, [BrowsingNext]_<<vars, browseVars>> PROVE BrowseInv'
  OBVIOUS
<1>1. /\ ReplyInv /\ ScoresOK /\ QueuesFinite /\ next \in [Browsers -> BrowseLabels]
      /\ (\A b \in Browsers : Fresh(b) \/ Served(b)) /\ IInv /\ TypeOK /\ CellsOK
  BY DEF BrowseInv, ReplyInv, IInv
<1>2. ReplyInv'
  BY <1>1, BrowsingStepOK
<1>3. [Next]_vars
  BY <1>1, ArriveOK, ReadIsOwn, ElsewhereFacts DEF BrowsingNext, RepliesKept, OwnCells
<1>4. ScoresOK' /\ QueuesFinite'
  BY <1>1, <1>3, GoesOnward, QueuesStayFinite
<1>5. ASSUME NEW c \in Browsers, Away(c) PROVE Fresh(c)' \/ Served(c)'
  BY <1>1, <1>3, <1>5, ServedStays
<1>6. CASE Elsewhere \/ UNCHANGED <<vars, browseVars>>
  <2>1. ASSUME NEW c \in Browsers PROVE Fresh(c)' \/ Served(c)'
    BY <1>1, <1>5, <1>6, ElsewhereFacts
  <2>2. next' \in [Browsers -> BrowseLabels]
    BY <1>1, <1>6, ElsewhereFacts
  <2> QED
    BY <1>2, <1>4, <2>1, <2>2 DEF BrowseInv
<1>7. ASSUME NEW b \in Browsers, Arrive(b) \/ Read(b) PROVE BrowseInv'
  <2>1. next' \in [Browsers -> BrowseLabels]
    BY <1>1, <1>7, LabelsStay
  <2>2. (Fresh(b)' \/ Served(b)') /\ OthersStay(b) /\ UNCHANGED vars
    <3>1. CASE Arrive(b)
      BY <1>1, <3>1, ArriveServed, ArriveOK DEF RepliesKept
    <3>2. CASE Read(b)
      <4>1. Served(b)' /\ OwnCells(b)
        BY <3>2, ReadServes
      <4> QED
        BY <4>1 DEF OwnCells, OthersStay
    <3> QED
      BY <1>7, <3>1, <3>2
  <2>3. ASSUME NEW c \in Browsers, c # b PROVE Fresh(c)' \/ Served(c)'
    <3>1. UNCHANGED <<next[c], ask[c], owners[c], ids[c], rows[c], shown[c], missed[c], arrival[c]>>
      BY <2>2, <2>3 DEF OthersStay
    <3> QED
      BY <1>5, <2>2, <3>1, OthersAway
  <2> QED
    BY <1>2, <1>4, <2>1, <2>2, <2>3 DEF BrowseInv
<1> QED
  BY <1>6, <1>7 DEF BrowsingNext

LEMMA BrowsingInvariance == BrowsingSpec => []BrowseInv
<1>1. BrowsingInit => BrowseInv
  BY BrowseInitOK
<1>2. BrowseInv /\ [BrowsingNext]_<<vars, browseVars>> => BrowseInv'
  BY BrowseStepOK
<1> QED
  BY <1>1, <1>2, PTL DEF BrowsingSpec

\* The requests that read keep to their tables: the limits of their pages are
\* those of the code, and every list they work through is of its type.
THEOREM BrowsingTypeCorrect == BrowsingSpec => []BrowsingTypeOK
<1>1. BrowseInv => BrowsingTypeOK
  <2> SUFFICES ASSUME BrowseInv PROVE BrowsingTypeOK
    OBVIOUS
  <2>1. next \in [Browsers -> BrowseLabels] /\ \A b \in Browsers : Fresh(b) \/ Served(b)
    BY DEF BrowseInv
  <2>2. ASSUME NEW b \in Browsers
        PROVE  /\ ask[b] # NoCall => AskOK(ask[b])
               /\ Typed(owners[b], ids[b], rows[b], shown[b], missed[b])
    <3>1. CASE Fresh(b)
      <4>1. /\ <<>> \in Seq(Pids) /\ <<>> \in Seq(Courses) /\ <<>> \in Seq(Shown)
            /\ <<>> \in Seq(Shown \cup {NoRow})
        BY EmptySeq
      <4> QED
        BY <3>1, <4>1 DEF Fresh, Typed, Entries
    <3>2. CASE Served(b)
      BY <3>2 DEF Served
    <3> QED
      BY <2>1, <3>1, <3>2
  <2> QED
    BY <2>1, <2>2 DEF BrowsingTypeOK, BrowseLabels, AskOK, Typed, Entries
<1> QED
  BY <1>1, BrowsingInvariance, PTL

\* Whatever players, administrators and the objects do while a reply is put
\* together, statement by statement: it shows no course that was withdrawn
\* before the request arrived, and stars, records and buffers that the course
\* had while the request ran.
THEOREM ShownStaysCurrent == BrowsingSpec => []ShownIsCurrent
<1>1. BrowseInv => ShownIsCurrent
  <2> SUFFICES ASSUME BrowseInv, NEW b \in Browsers,
                      NEW i \in {j \in DOMAIN shown[b] : shown[b][j] # NoRow}
               PROVE  LET entry == shown[b][i]
                          id == entry.id
                          past == arrival[b] IN
                      /\ past.stage[id] # "withdrawn" /\ stage[id] \in {"published", "withdrawn"}
                      /\ ask[b].kind \in StarKinds /\ PlayersOnly(id) =>
                           /\ entry.val <= stars[id]
                           /\ past.stars[id] # NoRow => past.stars[id] <= entry.val
                      /\ entry.record # NoRow /\ PlayersOnly(id) =>
                           /\ records[id].score <= entry.record.score
                           /\ records[id].first = entry.record.first
                           /\ past.records[id] # NoRow =>
                                entry.record.score <= past.records[id].score
                      /\ ask[b].kind = "queue" => \E e \in queue[id] : e.val = entry.val
    BY DEF ShownIsCurrent
  <2> DEFINE entry == shown[b][i]
  <2>1. entry \in ToSet(shown[b]) /\ entry # NoRow
    BY DEF ToSet
  <2>2. Served(b)
    <3>1. shown[b] # <<>>
      BY <2>1, NoElements
    <3> QED
      BY <3>1 DEF BrowseInv, Fresh
  <2>3. EntryOK(arrival[b], Now, Untouched, ask[b].kind, entry)
    BY <2>1, <2>2 DEF Served, Shows
  <2>4. entry \in Shown
    <3>1. shown[b] \in Seq(Shown \cup {NoRow})
      BY <2>2 DEF Served, Typed, Entries
    <3> HIDE DEF entry
    <3> QED
      BY <2>1, <3>1, ElementsTyped
  <2>5. entry.id \in Courses
    BY <2>4 DEF Shown
  <2> HIDE DEF entry
  <2>6. PlayersOnly(entry.id) => entry.id \in Untouched
    BY <2>5 DEF Untouched
  <2>7. Now.stage = stage /\ Now.stars = stars /\ Now.records = records /\ Now.queue = queue
    BY DEF Now
  <2>8. /\ StageOK(arrival[b], Now, entry.id)
        /\ ask[b].kind \in StarKinds => StarsOK(arrival[b], Now, Untouched, entry)
        /\ BestOK(arrival[b], Now, Untouched, entry)
        /\ ask[b].kind = "queue" => \E f \in queue[entry.id] : f.val = entry.val
    BY <2>3, <2>7 DEF EntryOK
  <2>9. arrival[b].stage[entry.id] # "withdrawn" /\ stage[entry.id] \in {"published", "withdrawn"}
    BY <2>7, <2>8 DEF StageOK
  <2>10. ask[b].kind \in StarKinds /\ PlayersOnly(entry.id) =>
           /\ entry.val <= stars[entry.id]
           /\ arrival[b].stars[entry.id] # NoRow => arrival[b].stars[entry.id] <= entry.val
    BY <2>6, <2>7, <2>8 DEF StarsOK
  <2>11. entry.record # NoRow /\ PlayersOnly(entry.id) =>
           /\ records[entry.id].score <= entry.record.score
           /\ records[entry.id].first = entry.record.first
           /\ arrival[b].records[entry.id] # NoRow =>
                entry.record.score <= arrival[b].records[entry.id].score
    BY <2>6, <2>7, <2>8 DEF BestOK
  <2> QED
    BY <2>8, <2>9, <2>10, <2>11 DEF entry
<1> QED
  BY <1>1, BrowsingInvariance, PTL
-----------------------------------------------------------------------------
(* What a reply leaves out.  A course that belongs on a reply is, at any    *)
(* statement, among those shown, among those that wait, or not yet queried. *)

RowIds(todo) == {e.id : e \in ToSet(todo)}

\* The courses that a request has in hand, and those of the queries to come.
Had(list, todo, done, left) == IdsOf(done) \cup left \cup RowIds(todo) \cup ToSet(list)

Unread(label, kind, people, by) ==
  IF label = "query" /\ kind \in PageKinds THEN Courses
  ELSE {id \in Courses : by[id] \in ToSet(people)}

\* Courses that a page may have been filled with and lose.
Lost(b) ==
  {id \in Courses : \/ stage[id] = "withdrawn"
                    \/ ~PlayersOnly(id)
                    \/ (ask[b].kind = "byOwner" /\ id \in arrival[b].review)}

CutKinds == PageKinds \cup {"byOwner"}

Covers(want, kind, limit, had, unread, lost) ==
  \/ want \subseteq had \cup unread
  \/ kind \in CutKinds /\ Cardinality(had \cup lost) >= limit

\* What is left for the next statement.
Emptied(label, people, list, todo) ==
  /\ label \in {"query", "rank", "ok"} => todo = <<>>
  /\ label \in {"query", "ok"} => list = <<>>
  /\ label = "ok" => people = <<>>

\* A page has courses that were there, with their stars, and that were not held
\* back, unless that has been noted.
Found(kind, list, todo, left) ==
  /\ kind \in PageKinds =>
       /\ \A id \in ToSet(list) : Seen(id) /\ (PlayersOnly(id) => stars[id] # NoRow)
       /\ \A id \in ToSet(list) \cup RowIds(todo) : id \in review => id \in left
  /\ kind \in CutKinds => \A id \in RowIds(todo) : Seen(id)

\* A queue is that of the course asked for.
QueueShown(q, label, todo, done, past) ==
  q.kind = "queue" =>
    /\ todo # <<>> => Head(todo).id = q.ids[1]
    /\ label = "ok" => \A e \in past.queue[q.ids[1]] : \E i \in DOMAIN done : done[i].val = e.val

\* The types of objects are those of the arrival unless somebody changes them.
TypesKept(past) == \A id \in Courses : Settled(id) => (id \in maker <=> id \in past.maker)

\* What is held back was so at the arrival, or has been noted.
Noted(b) == Reading(b) => review \subseteq arrival[b].review \cup missed[b]

HadBy(b) == Had(ids[b], rows[b], shown[b], missed[b])
UnreadBy(b) == Unread(next[b], ask[b].kind, owners[b], owner)

Complete(b) ==
  /\ Covers(Belongs(b), ask[b].kind, ask[b].limit, HadBy(b), UnreadBy(b), Lost(b))
  /\ Emptied(next[b], owners[b], ids[b], rows[b])
  /\ Found(ask[b].kind, ids[b], rows[b], missed[b]) /\ Noted(b)
  /\ QueueShown(ask[b], next[b], rows[b], shown[b], arrival[b])
  /\ ask[b].kind = "followings" => ask[b].types = {"course"}
  /\ TypesKept(arrival[b])

Whole(b) == next[b] \in {"idle", "error"} \/ Complete(b)

\* The inductive invariant of what is left out.
WholeInv == BrowseInv /\ StarsGood /\ \A b \in Browsers : Whole(b)
-----------------------------------------------------------------------------
\* What belongs on a reply.
LEMMA BelongsFacts ==
  ASSUME NEW b \in Browsers, ask[b].kind \in Kinds, NEW id \in Belongs(b)
  PROVE  /\ id \in Courses /\ arrival[b].stage[id] = "published" /\ stage[id] = "published"
         /\ id \notin arrival[b].review
         /\ ask[b].kind \in StarKinds => arrival[b].stars[id] # NoRow /\ PlayersOnly(id)
         /\ ask[b].kind \in {"followings", "byOwner"} =>
              /\ Settled(id) /\ owner[id] \in ToSet(ask[b].owners)
              /\ (IF id \in arrival[b].maker THEN "maker" ELSE "course") \in ask[b].types
         /\ ask[b].kind \in OfIdKinds => id \in ToSet(ask[b].ids)
         /\ ask[b].kind \in MetaKinds => Permitted(id, Caller[b])
         /\ ask[b].kind # "queue"
<1>1. /\ id \in Courses /\ arrival[b].stage[id] = "published" /\ stage[id] = "published"
      /\ id \notin arrival[b].review
  BY DEF Belongs
<1> USE DEF Kinds, StarKinds, PageKinds, OfIdKinds, MetaKinds
<1>2. CASE ask[b].kind \in PageKinds
  BY <1>1, <1>2 DEF Belongs
<1>3. CASE ask[b].kind = "byId"
  BY <1>1, <1>3 DEF Belongs
<1>4. CASE ask[b].kind = "followings"
  BY <1>1, <1>4 DEF Belongs, Settled
<1>5. CASE ask[b].kind = "byOwner"
  BY <1>1, <1>5 DEF Belongs, Settled
<1>6. CASE ask[b].kind \in MetaKinds
  BY <1>1, <1>6 DEF Belongs
<1>7. CASE ask[b].kind \in {"infos", "withRecords", "record"}
  BY <1>1, <1>7 DEF Belongs
<1>8. CASE ask[b].kind = "queue"
  BY <1>8 DEF Belongs
<1> QED
  BY <1>2, <1>3, <1>4, <1>5, <1>6, <1>7, <1>8

\* It can be seen, unless it was held back while the request ran.
LEMMA BelongsAvailable ==
  ASSUME NEW b \in Browsers, ask[b].kind \in Kinds, Noted(b), Reading(b),
         NEW id \in Belongs(b), id \notin missed[b]
  PROVE  IsObjectAvailable(id)
BY BelongsFacts DEF Noted, IsObjectAvailable

\* A course with stars that belongs on a reply can be read.
LEMMA BelongsReadable ==
  ASSUME TypeOK, StarsGood, NEW b \in Browsers, Served(b), ask[b].kind \in StarKinds,
         Noted(b), Reading(b), NEW id \in Belongs(b)
  PROVE  id \in Readable /\ (id \in Listed \/ id \in missed[b])
<1>1. /\ id \in Courses /\ (IsObjectAvailable(id) \/ id \in missed[b])
      /\ arrival[b].stars[id] # NoRow /\ PlayersOnly(id)
  BY ServedFacts, BelongsFacts, BelongsAvailable
<1>2. stars[id] # NoRow
  BY <1>1 DEF Served, Later, Untouched, Now
<1> QED
  BY <1>1, <1>2 DEF StarsGood, Readable, Listed

\* The ids of a reply, and of one more entry.
LEMMA IdsAre ==
  ASSUME NEW done
  PROVE  IdsOf(done) = {e.id : e \in ToSet(done) \ {NoRow}}
BY DEF IdsOf, ToSet

LEMMA IdsOfMore ==
  ASSUME NEW done \in Entries, NEW e \in Shown \cup {NoRow}
  PROVE  /\ IdsOf(done) \subseteq IdsOf(Append(done, e))
         /\ e \in Shown => e.id \in IdsOf(Append(done, e))
<1>1. ToSet(Append(done, e)) = ToSet(done) \cup {e}
  BY ElementsOfAppend DEF Entries
<1>2. e \in Shown => e # NoRow
  BY BrowsingAssumption
<1> QED
  BY <1>1, <1>2, IdsAre

LEMMA HadTyped ==
  ASSUME NEW people, NEW list, NEW todo, NEW done, NEW left, Typed(people, list, todo, done, left)
  PROVE  Had(list, todo, done, left) \subseteq Courses
<1>1. ToSet(list) \subseteq Courses /\ ToSet(todo) \subseteq Shown
      /\ ToSet(done) \subseteq Shown \cup {NoRow}
  BY ElementsTyped DEF Typed, Entries
<1>2. \A e \in Shown : e.id \in Courses
  BY DEF Shown
<1> QED
  BY <1>1, <1>2, IdsAre DEF Had, RowIds, Typed

\* Rows for the courses of a list, the rows after the first.
LEMMA RowsOfList ==
  ASSUME NEW list \in Seq(Courses)
  PROVE  RowIds(EntriesOf(list)) = ToSet(list)
<1>1. \A i \in DOMAIN list : EntriesOf(list)[i].id = list[i]
  BY DEF EntriesOf, EntryOf
<1>2. DOMAIN EntriesOf(list) = DOMAIN list
  BY DEF EntriesOf
<1> QED
  BY <1>1, <1>2 DEF RowIds, ToSet

LEMMA RowsOfTail ==
  ASSUME NEW todo \in Seq(Shown), todo # <<>>
  PROVE  RowIds(todo) = {Head(todo).id} \cup RowIds(Tail(todo))
<1>1. ToSet(todo) = {Head(todo)} \cup ToSet(Tail(todo))
  BY HeadAndTail
<1> QED
  BY <1>1 DEF RowIds

LEMMA NoRows == RowIds(<<>>) = {}
  BY NoElements DEF RowIds

\* What covers a reply still does when fewer courses belong on it and those in
\* hand are kept, or for pages at least those that are not lost.
LEMMA StillCovers ==
  ASSUME NEW kind, NEW limit \in Nat, NEW want, NEW had, NEW unread, NEW lost,
         NEW want2, NEW had2, NEW unread2, NEW lost2,
         Covers(want, kind, limit, had, unread, lost), want2 \subseteq want,
         want2 \cap (had \cup unread) \subseteq had2 \cup unread2,
         kind \in CutKinds => had \cup lost \subseteq had2 \cup lost2,
         had2 \subseteq Courses, lost2 \subseteq Courses
  PROVE  Covers(want2, kind, limit, had2, unread2, lost2)
<1>1. CASE want \subseteq had \cup unread
  BY <1>1 DEF Covers
<1>2. CASE kind \in CutKinds /\ Cardinality(had \cup lost) >= limit
  <2> DEFINE old == had \cup lost  new == had2 \cup lost2
  <2>1. IsFiniteSet(new)
    <3>1. new \in SUBSET Courses
      OBVIOUS
    <3> QED
      BY <3>1, FS_Subset, BrowsingAssumption
  <2>2. old \in SUBSET new
    BY <1>2
  <2> HIDE DEF old, new
  <2>3. /\ Cardinality(old) <= Cardinality(new) /\ Cardinality(new) \in Nat
        /\ Cardinality(old) \in Nat
    BY <2>1, <2>2, FS_Subset, FS_CardinalityType
  <2>4. Cardinality(old) >= limit
    BY <1>2 DEF old
  <2>5. Cardinality(new) >= limit
    BY <2>3, <2>4
  <2> QED
    BY <1>2, <2>5 DEF Covers, new
<1> QED
  BY <1>1, <1>2 DEF Covers
-----------------------------------------------------------------------------
\* While other requests step, no course is added to those that belong on a
\* reply, the lost stay lost, and what was found stays found.
LEMMA BelongsShrinks ==
  ASSUME IInv, ScoresOK, [Next]_vars, NEW b \in Browsers, Served(b),
         UNCHANGED <<ask[b], arrival[b]>>
  PROVE  Belongs(b)' \subseteq Belongs(b)
<1> SUFFICES ASSUME NEW id \in Belongs(b)' PROVE id \in Belongs(b)
  OBVIOUS
<1> DEFINE past == arrival[b]  q == ask[b]
<1>1. /\ Later(Now, Now', Untouched') /\ Untouched' \subseteq Untouched
      /\ Later(past, Now, Untouched) /\ q.kind \in Kinds
  BY NowIsLater, ServedFacts DEF Served
<1>2. id \in Courses /\ past.stage[id] = "published" /\ stage'[id] = "published"
  BY DEF Belongs
<1>3. stage[id] = "published"
  BY <1>1, <1>2 DEF Later, Now
<1>4. PlayersOnly(id)' => PlayersOnly(id)
  BY <1>1, <1>2 DEF Untouched
<1>5. owner'[id] = owner[id] /\ (Settled(id)' => Settled(id))
  BY <1>2, <1>3, OwnersAndTypesStay DEF Seen
<1>6. Permitted(id, Caller[b])' => Permitted(id, Caller[b])
  BY <1>5 DEF Permitted
<1> USE DEF Kinds, StarKinds, PageKinds, OfIdKinds, MetaKinds
<1>7. CASE q.kind \in PageKinds
  BY <1>2, <1>3, <1>4, <1>7 DEF Belongs
<1>8. CASE q.kind = "byId"
  BY <1>2, <1>3, <1>4, <1>8 DEF Belongs
<1>9. CASE q.kind = "followings"
  BY <1>2, <1>3, <1>4, <1>5, <1>9 DEF Belongs, Settled
<1>10. CASE q.kind = "byOwner"
  BY <1>2, <1>3, <1>5, <1>10 DEF Belongs, Settled
<1>11. CASE q.kind \in MetaKinds
  BY <1>2, <1>3, <1>6, <1>11 DEF Belongs
<1>12. CASE q.kind \in {"infos", "withRecords", "record"}
  BY <1>2, <1>3, <1>12 DEF Belongs
<1>13. CASE q.kind = "queue"
  BY <1>13 DEF Belongs
<1> QED
  BY <1>1, <1>7, <1>8, <1>9, <1>10, <1>11, <1>12, <1>13

LEMMA LostStays ==
  ASSUME IInv, ScoresOK, [Next]_vars
  PROVE  /\ \A b \in Browsers : UNCHANGED <<ask[b], arrival[b]>> => Lost(b) \subseteq Lost(b)'
         /\ \A past : TypesKept(past) => TypesKept(past)'
<1>1. \A id \in Courses : /\ stage[id] = "withdrawn" => stage'[id] = "withdrawn"
                          /\ PlayersOnly(id)' => PlayersOnly(id)
  BY NowIsLater DEF Later, Now, Untouched
<1>2. ASSUME NEW b \in Browsers, UNCHANGED <<ask[b], arrival[b]>>
      PROVE  Lost(b) \subseteq Lost(b)'
  BY <1>1, <1>2 DEF Lost
<1>3. ASSUME NEW past, TypesKept(past) PROVE TypesKept(past)'
  BY <1>3, OwnersAndTypesStay DEF TypesKept
<1> QED
  BY <1>2, <1>3

\* A request that does not move, while others take a step.
LEMMA WholeStays ==
  ASSUME IInv, ScoresOK, [Next]_vars, NEW b \in Browsers, Fresh(b) \/ Served(b), Whole(b),
         Away(b)
  PROVE  Whole(b)'
<1>0. /\ UNCHANGED <<next[b], ask[b], owners[b], ids[b], rows[b], shown[b], arrival[b]>>
      /\ missed[b] \subseteq missed'[b]
      /\ IF Reading(b) THEN review' \subseteq review \cup missed'[b] ELSE missed'[b] = missed[b]
  BY DEF Away
<1>1. CASE next[b] \in {"idle", "error"}
  BY <1>0, <1>1 DEF Whole
<1>2. CASE next[b] \notin {"idle", "error"}
  <2>1. Served(b) /\ Complete(b)
    BY <1>2 DEF Fresh, Whole
  <2>2. /\ ask[b].kind \in Kinds /\ ask[b].limit \in Nat
        /\ Typed(owners[b], ids[b], rows[b], shown[b], missed[b])
    BY <2>1, ServedFacts
  <2>3. /\ HadBy(b) \subseteq Courses /\ HadBy(b)' \subseteq Courses
        /\ HadBy(b) \subseteq HadBy(b)'
    <3>1. Typed(owners[b], ids[b], rows[b], shown[b], missed'[b])
      <4>1. Fresh(b)' \/ Served(b)'
        BY ServedStays
      <4>2. Served(b)'
        BY <1>0, <1>2, <4>1 DEF Fresh
      <4> QED
        BY <1>0, <4>2 DEF Served
    <3> QED
      BY <1>0, <2>2, <3>1, HadTyped DEF HadBy, Had
  <2>4. Lost(b) \subseteq Lost(b)' /\ Lost(b)' \subseteq Courses
    BY <1>0, LostStays DEF Lost
  <2>5. Belongs(b)' \subseteq Belongs(b)
    BY <1>0, <2>1, BelongsShrinks
  <2>6. Belongs(b)' \cap UnreadBy(b) \subseteq UnreadBy(b)'
    <3> SUFFICES ASSUME NEW id \in Belongs(b)', id \in UnreadBy(b) PROVE id \in UnreadBy(b)'
      OBVIOUS
    <3>1. id \in Courses /\ Seen(id)
      BY <2>2, <2>5, BelongsFacts DEF Seen
    <3>2. owner'[id] = owner[id]
      BY <3>1, OwnersAndTypesStay
    <3> QED
      BY <1>0, <3>1, <3>2 DEF UnreadBy, Unread
  <2>7. Covers(Belongs(b), ask[b].kind, ask[b].limit, HadBy(b), UnreadBy(b), Lost(b))'
    <3> DEFINE want == Belongs(b)  had == HadBy(b)  unread == UnreadBy(b)  lost == Lost(b)
               want2 == Belongs(b)'  had2 == HadBy(b)'  unread2 == UnreadBy(b)'  lost2 == Lost(b)'
               kind == ask[b].kind  limit == ask[b].limit
    <3>1. /\ Covers(want, kind, limit, had, unread, lost) /\ want2 \subseteq want /\ limit \in Nat
          /\ want2 \cap (had \cup unread) \subseteq had2 \cup unread2
          /\ had \cup lost \subseteq had2 \cup lost2 /\ had2 \subseteq Courses
          /\ lost2 \subseteq Courses
      BY <2>1, <2>2, <2>3, <2>4, <2>5, <2>6 DEF Complete
    <3> HIDE DEF want, had, unread, lost, want2, had2, unread2, lost2, kind, limit
    <3>2. Covers(want2, kind, limit, had2, unread2, lost2)
      BY <3>1, StillCovers
    <3> QED
      BY <1>0, <3>2 DEF want2, had2, unread2, lost2, kind, limit
  <2>8. Emptied(next[b], owners[b], ids[b], rows[b])'
    BY <1>0, <2>1 DEF Complete, Emptied
  <2>9. Found(ask[b].kind, ids[b], rows[b], missed[b])'
    <3>1. /\ ToSet(ids[b]) \subseteq Courses /\ RowIds(rows[b]) \subseteq Courses
          /\ Found(ask[b].kind, ids[b], rows[b], missed[b])
      BY <2>1, <2>3 DEF HadBy, Had, Complete
    <3>2. CASE Reading(b)
      <4>1. /\ review' \subseteq review \cup missed'[b] /\ missed[b] \subseteq missed'[b]
            /\ UNCHANGED <<ask[b], ids[b], rows[b]>>
        BY <1>0, <3>2
      <4>2. \A id \in Courses : /\ Seen(id) => Seen(id)'
                                /\ PlayersOnly(id)' => PlayersOnly(id)
                                /\ PlayersOnly(id)' /\ stars[id] # NoRow => stars'[id] # NoRow
        BY NowIsLater DEF Later, Now, Seen, Untouched
      <4>3. ask[b].kind \in PageKinds =>
              \A id \in ToSet(ids[b]) : Seen(id)' /\ (PlayersOnly(id)' => stars'[id] # NoRow)
        BY <3>1, <4>2 DEF Found
      <4>4. ask[b].kind \in PageKinds =>
              \A id \in ToSet(ids[b]) \cup RowIds(rows[b]) : id \in review' => id \in missed'[b]
        BY <3>1, <4>1 DEF Found
      <4>5. ask[b].kind \in CutKinds => \A id \in RowIds(rows[b]) : Seen(id)'
        BY <3>1, <4>2 DEF Found
      <4> QED
        BY <4>1, <4>3, <4>4, <4>5 DEF Found
    <3>3. CASE ~Reading(b)
      <4>1. ids[b] = <<>> /\ rows[b] = <<>>
        BY <1>2, <2>1, <3>3 DEF Reading, Complete, Emptied
      <4> QED
        BY <1>0, <4>1, NoElements, NoRows DEF Found
    <3> QED
      BY <3>2, <3>3
  <2>10. QueueShown(ask[b], next[b], rows[b], shown[b], arrival[b])'
    BY <1>0, <2>1 DEF Complete, QueueShown
  <2>11. TypesKept(arrival[b])'
    BY <1>0, <2>1, OwnersAndTypesStay DEF Complete, TypesKept
  <2>12. (ask[b].kind = "followings" => ask[b].types = {"course"})'
    BY <1>0, <2>1 DEF Complete
  <2>13. Noted(b)'
    BY <1>0, <2>1 DEF Complete, Noted, Reading
  <2> QED
    BY <2>7, <2>8, <2>9, <2>10, <2>11, <2>12, <2>13 DEF Whole, Complete
<1> QED
  BY <1>1, <1>2
-----------------------------------------------------------------------------
\* What a statement has to keep so that its reply stays whole.
LEMMA StatementCompletes ==
  ASSUME NEW b \in Browsers, OwnCells(b), Complete(b),
         Covers(Belongs(b), ask[b].kind, ask[b].limit,
                Had(ids'[b], rows'[b], shown'[b], missed'[b]),
                Unread(next'[b], ask[b].kind, owners'[b], owner), Lost(b)),
         Emptied(next'[b], owners'[b], ids'[b], rows'[b]),
         Found(ask[b].kind, ids'[b], rows'[b], missed'[b]),
         QueueShown(ask[b], next'[b], rows'[b], shown'[b], arrival[b])
  PROVE  Whole(b)'
<1>1. UNCHANGED <<stage, owner, maker, review, stars, call, pc, ask, arrival>>
  BY DEF OwnCells, vars
<1>2. \A m, id : Mentions(m, id)' = Mentions(m, id)
  BY <1>1 DEF Mentions, Asked
<1>3. \A id : PlayersOnly(id)' = PlayersOnly(id) /\ Settled(id)' = Settled(id)
  BY <1>2 DEF PlayersOnly, Settled
<1>4. Belongs(b)' = Belongs(b)
  <2>1. \A id, pid : Permitted(id, pid)' = Permitted(id, pid)
    BY <1>1 DEF Permitted
  <2> QED
    BY <1>1, <1>2, <1>3, <2>1 DEF Belongs
<1>5. Lost(b)' = Lost(b)
  BY <1>1, <1>3 DEF Lost
<1>6. HadBy(b)' = Had(ids'[b], rows'[b], shown'[b], missed'[b])
      /\ UnreadBy(b)' = Unread(next'[b], ask[b].kind, owners'[b], owner)
  BY <1>1 DEF HadBy, UnreadBy
<1>7. Covers(Belongs(b), ask[b].kind, ask[b].limit, HadBy(b), UnreadBy(b), Lost(b))'
  BY <1>1, <1>4, <1>5, <1>6
<1>8. Found(ask[b].kind, ids[b], rows[b], missed[b])'
  BY <1>1, <1>3 DEF Found, Seen
<1>9. QueueShown(ask[b], next[b], rows[b], shown[b], arrival[b])'
  BY <1>1
<1>10. TypesKept(arrival[b])'
  BY <1>1, <1>3 DEF Complete, TypesKept
<1>11. (ask[b].kind = "followings" => ask[b].types = {"course"})'
  BY <1>1 DEF Complete
<1>12. Emptied(next[b], owners[b], ids[b], rows[b])'
  OBVIOUS
<1>13. Noted(b)'
  BY <1>1 DEF Complete, Noted, OwnCells
<1> QED
  BY <1>7, <1>8, <1>9, <1>10, <1>11, <1>12, <1>13 DEF Whole, Complete

LEMMA FollowEmpties ==
  ASSUME CellsOK, NEW b \in Browsers, Follow(b)
  PROVE  /\ Emptied(next'[b], owners'[b], ids'[b], rows'[b])
         /\ next'[b] \in {"look", "rank", "query", "ok"}
BY DEF CellsOK, Follow, Emptied

LEMMA FewerFound ==
  ASSUME NEW kind, NEW list, NEW todo, NEW left, Found(kind, list, todo, left),
         NEW list2, NEW todo2, NEW left2, left \subseteq left2,
         ToSet(list2) \subseteq ToSet(list), RowIds(todo2) \subseteq RowIds(todo)
  PROVE  Found(kind, list2, todo2, left2)
BY DEF Found

\* Courses are unread until their query, whatever comes before it.
LEMMA UnreadStays ==
  ASSUME NEW label, NEW kind, NEW people, NEW by, NEW after, label # "query"
  PROVE  Unread(label, kind, people, by) \subseteq Unread(after, kind, people, by)
BY DEF Unread

\* What a statement has in hand are courses.
LEMMA HadAfter ==
  ASSUME NEW b \in Browsers, Served(b)'
  PROVE  Had(ids'[b], rows'[b], shown'[b], missed'[b]) \subseteq Courses
<1>1. Typed(owners'[b], ids'[b], rows'[b], shown'[b], missed'[b])
  BY DEF Served
<1> QED
  BY <1>1, HadTyped

\* A reply is whole after a statement that keeps what belongs on it in hand, or
\* unread, and for pages at least what is not lost.
LEMMA KeepsWhole ==
  ASSUME NEW b \in Browsers, Served(b), OwnCells(b), Served(b)', Complete(b),
         LET had == Had(ids'[b], rows'[b], shown'[b], missed'[b])
             unread == Unread(next'[b], ask[b].kind, owners'[b], owner)
         IN /\ Belongs(b) \cap (HadBy(b) \cup UnreadBy(b)) \subseteq had \cup unread
            /\ ask[b].kind \in CutKinds => HadBy(b) \cup Lost(b) \subseteq had \cup Lost(b),
         Emptied(next'[b], owners'[b], ids'[b], rows'[b]),
         Found(ask[b].kind, ids'[b], rows'[b], missed'[b]),
         QueueShown(ask[b], next'[b], rows'[b], shown'[b], arrival[b])
  PROVE  Whole(b)'
<1> DEFINE want == Belongs(b)  had == HadBy(b)  unread == UnreadBy(b)  lost == Lost(b)
           had2 == Had(ids'[b], rows'[b], shown'[b], missed'[b])
           unread2 == Unread(next'[b], ask[b].kind, owners'[b], owner)
           kind == ask[b].kind  limit == ask[b].limit
<1>1. /\ Covers(want, kind, limit, had, unread, lost) /\ limit \in Nat
      /\ want \cap (had \cup unread) \subseteq had2 \cup unread2
      /\ kind \in CutKinds => had \cup lost \subseteq had2 \cup lost
      /\ had2 \subseteq Courses /\ lost \subseteq Courses
  BY HadAfter, ServedFacts DEF Complete, Lost
<1> HIDE DEF want, had, unread, lost, had2, unread2, kind, limit
<1>2. Covers(want, kind, limit, had2, unread2, lost)
  BY <1>1, StillCovers
<1>3. Covers(Belongs(b), ask[b].kind, ask[b].limit,
             Had(ids'[b], rows'[b], shown'[b], missed'[b]),
             Unread(next'[b], ask[b].kind, owners'[b], owner), Lost(b))
  BY <1>2 DEF want, had2, unread2, lost, kind, limit
<1> QED
  BY <1>3, StatementCompletes

\* The next statement is for the same row.
LEMMA RowWaits ==
  ASSUME NEW b \in Browsers, Served(b), OwnCells(b), Served(b)', Complete(b),
         next[b] # "query", next'[b] \in {"filter", "check", "record", "queue"},
         UNCHANGED <<owners[b], ids[b], rows[b], shown[b], missed[b]>>
  PROVE  Whole(b)'
<1>1. Emptied(next'[b], owners'[b], ids'[b], rows'[b])
  BY DEF Emptied
<1>2. Found(ask[b].kind, ids'[b], rows'[b], missed'[b])
  BY DEF Complete
<1>3. QueueShown(ask[b], next'[b], rows'[b], shown'[b], arrival[b])
  BY DEF Complete, QueueShown
<1>4. HadBy(b) = Had(ids'[b], rows'[b], shown'[b], missed'[b])
  BY DEF HadBy
<1>5. UnreadBy(b) \subseteq Unread(next'[b], ask[b].kind, owners'[b], owner)
  BY UnreadStays DEF UnreadBy
<1> QED
  BY <1>1, <1>2, <1>3, <1>4, <1>5, KeepsWhole

\* The statement was the last for a row: its course is shown or missed, or does
\* not belong on the reply.
LEMMA RowGone ==
  ASSUME CellsOK, NEW b \in Browsers, Served(b), OwnCells(b), Served(b)', Complete(b),
         next[b] # "query", ask[b].kind # "queue", rows[b] # <<>>,
         rows'[b] = Tail(rows[b]), UNCHANGED <<owners[b], ids[b]>>, Follow(b),
         IdsOf(shown[b]) \subseteq IdsOf(shown'[b]), missed[b] \subseteq missed'[b],
         \/ Head(rows[b]).id \in IdsOf(shown'[b]) \cup missed'[b]
         \/ /\ Head(rows[b]).id \notin Belongs(b)
            /\ ask[b].kind \in CutKinds => Head(rows[b]).id \in Lost(b)
  PROVE  Whole(b)'
<1>1. RowIds(rows[b]) = {Head(rows[b]).id} \cup RowIds(rows'[b])
  <2>1. rows[b] \in Seq(Shown)
    BY ServedFacts DEF Typed
  <2> QED
    BY <2>1, RowsOfTail
<1>2. Emptied(next'[b], owners'[b], ids'[b], rows'[b])
  BY FollowEmpties
<1>3. Found(ask[b].kind, ids'[b], rows'[b], missed'[b])
  BY <1>1, FewerFound DEF Complete
<1>4. QueueShown(ask[b], next'[b], rows'[b], shown'[b], arrival[b])
  BY DEF QueueShown
<1>5. UnreadBy(b) \subseteq Unread(next'[b], ask[b].kind, owners'[b], owner)
  BY UnreadStays DEF UnreadBy
<1>6. /\ HadBy(b) \subseteq Had(ids'[b], rows'[b], shown'[b], missed'[b]) \cup {Head(rows[b]).id}
      /\ Head(rows[b]).id \in IdsOf(shown'[b]) \cup missed'[b] =>
           Head(rows[b]).id \in Had(ids'[b], rows'[b], shown'[b], missed'[b])
  BY <1>1 DEF HadBy, Had
<1> QED
  BY <1>2, <1>3, <1>4, <1>5, <1>6, KeepsWhole
-----------------------------------------------------------------------------
\* A reply with one entry more.
LEMMA ShowsMore ==
  ASSUME CellsOK, NEW b \in Browsers, Served(b), NEW e \in Shown \cup {NoRow}, Show(b, e)
  PROVE  /\ IdsOf(shown[b]) \subseteq IdsOf(shown'[b])
         /\ e \in Shown => e.id \in IdsOf(shown'[b])
<1>1. shown'[b] = Append(shown[b], e) /\ shown[b] \in Entries
  BY ServedFacts DEF Show, CellsOK, Typed
<1> QED
  BY <1>1, IdsOfMore

\* A statement that is refused.
LEMMA RefusedWhole ==
  ASSUME CellsOK, NEW b \in Browsers, Refuse(b)
  PROVE  Whole(b)'
BY DEF Whole, Refuse, CellsOK

\* What is looked up and not shown does not belong on the reply, or was held
\* back and noted, and a page loses it because it was withdrawn.
LEMMA LookUpWhole ==
  ASSUME CellsOK, NEW b \in Browsers, Served(b), OwnCells(b), Served(b)', Complete(b), LookUp(b)
  PROVE  Whole(b)'
<1> DEFINE entry == Head(rows[b])
           visible == Visible(b, entry.id)
<1>1. next[b] = "look" /\ UNCHANGED <<owners, ids, missed>>
  BY DEF LookUp
<1>2. /\ rows[b] # <<>> /\ entry \in Shown /\ entry.id \in Courses
      /\ ask[b].kind \notin {"record", "queue"} /\ ask[b].kind \in Kinds
  BY <1>1, HeadFacts, ServedFacts
<1>3. CASE visible /\ ask[b].kind = "withRecords"
  <2>1. next'[b] = "check" /\ UNCHANGED <<rows, shown>>
    BY <1>3 DEF LookUp, CellsOK
  <2> QED
    BY <1>1, <2>1, RowWaits
<1>4. CASE ~visible /\ ask[b].kind \in StrictKinds
  BY <1>4, RefusedWhole DEF LookUp
<1>5. CASE ~(visible /\ ask[b].kind = "withRecords") /\ ~(~visible /\ ask[b].kind \in StrictKinds)
  <2>1. /\ rows' = [rows EXCEPT ![b] = Tail(@)] /\ Follow(b)
        /\ IF visible THEN Show(b, entry) ELSE Show(b, NoRow) \/ UNCHANGED shown
    BY <1>5 DEF LookUp
  <2>2. rows'[b] = Tail(rows[b])
    BY <2>1 DEF CellsOK
  <2>3. /\ IdsOf(shown[b]) \subseteq IdsOf(shown'[b])
        /\ visible => entry.id \in IdsOf(shown'[b])
    BY <1>2, <2>1, ShowsMore
  <2>4. \/ visible \/ entry.id \in missed[b]
        \/ /\ entry.id \notin Belongs(b)
           /\ ask[b].kind \in CutKinds => entry.id \in Lost(b)
    <3> SUFFICES ASSUME ~visible, entry.id \notin missed[b]
                 PROVE  /\ entry.id \notin Belongs(b)
                        /\ ask[b].kind \in CutKinds => entry.id \in Lost(b)
      OBVIOUS
    <3>0. Noted(b) /\ Reading(b)
      BY DEF Complete, OwnCells
    <3>1. entry.id \notin Belongs(b)
      BY <1>2, <3>0, BelongsFacts, BelongsAvailable DEF Visible
    <3>2. ASSUME ask[b].kind \in CutKinds PROVE entry.id \in Lost(b)
      <4>1. ask[b].kind \notin MetaKinds
        BY <3>2 DEF CutKinds, PageKinds, MetaKinds
      <4>2. entry.id \in RowIds(rows[b])
        BY <1>2, RowsOfTail, ServedFacts DEF Typed
      <4>3. Seen(entry.id)
        BY <3>2, <4>2 DEF Complete, Found
      <4>4. stage[entry.id] = "withdrawn" \/ entry.id \in review
        BY <4>1, <4>3 DEF Visible, IsObjectAvailable, Seen
      <4>5. entry.id \in review => ask[b].kind = "byOwner" /\ entry.id \in arrival[b].review
        BY <3>0, <3>2, <4>2 DEF Complete, Found, Noted, CutKinds
      <4> QED
        BY <1>2, <4>4, <4>5 DEF Lost
    <3> QED
      BY <3>1, <3>2
  <2> QED
    BY <1>1, <1>2, <2>1, <2>2, <2>3, <2>4, RowGone
<1> QED
  BY <1>3, <1>4, <1>5

\* A course of GetMetasWithCourseRecord is shown, with or without its record.
LEMMA ShownWhole ==
  ASSUME CellsOK, NEW b \in Browsers, Served(b), OwnCells(b), Served(b)', Complete(b),
         next[b] \in {"check", "record"}, ask[b].kind \in {"withRecords", "record"},
         rows' = [rows EXCEPT ![b] = Tail(@)], UNCHANGED <<owners, ids>>, Follow(b),
         missed[b] \subseteq missed'[b],
         NEW e \in Shown, e.id = Head(rows[b]).id, Show(b, e)
  PROVE  Whole(b)'
<1>1. rows[b] # <<>> /\ rows'[b] = Tail(rows[b])
  BY HeadFacts DEF CellsOK
<1>2. IdsOf(shown[b]) \subseteq IdsOf(shown'[b]) /\ e.id \in IdsOf(shown'[b])
  BY ShowsMore
<1> QED
  BY <1>1, <1>2, RowGone

LEMMA WithoutWhole ==
  ASSUME CellsOK, NEW b \in Browsers, Served(b), OwnCells(b), Served(b)', Complete(b),
         next[b] \in {"check", "record"}, ask[b].kind = "withRecords",
         UNCHANGED <<owners, ids>>, missed[b] \subseteq missed'[b], ShowWithout(b)
  PROVE  Whole(b)'
<1> DEFINE e == EntryOf(Head(rows[b]).id)
<1>1. e \in Shown /\ e.id = Head(rows[b]).id
  <2>1. Head(rows[b]).id \in Courses
    BY HeadFacts
  <2> QED
    BY <2>1 DEF EntryOf, Shown
<1>2. rows' = [rows EXCEPT ![b] = Tail(@)] /\ Follow(b) /\ Show(b, e)
  BY DEF ShowWithout
<1> HIDE DEF e
<1> QED
  BY <1>1, <1>2, ShownWhole

LEMMA CheckWhole ==
  ASSUME CellsOK, NEW b \in Browsers, Served(b), OwnCells(b), Served(b)', Complete(b),
         CheckCourse(b)
  PROVE  Whole(b)'
<1>1. next[b] = "check" /\ UNCHANGED <<owners, ids, missed>>
  BY DEF CheckCourse
<1>2. CASE UNCHANGED <<rows, shown>> /\ next'[b] \in {"record", "queue"}
  BY <1>1, <1>2, RowWaits
<1>3. CASE ask[b].kind = "withRecords" /\ ShowWithout(b)
  BY <1>1, <1>3, WithoutWhole
<1>4. CASE Refuse(b)
  BY <1>4, RefusedWhole
<1> QED
  BY <1>2, <1>3, <1>4 DEF CheckCourse, CellsOK

LEMMA RecordWhole ==
  ASSUME TypeOK, CellsOK, NEW b \in Browsers, Served(b), OwnCells(b), Served(b)', Complete(b),
         ReadRecord(b)
  PROVE  Whole(b)'
<1> DEFINE id == Head(rows[b]).id  e == [EntryOf(id) EXCEPT !.record = records[id]]
<1>1. next[b] = "record" /\ UNCHANGED <<owners, ids, missed>>
  BY DEF ReadRecord
<1>2. id \in Courses /\ ask[b].kind \in {"withRecords", "record"}
  BY <1>1, HeadFacts
<1>3. CASE records[id] # NoRow
  <2>1. e \in Shown /\ e.id = id
    BY <1>2 DEF TypeOK, EntryOf, Shown
  <2>2. Show(b, e) /\ rows' = [rows EXCEPT ![b] = Tail(@)] /\ Follow(b)
    BY <1>3 DEF ReadRecord
  <2> HIDE DEF e
  <2> QED
    BY <1>1, <1>2, <2>1, <2>2, ShownWhole
<1>4. CASE records[id] = NoRow
  <2>1. (ask[b].kind = "withRecords" /\ ShowWithout(b)) \/ Refuse(b)
    BY <1>4 DEF ReadRecord
  <2> QED
    BY <1>1, <2>1, WithoutWhole, RefusedWhole
<1> QED
  BY <1>3, <1>4

\* A queue is read in one statement.
LEMMA QueueWhole ==
  ASSUME QueuesFinite, CellsOK, NEW b \in Browsers, Served(b), OwnCells(b), Served(b)',
         Complete(b), ReadQueue(b)
  PROVE  Whole(b)'
<1> DEFINE id == Head(rows[b]).id
           values == {e.val : e \in queue[id]}
           n == Cardinality(values)
<1>1. /\ next[b] = "queue" /\ UNCHANGED <<owners, ids, missed>> /\ Follow(b)
      /\ rows'[b] = <<>>
  BY DEF ReadQueue, CellsOK
<1>2. /\ rows[b] # <<>> /\ id \in Courses /\ ask[b].kind = "queue"
      /\ Later(arrival[b], Now, Untouched)
  BY <1>1, HeadFacts DEF Served
<1>3. PICK list \in SetToSeqs(values) :
        shown'[b] = [i \in DOMAIN list |-> [id |-> id, val |-> list[i], record |-> NoRow]]
  BY DEF ReadQueue, CellsOK
<1>4. ToSet(list) = values
  <2>1. IsFiniteSet(values)
    BY <1>2 DEF QueuesFinite, Buffers
  <2>2. list \in [1..n -> values] /\ \A i, j \in 1..n : i # j => list[i] # list[j]
    BY DEF SetToSeqs
  <2> HIDE DEF values
  <2>3. n \in Nat
    BY <2>1, FS_CardinalityType
  <2>4. list \in Seq(values) /\ Len(list) = n /\ DOMAIN list = 1..n
    <3> HIDE DEF n
    <3>1. list \in Seq(values)
      BY <2>2, <2>3, SeqDef
    <3>2. Len(list) \in Nat /\ DOMAIN list = 1..Len(list) /\ DOMAIN list = 1..n
      BY <2>2, <3>1, LenProperties
    <3> DEFINE m == Len(list)
    <3>3. m \in Nat /\ 1..m = 1..n
      BY <3>2
    <3> HIDE DEF m
    <3>4. m = n
      BY <2>3, <3>3
    <3> QED
      BY <3>1, <3>2, <3>4 DEF m
  <2> QED
    BY <2>1, <2>2, <2>4, ElementsComplete
<1>5. id = ask[b].ids[1]
  BY <1>2 DEF Complete, QueueShown
<1>6. \A e \in arrival[b].queue[id] : \E i \in DOMAIN shown'[b] : shown'[b][i].val = e.val
  <2> SUFFICES ASSUME NEW e \in arrival[b].queue[id]
               PROVE  \E i \in DOMAIN shown'[b] : shown'[b][i].val = e.val
    OBVIOUS
  <2>1. PICK f \in queue[id] : f.val = e.val
    BY <1>2 DEF Later, Now
  <2>2. e.val \in values
    BY <2>1
  <2>3. PICK i \in DOMAIN list : list[i] = e.val
    BY <1>4, <2>2 DEF ToSet
  <2> HIDE DEF id
  <2>4. DOMAIN shown'[b] = DOMAIN list /\ shown'[b][i].val = list[i]
    BY <1>3, <2>3
  <2> QED
    BY <2>3, <2>4
<1>7. QueueShown(ask[b], next'[b], rows'[b], shown'[b], arrival[b])
  BY <1>1, <1>5, <1>6 DEF QueueShown
<1>8. Emptied(next'[b], owners'[b], ids'[b], rows'[b])
  BY <1>1, FollowEmpties
<1>9. Found(ask[b].kind, ids'[b], rows'[b], missed'[b]) /\ ask[b].kind \notin CutKinds
  BY <1>2 DEF Found, CutKinds, PageKinds
<1>10. Belongs(b) = {}
  BY <1>2, BelongsFacts, ServedFacts
<1> QED
  BY <1>7, <1>8, <1>9, <1>10, KeepsWhole
-----------------------------------------------------------------------------
\* A course of a followed player is kept, missed, or not available.
LEMMA FilterWhole ==
  ASSUME CellsOK, NEW b \in Browsers, Served(b), OwnCells(b), Served(b)', Complete(b),
         next[b] = "filter", UNCHANGED <<owners, shown>>, rows' = [rows EXCEPT ![b] = Tail(@)],
         IF rows'[b] # <<>> THEN UNCHANGED next ELSE Follow(b),
         LET id == Head(rows[b]).id IN
         \/ ids' = [ids EXCEPT ![b] = Append(@, id)] /\ UNCHANGED missed
         \/ UNCHANGED <<ids, missed>> /\ ~IsObjectAvailable(id)
         \/ UNCHANGED ids /\ missed' = [missed EXCEPT ![b] = @ \cup {id}]
  PROVE  Whole(b)'
<1> DEFINE id == Head(rows[b]).id
<1>1. /\ Typed(owners[b], ids[b], rows[b], shown[b], missed[b]) /\ ask[b].kind = "followings"
      /\ rows[b] # <<>> /\ ask[b].kind \in Kinds
  BY ServedFacts DEF OnPath
<1>2. rows'[b] = Tail(rows[b]) /\ RowIds(rows[b]) = {id} \cup RowIds(Tail(rows[b])) /\ id \in Courses
  <2>1. rows[b] \in Seq(Shown)
    BY <1>1 DEF Typed
  <2>2. Head(rows[b]) \in Shown
    BY <1>1, <2>1, TailOf
  <2> QED
    BY <1>1, <2>1, <2>2, RowsOfTail DEF CellsOK, Shown
<1>3. /\ ToSet(ids[b]) \subseteq ToSet(ids'[b]) /\ missed[b] \subseteq missed'[b]
      /\ id \in Belongs(b) => id \in ToSet(ids'[b]) \cup missed'[b]
  <2>1. CASE ids' = [ids EXCEPT ![b] = Append(@, id)] /\ UNCHANGED missed
    <3>1. ids'[b] = Append(ids[b], id) /\ ids[b] \in Seq(Courses) /\ missed'[b] = missed[b]
      BY <1>1, <2>1 DEF CellsOK, Typed
    <3> HIDE DEF id
    <3>2. ToSet(ids'[b]) = ToSet(ids[b]) \cup {id}
      BY <1>2, <3>1, ElementsOfAppend
    <3> QED
      BY <3>1, <3>2
  <2>2. CASE UNCHANGED <<ids, missed>> /\ ~IsObjectAvailable(id)
    BY <1>1, <2>2, BelongsAvailable DEF Complete, OwnCells
  <2>3. CASE UNCHANGED ids /\ missed' = [missed EXCEPT ![b] = @ \cup {id}]
    <3>1. ids'[b] = ids[b] /\ missed'[b] = missed[b] \cup {id}
      BY <2>3 DEF CellsOK
    <3> QED
      BY <3>1
  <2> QED
    BY <2>1, <2>2, <2>3
<1>4. Emptied(next'[b], owners'[b], ids'[b], rows'[b])
  <2>1. CASE rows'[b] # <<>>
    BY <2>1 DEF Emptied
  <2>2. CASE rows'[b] = <<>>
    BY <2>2, FollowEmpties
  <2> QED
    BY <2>1, <2>2
<1>5. /\ Found(ask[b].kind, ids'[b], rows'[b], missed'[b])
      /\ QueueShown(ask[b], next'[b], rows'[b], shown'[b], arrival[b])
      /\ ask[b].kind \notin CutKinds
  BY <1>1 DEF Found, QueueShown, CutKinds, PageKinds
<1>6. UnreadBy(b) \subseteq Unread(next'[b], ask[b].kind, owners'[b], owner)
  BY UnreadStays DEF UnreadBy
<1>7. HadBy(b) \cap Belongs(b) \subseteq Had(ids'[b], rows'[b], shown'[b], missed'[b])
  BY <1>2, <1>3 DEF HadBy, Had
<1> QED
  BY <1>4, <1>5, <1>6, <1>7, KeepsWhole

\* A list that a query returns has every course, or as many as its limit.
LEMMA PageFull ==
  ASSUME NEW set, set \subseteq Courses, NEW limit \in Nat, NEW page \in Pages(set, limit)
  PROVE  \/ ToSet(page) = set
         \/ Cardinality(ToSet(page)) = limit
<1>1. PICK n \in 0..limit : page \in [1..n -> set]
  BY DEF Pages
<1>2. page \in Seq(set) /\ n \in Nat
  BY <1>1, SeqDef
<1>3. \A i, j \in DOMAIN page : i # j => page[i] # page[j]
  BY DEF Pages
<1>4. IsFiniteSet(set)
  <2>1. set \in SUBSET Courses
    OBVIOUS
  <2> QED
    BY <2>1, FS_Subset, BrowsingAssumption
<1>5. Cardinality(ToSet(page)) = Len(page)
  BY <1>2, <1>3, ElementsCounted
<1>6. CASE Len(page) = limit
  BY <1>5, <1>6
<1>7. CASE Len(page) = Cardinality(set)
  BY <1>2, <1>3, <1>4, <1>7, ElementsComplete
<1> QED
  BY <1>6, <1>7 DEF Pages

\* The courses of a full page stay in hand.
LEMMA FullCovers ==
  ASSUME NEW kind \in CutKinds, NEW limit \in Nat, NEW want, NEW had, NEW unread, NEW lost,
         NEW page, Cardinality(page) = limit, page \subseteq had,
         had \subseteq Courses, lost \subseteq Courses
  PROVE  Covers(want, kind, limit, had, unread, lost)
<1> DEFINE all == had \cup lost
<1>1. IsFiniteSet(all)
  <2>1. all \in SUBSET Courses
    OBVIOUS
  <2> QED
    BY <2>1, FS_Subset, BrowsingAssumption
<1>2. page \in SUBSET all
  OBVIOUS
<1> HIDE DEF all
<1>3. Cardinality(page) <= Cardinality(all) /\ Cardinality(all) \in Nat
  BY <1>1, <1>2, FS_Subset, FS_CardinalityType
<1>4. Cardinality(all) >= limit
  BY <1>3
<1> QED
  BY <1>4 DEF Covers, all

\* A page takes every course with stars, or as many as asked for.
LEMMA QueryPageWhole ==
  ASSUME TypeOK, StarsGood, CellsOK, NEW b \in Browsers, Served(b), OwnCells(b), Served(b)',
         Complete(b), QueryPage(b)
  PROVE  Whole(b)'
<1>1. /\ next[b] = "query" /\ ask[b].kind \in PageKinds
      /\ UNCHANGED <<owners, rows, shown, missed>> /\ Follow(b)
  BY DEF QueryPage
<1>2. PICK page \in Pages(Listed, ask[b].limit) : ids' = [ids EXCEPT ![b] = page]
  BY DEF QueryPage
<1>3. /\ ids'[b] = page /\ rows[b] = <<>> /\ ids[b] = <<>> /\ ask[b].limit \in Nat
      /\ ask[b].kind \in StarKinds \cap CutKinds /\ ask[b].kind # "queue"
  BY <1>1, <1>2, ServedFacts DEF CellsOK, Complete, Emptied, CutKinds, PageKinds, StarKinds
<1>4. Listed \subseteq Courses
  BY DEF Listed
<1>5. /\ ToSet(page) \subseteq Listed
      /\ ToSet(page) = Listed \/ Cardinality(ToSet(page)) = ask[b].limit
  BY <1>3, <1>4, PageTyped, PageFull
<1>6. Emptied(next'[b], owners'[b], ids'[b], rows'[b])
  BY <1>1, FollowEmpties
<1>7. Found(ask[b].kind, ids'[b], rows'[b], missed'[b])
  BY <1>1, <1>3, <1>5, NoRows DEF Found, Listed, IsObjectAvailable, Seen
<1>8. QueueShown(ask[b], next'[b], rows'[b], shown'[b], arrival[b])
  BY <1>3 DEF QueueShown
<1> DEFINE had == Had(ids'[b], rows'[b], shown'[b], missed'[b])
           unread == Unread(next'[b], ask[b].kind, owners'[b], owner)
<1>9. had \subseteq Courses /\ ToSet(page) \subseteq had /\ Lost(b) \subseteq Courses
  BY <1>3, HadAfter DEF Had, Lost
<1>10. CASE Cardinality(ToSet(page)) = ask[b].limit
  <2>1. Covers(Belongs(b), ask[b].kind, ask[b].limit, had, unread, Lost(b))
    <3> HIDE DEF had, unread
    <3> QED
      BY <1>3, <1>9, <1>10, FullCovers
  <2> QED
    BY <1>6, <1>7, <1>8, <2>1, StatementCompletes
<1>11. CASE ToSet(page) = Listed
  <2>1. Belongs(b) \subseteq had
    <3>1. \A id \in Belongs(b) : id \in Listed \/ id \in missed[b]
      BY <1>3, BelongsReadable DEF Complete, OwnCells
    <3>2. missed[b] \subseteq had
      BY <1>1 DEF Had
    <3> QED
      BY <1>9, <1>11, <3>1, <3>2
  <2>2. HadBy(b) \subseteq had
    BY <1>1, <1>3, NoElements DEF HadBy, Had
  <2> QED
    BY <1>6, <1>7, <1>8, <2>1, <2>2, KeepsWhole
<1> QED
  BY <1>5, <1>10, <1>11

\* The courses of an owner that are still to be queried.
LEMMA OwnersLeft ==
  ASSUME NEW kind, kind \notin PageKinds, NEW label, NEW after,
         NEW people \in Seq(Pids), people # <<>>, NEW id \in Courses, NEW by,
         id \in Unread(label, kind, people, by), by[id] # Head(people)
  PROVE  id \in Unread(after, kind, Tail(people), by)
<1>1. ToSet(people) = {Head(people)} \cup ToSet(Tail(people))
  BY HeadAndTail
<1> QED
  BY <1>1 DEF Unread

\* The objects of one owner, or as many as asked for, unless the query fails.
LEMMA ObjectsWhole ==
  ASSUME CellsOK, NEW b \in Browsers, Served(b), OwnCells(b), Served(b)', Complete(b),
         next[b] = "query", ask[b].kind = "byOwner", owners' = [owners EXCEPT ![b] = Tail(@)],
         UNCHANGED <<ids, shown>>, Follow(b),
         LET of == {id \in Courses : owner[id] = Head(owners[b])}
             set == {id \in of : stage[id] = "published" /\ TypeOf(id) \in ask[b].types}
         IN \/ UNCHANGED rows /\ missed' = [missed EXCEPT ![b] = @ \cup of]
            \/ /\ UNCHANGED missed
               /\ \E list \in Pages(set, ask[b].limit) : rows' = [rows EXCEPT ![b] = EntriesOf(list)]
  PROVE  Whole(b)'
<1> DEFINE of == {id \in Courses : owner[id] = Head(owners[b])}
           set == {id \in of : stage[id] = "published" /\ TypeOf(id) \in ask[b].types}
           had == Had(ids'[b], rows'[b], shown'[b], missed'[b])
           unread == Unread(next'[b], ask[b].kind, owners'[b], owner)
<1>1. /\ owners[b] \in Seq(Pids) /\ owners[b] # <<>> /\ rows[b] = <<>> /\ ask[b].limit \in Nat
      /\ owners'[b] = Tail(owners[b]) /\ ask[b].kind \notin PageKinds
      /\ ask[b].kind \in CutKinds /\ ask[b].kind # "queue" /\ ask[b].kind \in Kinds
  BY ServedFacts DEF CellsOK, Typed, OnPath, Complete, Emptied, PageKinds, CutKinds
<1>2. \A id \in UnreadBy(b) : id \in of \/ id \in unread
  BY <1>1, OwnersLeft DEF UnreadBy, Unread
<1>3. Emptied(next'[b], owners'[b], ids'[b], rows'[b])
  BY FollowEmpties
<1>4. QueueShown(ask[b], next'[b], rows'[b], shown'[b], arrival[b])
  BY <1>1 DEF QueueShown
<1>5. CASE UNCHANGED rows /\ missed' = [missed EXCEPT ![b] = @ \cup of]
  <2>1. missed'[b] = missed[b] \cup of
    BY <1>5 DEF CellsOK
  <2>2. HadBy(b) \subseteq had /\ of \subseteq had
    BY <1>5, <2>1 DEF HadBy, Had
  <2>3. Found(ask[b].kind, ids'[b], rows'[b], missed'[b])
    BY <1>1, <1>5, NoRows DEF Found, Complete
  <2> HIDE DEF of, set
  <2> QED
    BY <1>2, <1>3, <1>4, <2>2, <2>3, KeepsWhole
<1>6. CASE /\ UNCHANGED missed
           /\ \E list \in Pages(set, ask[b].limit) : rows' = [rows EXCEPT ![b] = EntriesOf(list)]
  <2>1. PICK list \in Pages(set, ask[b].limit) : rows' = [rows EXCEPT ![b] = EntriesOf(list)]
    BY <1>6
  <2>2. set \subseteq Courses
    OBVIOUS
  <2>3. /\ list \in Seq(Courses) /\ ToSet(list) \subseteq set
        /\ ToSet(list) = set \/ Cardinality(ToSet(list)) = ask[b].limit
    <3> HIDE DEF set
    <3> QED
      BY <1>1, <2>2, PageTyped, PageFull
  <2>4. RowIds(rows'[b]) = ToSet(list)
    BY <2>1, <2>3, RowsOfList DEF CellsOK
  <2>5. Found(ask[b].kind, ids'[b], rows'[b], missed'[b])
    BY <1>1, <2>3, <2>4 DEF Found, Seen
  <2>6. /\ had \subseteq Courses /\ ToSet(list) \subseteq had /\ Lost(b) \subseteq Courses
        /\ HadBy(b) \subseteq had
    BY <1>1, <1>6, <2>4, HadAfter, NoRows DEF HadBy, Had, Lost
  <2>7. CASE Cardinality(ToSet(list)) = ask[b].limit
    <3>1. Covers(Belongs(b), ask[b].kind, ask[b].limit, had, unread, Lost(b))
      <4> HIDE DEF had, unread
      <4> QED
        BY <1>1, <2>6, <2>7, FullCovers
    <3> QED
      BY <1>3, <1>4, <2>5, <3>1, StatementCompletes
  <2>8. CASE ToSet(list) = set
    <3>1. ASSUME NEW id \in Belongs(b), id \in of PROVE id \in set
      <4>1. /\ stage[id] = "published" /\ Settled(id) /\ id \in Courses
            /\ (IF id \in arrival[b].maker THEN "maker" ELSE "course") \in ask[b].types
        BY <1>1, BelongsFacts
      <4>2. TypeOf(id) \in ask[b].types
        BY <4>1 DEF Complete, TypesKept, TypeOf
      <4> QED
        BY <3>1, <4>1, <4>2
    <3> HIDE DEF of, set
    <3> QED
      BY <1>2, <1>3, <1>4, <2>5, <2>6, <2>8, <3>1, KeepsWhole
  <2> QED
    BY <2>3, <2>7, <2>8
<1> QED
  BY <1>5, <1>6

\* All courses of a followed player wait to be filtered.
LEMMA CoursesWhole ==
  ASSUME CellsOK, NEW b \in Browsers, Served(b), OwnCells(b), Served(b)', Complete(b),
         QueryCoursesOf(b)
  PROVE  Whole(b)'
<1> DEFINE of == {id \in Courses : owner[id] = Head(owners[b])}
           set == {id \in Courses : owner[id] = Head(owners[b]) /\ TypeOf(id) = "course"}
           had == Had(ids'[b], rows'[b], shown'[b], missed'[b])
           unread == Unread(next'[b], ask[b].kind, owners'[b], owner)
<1>1. /\ next[b] = "query" /\ ask[b].kind = "followings" /\ UNCHANGED <<ids, shown, missed>>
      /\ owners'[b] = Tail(owners[b])
  BY DEF QueryCoursesOf, CellsOK
<1>2. /\ owners[b] \in Seq(Pids) /\ owners[b] # <<>> /\ rows[b] = <<>>
      /\ ask[b].kind \notin PageKinds /\ ask[b].kind \notin CutKinds /\ ask[b].kind \in Kinds
      /\ ask[b].types = {"course"}
  BY <1>1, ServedFacts DEF Typed, OnPath, Complete, Emptied, PageKinds, CutKinds
<1>3. PICK list \in Pages(set, Cardinality(Courses)) :
        /\ rows'[b] = EntriesOf(list)
        /\ IF list # <<>> THEN next'[b] = "filter" ELSE Follow(b)
  BY DEF QueryCoursesOf, CellsOK
<1>4. list \in Seq(Courses) /\ ToSet(list) = set
  <2>1. Cardinality(Courses) \in Nat /\ set \subseteq Courses
    BY BrowsingAssumption, FS_CardinalityType
  <2> HIDE DEF set
  <2>2. /\ list \in Seq(Courses) /\ ToSet(list) \subseteq set
        /\ ToSet(list) = set \/ Cardinality(ToSet(list)) = Cardinality(Courses)
    BY <2>1, PageTyped, PageFull
  <2>3. CASE Cardinality(ToSet(list)) = Cardinality(Courses)
    <3>1. /\ \A i, j \in DOMAIN list : i # j => list[i] # list[j]
      BY DEF Pages
    <3>2. Len(list) = Cardinality(Courses)
      BY <2>2, <2>3, <3>1, ElementsCounted
    <3>3. ToSet(list) = Courses
      BY <2>2, <3>1, <3>2, ElementsComplete, BrowsingAssumption
    <3> QED
      BY <2>1, <2>2, <3>3
  <2> QED
    BY <2>2, <2>3
<1>5. Emptied(next'[b], owners'[b], ids'[b], rows'[b])
  BY <1>3, FollowEmpties DEF Emptied
<1>6. /\ Found(ask[b].kind, ids'[b], rows'[b], missed'[b])
      /\ QueueShown(ask[b], next'[b], rows'[b], shown'[b], arrival[b])
  BY <1>1, <1>2 DEF Found, QueueShown
<1>7. HadBy(b) \subseteq had /\ set \subseteq had
  BY <1>1, <1>2, <1>3, <1>4, RowsOfList, NoRows DEF HadBy, Had
<1>8. \A id \in UnreadBy(b) : id \in of \/ id \in unread
  BY <1>1, <1>2, OwnersLeft DEF UnreadBy, Unread
<1>9. \A id \in Belongs(b) : id \in of => id \in set
  <2> SUFFICES ASSUME NEW id \in Belongs(b), id \in of PROVE id \in set
    OBVIOUS
  <2>1. Settled(id) /\ id \in Courses /\ id \notin arrival[b].maker
    BY <1>1, <1>2, BelongsFacts
  <2> QED
    BY <2>1 DEF Complete, TypesKept, TypeOf
<1> HIDE DEF of, set
<1> QED
  BY <1>2, <1>5, <1>6, <1>7, <1>8, <1>9, KeepsWhole

\* The courses of a batch and those after it.
LEMMA BatchAndRest ==
  ASSUME NEW b \in Browsers, ids[b] \in Seq(Courses), ids[b] # <<>>
  PROVE  ToSet(ids[b]) = ToSet(Batch(b)) \cup ToSet(SubSeq(ids[b], Len(Batch(b)) + 1, Len(ids[b])))
<1> DEFINE s == ids[b]  n == Len(s)  k == Len(Batch(b))  rest == SubSeq(s, k + 1, n)
<1>1. s \in Seq(Courses) /\ n \in Nat /\ n > 0 /\ DOMAIN s = 1..n /\ Head(s) = s[1]
  BY LenProperties, HeadTailProperties, EmptySeq
<1>2. \/ Batch(b) = <<s[1]>> /\ k = 1
      \/ Batch(b) = s /\ k = n
  BY <1>1 DEF Batch
<1>3. k \in 0..n
  BY <1>1, <1>2
<1>4. \A i \in 1..n : s[i] \in Courses
  BY <1>1, ElementOfSeq
<1> HIDE DEF s, n, k
<1>5. /\ rest \in Seq(Courses) /\ Len(rest) = n - k
      /\ \A i \in 1..(n - k) : rest[i] = s[k + i]
  <2>1. /\ k + 1 \in 1..(n + 1) /\ n \in Nat /\ n = Len(s)
        /\ \A i \in (k + 1)..n : s[i] \in Courses
    BY <1>1, <1>3, <1>4 DEF n
  <2> DEFINE m == k + 1
  <2>2. m \in Int /\ n \in Int /\ \A i \in m..n : s[i] \in Courses
    BY <1>3, <2>1
  <2> HIDE DEF m
  <2>3. /\ SubSeq(s, m, n) \in Seq(Courses)
        /\ Len(SubSeq(s, m, n)) = IF m <= n THEN n - m + 1 ELSE 0
        /\ \A i \in 1..(n - m + 1) : SubSeq(s, m, n)[i] = s[m + i - 1]
    BY <2>2, SubSeqProperties
  <2>4. /\ n - m + 1 = n - k /\ (IF m <= n THEN n - m + 1 ELSE 0) = n - k
        /\ \A i \in 1..(n - k) : m + i - 1 = k + i
    BY <1>3, <2>1 DEF m
  <2>5. /\ SubSeq(s, m, n) \in Seq(Courses) /\ Len(SubSeq(s, m, n)) = n - k
        /\ \A i \in 1..(n - k) : SubSeq(s, m, n)[i] = s[k + i]
    BY <2>3, <2>4
  <2> QED
    BY <2>5 DEF m
<1>6. DOMAIN rest = 1..(n - k)
  BY <1>5, LenProperties
<1>7. ToSet(rest) = {s[i] : i \in (k + 1)..n}
  <2>1. ToSet(rest) = {s[k + i] : i \in 1..(n - k)}
    BY <1>5, <1>6 DEF ToSet
  <2>2. \A i \in (k + 1)..n : i - k \in 1..(n - k) /\ i = k + (i - k)
    BY <1>1, <1>3
  <2>3. \A i \in 1..(n - k) : k + i \in (k + 1)..n
    BY <1>1, <1>3
  <2> QED
    BY <2>1, <2>2, <2>3
<1>8. ToSet(Batch(b)) = {s[i] : i \in 1..k}
  <2>1. CASE Batch(b) = <<s[1]>> /\ k = 1
    <3>1. DOMAIN <<s[1]>> = {1} /\ 1..k = {1}
      BY <2>1
    <3> QED
      BY <2>1, <3>1 DEF ToSet
  <2>2. CASE Batch(b) = s /\ k = n
    BY <1>1, <2>2 DEF ToSet
  <2> QED
    BY <1>2, <2>1, <2>2
<1>9. ToSet(s) = {s[i] : i \in 1..n}
  BY <1>1 DEF ToSet
<1>10. \A i : i \in 1..n <=> i \in 1..k \/ i \in (k + 1)..n
  BY <1>1, <1>3
<1>11. ToSet(s) = ToSet(Batch(b)) \cup ToSet(rest)
  BY <1>7, <1>8, <1>9, <1>10
<1> QED
  BY <1>11 DEF s, n, k

\* The courses of a batch wait to be looked up, unless they have no stars that
\* can be read, or are missed.
LEMMA RanksWhole ==
  ASSUME TypeOK, StarsGood, CellsOK, NEW b \in Browsers, Served(b), OwnCells(b), Served(b)',
         Complete(b), next[b] = "rank",
         ids' = [ids EXCEPT ![b] = SubSeq(@, Len(Batch(b)) + 1, Len(@))],
         UNCHANGED <<owners, shown>>, Follow(b),
         \/ UNCHANGED rows /\ missed' = [missed EXCEPT ![b] = @ \cup ToSet(Batch(b))]
         \/ /\ UNCHANGED missed
            /\ LET list == Only(Batch(b), Readable) IN
               rows' = [rows EXCEPT ![b] = [i \in DOMAIN list |->
                          [id |-> list[i], val |-> stars[list[i]], record |-> NoRow]]]
  PROVE  Whole(b)'
<1> DEFINE batch == ToSet(Batch(b))
           had == Had(ids'[b], rows'[b], shown'[b], missed'[b])
<1>1. /\ ids[b] \in Seq(Courses) /\ ids[b] # <<>> /\ ask[b].kind \in StarKinds
      /\ ask[b].kind # "queue" /\ rows[b] = <<>>
      /\ ask[b].kind \in CutKinds => ask[b].kind \in PageKinds
  BY ServedFacts, KindsApart DEF Typed, OnPath, Complete, Emptied, CutKinds
<1>2. /\ ToSet(ids[b]) = batch \cup ToSet(ids'[b]) /\ Batch(b) \in Seq(Courses)
      /\ batch \subseteq Courses
  <2>1. ids'[b] = SubSeq(ids[b], Len(Batch(b)) + 1, Len(ids[b]))
    BY DEF CellsOK
  <2>2. Batch(b) \in Seq(Courses)
    BY <1>1, BatchFacts
  <2> QED
    BY <1>1, <2>1, <2>2, BatchAndRest, ElementsTyped
<1>3. /\ missed[b] \subseteq missed'[b] /\ RowIds(rows'[b]) \subseteq batch
      /\ \A id \in batch : id \in missed'[b] \cup RowIds(rows'[b]) \/ id \notin Readable
  <2>1. CASE UNCHANGED rows /\ missed' = [missed EXCEPT ![b] = @ \cup ToSet(Batch(b))]
    <3>1. missed'[b] = missed[b] \cup batch /\ rows'[b] = <<>>
      BY <1>1, <2>1 DEF CellsOK
    <3> HIDE DEF batch
    <3> QED
      BY <3>1, NoRows
  <2> DEFINE list == Only(Batch(b), Readable)
             found == [i \in DOMAIN list |->
                         [id |-> list[i], val |-> stars[list[i]], record |-> NoRow]]
  <2>2. CASE UNCHANGED missed /\ rows' = [rows EXCEPT ![b] = found]
    <3>1. rows'[b] = found /\ missed'[b] = missed[b]
      BY <2>2 DEF CellsOK
    <3>2. ToSet(list) = batch \cap Readable
      BY <1>2, OnlyFacts
    <3> HIDE DEF list, batch
    <3>3. RowIds(found) = ToSet(list)
      <4>1. DOMAIN found = DOMAIN list /\ \A i \in DOMAIN list : found[i].id = list[i]
        OBVIOUS
      <4> HIDE DEF found
      <4> QED
        BY <4>1 DEF RowIds, ToSet
    <3> QED
      BY <3>1, <3>2, <3>3
  <2> QED
    BY <2>1, <2>2
<1>4. Emptied(next'[b], owners'[b], ids'[b], rows'[b])
  BY FollowEmpties
<1>5. Found(ask[b].kind, ids'[b], rows'[b], missed'[b])
  BY <1>1, <1>2, <1>3 DEF Complete, Found
<1>6. QueueShown(ask[b], next'[b], rows'[b], shown'[b], arrival[b])
  BY <1>1 DEF QueueShown
<1>7. UnreadBy(b) \subseteq Unread(next'[b], ask[b].kind, owners'[b], owner)
  BY UnreadStays DEF UnreadBy
<1>8. \A id \in HadBy(b) : id \in had \/ (id \in batch /\ id \notin Readable)
  BY <1>1, <1>2, <1>3, NoRows DEF HadBy, Had
<1>9. \A id \in Belongs(b) : id \in Readable
  BY <1>1, BelongsReadable DEF Complete, OwnCells
<1>10. ask[b].kind \in CutKinds => \A id \in batch : id \in Readable \/ id \in Lost(b)
  <2> SUFFICES ASSUME ask[b].kind \in CutKinds, NEW id \in batch, id \notin Lost(b)
               PROVE  id \in Readable
    OBVIOUS
  <2>1. id \in Courses /\ PlayersOnly(id) /\ id \in ToSet(ids[b])
    BY <1>2 DEF Lost
  <2>2. stars[id] # NoRow
    BY <1>1, <2>1 DEF Complete, Found
  <2> QED
    BY <2>1, <2>2 DEF StarsGood, Readable
<1> HIDE DEF batch
<1> QED
  BY <1>4, <1>5, <1>6, <1>7, <1>8, <1>9, <1>10, KeepsWhole

\* A statement fails: its courses are missed.
LEMMA SkipWhole ==
  ASSUME TypeOK, StarsGood, CellsOK, NEW b \in Browsers, Served(b), OwnCells(b), Served(b)',
         Complete(b), SkipFails(b)
  PROVE  Whole(b)'
<1>1. CASE next[b] = "query"
  <2>1. /\ ask[b].kind = "byOwner" /\ owners' = [owners EXCEPT ![b] = Tail(@)]
        /\ UNCHANGED <<ids, rows, shown>> /\ Follow(b)
        /\ missed' = [missed EXCEPT ![b] = @ \cup {id \in Courses : owner[id] = Head(owners[b])}]
    BY <1>1 DEF SkipFails
  <2> QED
    BY <1>1, <2>1, ObjectsWhole
<1>2. CASE next[b] = "filter"
  <2>1. /\ missed' = [missed EXCEPT ![b] = @ \cup {Head(rows[b]).id}]
        /\ rows' = [rows EXCEPT ![b] = Tail(@)] /\ UNCHANGED <<owners, ids, shown>>
        /\ IF rows'[b] # <<>> THEN UNCHANGED next ELSE Follow(b)
    BY <1>2 DEF SkipFails
  <2> QED
    BY <1>2, <2>1, FilterWhole
<1>3. CASE next[b] = "rank"
  <2>1. /\ missed' = [missed EXCEPT ![b] = @ \cup ToSet(Batch(b))]
        /\ ids' = [ids EXCEPT ![b] = SubSeq(@, Len(Batch(b)) + 1, Len(@))]
        /\ UNCHANGED <<owners, rows, shown>> /\ Follow(b)
    BY <1>3 DEF SkipFails
  <2> QED
    BY <1>3, <2>1, RanksWhole
<1>4. CASE next[b] = "look"
  <2>1. /\ missed' = [missed EXCEPT ![b] = @ \cup {Head(rows[b]).id}]
        /\ rows' = [rows EXCEPT ![b] = Tail(@)] /\ (Show(b, NoRow) \/ UNCHANGED shown)
        /\ UNCHANGED <<owners, ids>> /\ Follow(b)
    BY <1>4 DEF SkipFails
  <2>2. rows[b] # <<>> /\ ask[b].kind # "queue"
    BY <1>4, HeadFacts
  <2>3. missed'[b] = missed[b] \cup {Head(rows[b]).id} /\ rows'[b] = Tail(rows[b])
    BY <2>1 DEF CellsOK
  <2>4. IdsOf(shown[b]) \subseteq IdsOf(shown'[b])
    BY <2>1, ShowsMore
  <2> QED
    BY <1>4, <2>1, <2>2, <2>3, <2>4, RowGone
<1>5. CASE next[b] \in {"check", "record"}
  <2>1. /\ missed' = [missed EXCEPT ![b] = @ \cup {Head(rows[b]).id}]
        /\ UNCHANGED <<owners, ids>> /\ ShowWithout(b) /\ ask[b].kind = "withRecords"
    BY <1>5 DEF SkipFails
  <2>2. missed[b] \subseteq missed'[b]
    BY <2>1 DEF CellsOK
  <2> QED
    BY <1>5, <2>1, <2>2, WithoutWhole
<1> QED
  BY <1>1, <1>2, <1>3, <1>4, <1>5 DEF SkipFails

\* Every statement keeps its reply whole.
LEMMA ReadWhole ==
  ASSUME WholeInv, NEW b \in Browsers, Read(b)
  PROVE  Whole(b)' /\ OwnCells(b)
<1>1. /\ TypeOK /\ StarsGood /\ QueuesFinite /\ CellsOK
      /\ (Fresh(b) \/ Served(b)) /\ Whole(b) /\ BrowseInv
  BY DEF WholeInv, BrowseInv, ReplyInv, IInv
<1>2. OwnCells(b) /\ Served(b)'
  BY <1>1, ReadServes
<1>3. next[b] \notin {"idle", "error"}
  BY DEF Read, QueryPage, QueryCoursesOf, FilterCourse, QueryObjectsOf, ReadRanks, LookUp,
         CheckCourse, ReadRecord, ReadQueue, SkipFails, RequestFails
<1>4. Served(b) /\ Complete(b)
  BY <1>1, <1>3 DEF Fresh, Whole
<1>5. CASE FilterCourse(b)
  <2>1. /\ next[b] = "filter" /\ UNCHANGED <<owners, shown, missed>>
        /\ rows' = [rows EXCEPT ![b] = Tail(@)]
        /\ IF rows'[b] # <<>> THEN UNCHANGED next ELSE Follow(b)
        /\ ids' = IF IsObjectAvailable(Head(rows[b]).id)
                  THEN [ids EXCEPT ![b] = Append(@, Head(rows[b]).id)] ELSE ids
    BY <1>5 DEF FilterCourse
  <2> QED
    BY <1>1, <1>2, <1>4, <2>1, FilterWhole
<1>6. CASE QueryObjectsOf(b)
  <2> DEFINE of == {id \in Courses : owner[id] = Head(owners[b])}
             set == {id \in of : stage[id] = "published" /\ TypeOf(id) \in ask[b].types}
  <2>1. /\ next[b] = "query" /\ ask[b].kind = "byOwner" /\ owners' = [owners EXCEPT ![b] = Tail(@)]
        /\ UNCHANGED <<ids, shown, missed>> /\ Follow(b)
    BY <1>6 DEF QueryObjectsOf
  <2>2. \E list \in Pages(set, ask[b].limit) : rows' = [rows EXCEPT ![b] = EntriesOf(list)]
    <3>1. set = {id \in Courses : /\ owner[id] = Head(owners[b]) /\ stage[id] = "published"
                                  /\ TypeOf(id) \in ask[b].types}
      OBVIOUS
    <3> HIDE DEF set
    <3> QED
      BY <1>6, <3>1 DEF QueryObjectsOf
  <2> QED
    BY <1>1, <1>2, <1>4, <2>1, <2>2, ObjectsWhole
<1>7. CASE ReadRanks(b)
  <2>1. /\ next[b] = "rank" /\ UNCHANGED <<owners, shown, missed>> /\ Follow(b)
        /\ ids' = [ids EXCEPT ![b] = SubSeq(@, Len(Batch(b)) + 1, Len(@))]
        /\ LET list == Only(Batch(b), Readable) IN
           rows' = [rows EXCEPT ![b] = [i \in DOMAIN list |->
                      [id |-> list[i], val |-> stars[list[i]], record |-> NoRow]]]
    BY <1>7 DEF ReadRanks
  <2> QED
    BY <1>1, <1>2, <1>4, <2>1, RanksWhole
<1>8. CASE RequestFails(b)
  BY <1>1, <1>2, <1>8, RefusedWhole DEF RequestFails
<1>9. CASE QueryPage(b) \/ QueryCoursesOf(b)
  BY <1>1, <1>2, <1>4, <1>9, QueryPageWhole, CoursesWhole
<1>10. CASE LookUp(b) \/ CheckCourse(b)
  BY <1>1, <1>2, <1>4, <1>10, LookUpWhole, CheckWhole
<1>11. CASE ReadRecord(b) \/ ReadQueue(b)
  BY <1>1, <1>2, <1>4, <1>11, RecordWhole, QueueWhole
<1>12. CASE SkipFails(b) /\ Kept
  BY <1>1, <1>2, <1>4, <1>12, SkipWhole
<1> QED
  BY <1>2, <1>5, <1>6, <1>7, <1>8, <1>9, <1>10, <1>11, <1>12 DEF Read
-----------------------------------------------------------------------------
\* A request that arrives has all courses that belong on its reply before it.
LEMMA BeginWhole ==
  ASSUME CellsOK, NEW b \in Browsers, Fresh(b),
         NEW kind, NEW limit, NEW list, NEW people, NEW types, NEW label,
         Begins(kind, limit, list, people, types, label),
         Begin(b, kind, limit, list, people, types, label)
  PROVE  Whole(b)'
<1>1. /\ ask'[b] = [kind |-> kind, limit |-> limit, ids |-> list, owners |-> people,
                    types |-> types]
      /\ owners'[b] = people /\ shown'[b] = <<>> /\ missed'[b] = {}
      /\ ids'[b] = IF label = "rank" THEN list ELSE <<>>
      /\ rows'[b] = IF label \in {"look", "check"} THEN EntriesOf(list) ELSE <<>>
      /\ next'[b] = IF kind \notin PageKinds /\ people = <<>> /\ list = <<>> THEN "ok" ELSE label
      /\ arrival'[b] = Now /\ UNCHANGED vars
  BY DEF Begin, CellsOK, Fresh, Now
<1>2. /\ ask'[b].kind = kind /\ ask'[b].ids = list /\ ask'[b].owners = people
      /\ ask'[b].types = types /\ ask'[b].limit = limit
  BY <1>1
<1>3. /\ list \in Seq(Courses) /\ EntriesOf(list) \in Seq(Shown)
      /\ (EntriesOf(list) = <<>> <=> list = <<>>)
      /\ RowIds(EntriesOf(list)) = ToSet(list)
  BY EntriesWait, RowsOfList DEF Begins
<1> USE DEF PageKinds, MetaKinds
<1>4. Belongs(b)' \subseteq HadBy(b)' \cup UnreadBy(b)'
  <2>1. Belongs(b)' \subseteq Courses
    BY DEF Belongs
  <2>2. CASE kind \in PageKinds
    <3>1. next'[b] = "query"
      BY <1>1, <2>2 DEF Begins
    <3> QED
      BY <1>2, <2>1, <2>2, <3>1 DEF UnreadBy, Unread
  <2>3. CASE kind \in {"followings", "byOwner"}
    <3>1. \A id \in Belongs(b)' : owner'[id] \in ToSet(people)
      BY <1>2, <2>3 DEF Belongs
    <3>2. kind \notin PageKinds
      BY <2>3
    <3>3. UnreadBy(b)' = {id \in Courses : owner'[id] \in ToSet(people)}
      BY <1>1, <1>2, <3>2 DEF UnreadBy, Unread
    <3> QED
      BY <2>1, <3>1, <3>3
  <2>4. CASE kind = "byId"
    <3>1. label = "rank"
      BY <2>4 DEF Begins
    <3>2. ToSet(list) \subseteq HadBy(b)'
      BY <1>1, <3>1 DEF HadBy, Had
    <3>3. Belongs(b)' \subseteq ToSet(list)
      BY <1>2, <2>4 DEF Belongs
    <3> QED
      BY <3>2, <3>3
  <2>5. CASE kind \in MetaKinds \cup {"infos", "withRecords", "record"}
    <3>1. label \in {"look", "check"}
      BY <2>5 DEF Begins
    <3>2. ToSet(list) \subseteq HadBy(b)'
      BY <1>1, <1>3, <3>1 DEF HadBy, Had
    <3>3. Belongs(b)' \subseteq ToSet(list)
      <4>1. CASE kind \in MetaKinds
        BY <1>2, <4>1 DEF Belongs
      <4>2. CASE kind \in {"infos", "withRecords", "record"}
        BY <1>2, <4>2 DEF Belongs
      <4> QED
        BY <2>5, <4>1, <4>2
    <3> QED
      BY <3>2, <3>3
  <2>6. CASE kind = "queue"
    BY <1>2, <2>6 DEF Belongs
  <2>7. kind \in PageKinds \cup {"followings", "byOwner", "byId", "infos", "withRecords",
                                 "record", "queue"} \cup MetaKinds
    BY DEF Begins
  <2> QED
    BY <2>2, <2>3, <2>4, <2>5, <2>6, <2>7
<1>5. Covers(Belongs(b), ask[b].kind, ask[b].limit, HadBy(b), UnreadBy(b), Lost(b))'
  BY <1>4 DEF Covers
<1>6. Emptied(next[b], owners[b], ids[b], rows[b])'
  BY <1>1, <1>3 DEF Emptied, Begins
<1>7. Found(ask[b].kind, ids[b], rows[b], missed[b])'
  <2>1. kind \in CutKinds => ids'[b] = <<>> /\ rows'[b] = <<>>
    BY <1>1 DEF Begins, CutKinds
  <2> QED
    BY <1>2, <2>1, NoElements, NoRows DEF Found, CutKinds
<1>8. QueueShown(ask[b], next[b], rows[b], shown[b], arrival[b])'
  <2> SUFFICES ASSUME kind = "queue"
               PROVE  rows'[b] # <<>> /\ Head(rows'[b]).id = list[1] /\ next'[b] # "ok"
    BY <1>2 DEF QueueShown
  <2>1. PICK id \in Courses : list = <<id>> /\ label = "check"
    BY DEF Begins
  <2>2. rows'[b] = EntriesOf(<<id>>) /\ next'[b] = "check"
    BY <1>1, <2>1
  <2>3. EntriesOf(<<id>>) = <<EntryOf(id)>>
    BY DEF EntriesOf
  <2> QED
    BY <2>1, <2>2, <2>3 DEF EntryOf
<1>9. (ask[b].kind = "followings" => ask[b].types = {"course"})'
  BY <1>2 DEF Begins
<1>10. TypesKept(arrival[b])'
  BY <1>1 DEF TypesKept, Now, vars
<1>11. Noted(b)'
  BY <1>1 DEF Noted, Now, vars
<1> QED
  BY <1>5, <1>6, <1>7, <1>8, <1>9, <1>10, <1>11 DEF Whole, Complete

LEMMA ArriveWhole ==
  ASSUME WholeInv, NEW b \in Browsers, Arrive(b)
  PROVE  Whole(b)' /\ OthersStay(b)
<1>1. BrowseInv /\ CellsOK /\ (Fresh(b) \/ Served(b))
  BY DEF WholeInv, BrowseInv, ReplyInv
<1>2. OthersStay(b)
  BY <1>1, ArriveServed
<1>3. CASE \E kind, limit, list, people, types, label :
             /\ Begins(kind, limit, list, people, types, label)
             /\ Begin(b, kind, limit, list, people, types, label)
  <2>1. next[b] = "idle"
    BY <1>3 DEF Begin
  <2>2. Fresh(b)
    BY <1>1, <2>1 DEF Served, OnPath
  <2>3. Whole(b)'
    BY <1>1, <1>3, <2>2, BeginWhole
  <2> QED
    BY <1>2, <2>3
<1>4. CASE next' = [next EXCEPT ![b] = "error"]
  BY <1>1, <1>2, <1>4 DEF Whole, CellsOK
<1> QED
  BY <1>3, <1>4, ArrivalBegins
-----------------------------------------------------------------------------
LEMMA WholeInitOK == BrowsingInit => WholeInv
<1> SUFFICES ASSUME BrowsingInit PROVE WholeInv
  OBVIOUS
<1>1. BrowseInv /\ StarsGood
  BY BrowseInitOK, InitStars DEF BrowsingInit
<1>2. \A b \in Browsers : Whole(b)
  BY DEF BrowsingInit, Whole
<1> QED
  BY <1>1, <1>2 DEF WholeInv

LEMMA WholeStepOK == WholeInv /\ [BrowsingNext]_<<vars, browseVars>> => WholeInv'
<1> SUFFICES ASSUME WholeInv, [BrowsingNext]_<<vars, browseVars>> PROVE WholeInv'
  OBVIOUS
<1>1. /\ BrowseInv /\ StarsGood /\ ReplyInv /\ ScoresOK /\ IInv
      /\ (\A b \in Browsers : Whole(b) /\ (Fresh(b) \/ Served(b)))
  BY DEF WholeInv, BrowseInv, ReplyInv
<1>2. BrowseInv'
  BY <1>1, BrowseStepOK
<1>3. [Next]_vars
  BY <1>1, ArriveOK, ReadIsOwn, ElsewhereFacts DEF BrowsingNext, RepliesKept, OwnCells, ReplyInv
<1>4. StarsGood'
  BY <1>1, <1>3, StarsStayGood
<1>5. ASSUME NEW c \in Browsers, Away(c) PROVE Whole(c)'
  BY <1>1, <1>3, <1>5, WholeStays
<1>6. CASE Elsewhere \/ UNCHANGED <<vars, browseVars>>
  <2>1. ASSUME NEW c \in Browsers PROVE Whole(c)'
    BY <1>1, <1>5, <1>6, ElsewhereFacts DEF ReplyInv
  <2> QED
    BY <1>2, <1>4, <2>1 DEF WholeInv
<1>7. ASSUME NEW b \in Browsers, Arrive(b) \/ Read(b) PROVE WholeInv'
  <2>1. Whole(b)' /\ OthersStay(b) /\ UNCHANGED vars
    BY <1>1, <1>7, ArriveOK, ArriveWhole, ReadWhole DEF OwnCells, OthersStay, RepliesKept
  <2>2. ASSUME NEW c \in Browsers, c # b PROVE Whole(c)'
    <3>1. UNCHANGED <<next[c], ask[c], owners[c], ids[c], rows[c], shown[c], missed[c], arrival[c]>>
      BY <2>1, <2>2 DEF OthersStay
    <3> QED
      BY <1>5, <2>1, <3>1, OthersAway
  <2> QED
    BY <1>2, <1>4, <2>1, <2>2 DEF WholeInv
<1> QED
  BY <1>6, <1>7 DEF BrowsingNext

\* Whatever others write, withdraw or publish while a reply is put together,
\* statement by statement: every course that was there when the request
\* arrived, and still is, is on the reply unless a statement about it failed, a
\* moderator held it back, or the query had filled the page with others.
THEOREM NothingIsMissedHolds == BrowsingSpec => []NothingIsMissed
<1>1. BrowsingInit => WholeInv
  BY WholeInitOK
<1>2. WholeInv /\ [BrowsingNext]_<<vars, browseVars>> => WholeInv'
  BY WholeStepOK
<1>3. WholeInv => NothingIsMissed
  <2> SUFFICES ASSUME WholeInv, NEW b \in Browsers, next[b] = "ok"
               PROVE  LET had == IdsOf(shown[b]) \cup missed[b]
                          lost == {id \in Courses : \/ stage[id] = "withdrawn"
                                                    \/ ~PlayersOnly(id)
                                                    \/ (ask[b].kind = "byOwner"
                                                          /\ id \in arrival[b].review)}
                      IN /\ \/ Belongs(b) \subseteq had
                            \/ /\ ask[b].kind \in PageKinds \cup {"byOwner"}
                               /\ Cardinality(had \cup lost) >= ask[b].limit
                         /\ ask[b].kind = "queue" =>
                              \A e \in arrival[b].queue[ask[b].ids[1]] :
                                \E i \in DOMAIN shown[b] : shown[b][i].val = e.val
    BY DEF NothingIsMissed
  <2>1. Complete(b)
    BY DEF WholeInv, Whole
  <2>2. rows[b] = <<>> /\ ids[b] = <<>> /\ owners[b] = <<>>
    BY <2>1 DEF Complete, Emptied
  <2>3. HadBy(b) = IdsOf(shown[b]) \cup missed[b] /\ UnreadBy(b) = {}
    BY <2>2, NoElements, NoRows DEF HadBy, Had, UnreadBy, Unread
  <2>4. Covers(Belongs(b), ask[b].kind, ask[b].limit, IdsOf(shown[b]) \cup missed[b], {}, Lost(b))
    BY <2>1, <2>3 DEF Complete
  <2>5. ask[b].kind = "queue" =>
          \A e \in arrival[b].queue[ask[b].ids[1]] :
            \E i \in DOMAIN shown[b] : shown[b][i].val = e.val
    BY <2>1 DEF Complete, QueueShown
  <2> QED
    BY <2>4, <2>5 DEF Covers, CutKinds, Lost
<1> QED
  BY <1>1, <1>2, <1>3, PTL DEF BrowsingSpec
=============================================================================

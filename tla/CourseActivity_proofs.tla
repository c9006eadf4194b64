------------------------ MODULE CourseActivity_proofs ------------------------
(***************************************************************************)
(* Proofs about CourseActivity: type correctness, that the record of a     *)
(* course is the best of the accepted results and belongs to who sent it,  *)
(* that players leave rows of published objects only, that the list of a   *)
(* maker is its owner's, and that stars, ratings and buffers are counted   *)
(* once, for any number of requests, players and courses.                  *)
(***************************************************************************)
EXTENDS CourseActivity, Lists_proofs

CallRecord == [method : AllMethods, pid : Pids, items : Seq(Item)]

\* The methods that pass through a label.
MethodsAt(label) ==
  CASE label = "info" -> {"rateObjects", "AddToBufferQueues", "changeMeta"}
    [] label \in {"stars", "ratings", "record"} -> {"handleImport"}
    [] label = "check" -> AllMethods \ {"handleStars", "handleImport"}
    [] label = "write" -> AllMethods \ {"handleImport"}
    [] OTHER -> AllMethods

\* A request has parameters, stays on the path of its method, and works on an
\* item that its list has.
RequestOK(r) ==
  /\ pc[r] # "idle" =>
       /\ call[r] \in CallRecord /\ call[r].method \in MethodsAt(pc[r])
       /\ Len(call[r].items) <= MaxItems
       /\ call[r].method \in Single => Len(call[r].items) = 1
       /\ pc[r] \notin Ended => at[r] \in 1..Len(call[r].items)
  /\ pc[r] = "idle" => at[r] = 1

\* The stages of the life of an object.
Stages == {"absent", "pending", "published", "withdrawn"}

\* The inductive invariant.
IInv == TypeOK /\ (\A r \in Requests : RequestOK(r)) /\ LeaderboardIsHonest
-----------------------------------------------------------------------------
\* The item in work is one of the parameters.
LEMMA ItemInList ==
  ASSUME NEW r \in Requests, RequestOK(r), pc[r] \notin Ended \cup {"idle"}
  PROVE  /\ ItemOf(r) \in Item /\ ItemOf(r).id \in Courses /\ ItemOf(r).val \in Int
         /\ at[r] \in 1..Len(call[r].items) /\ at[r] <= MaxItems
         /\ call[r].method \in Single => at[r] = 1
<1>1. call[r].items \in Seq(Item) /\ at[r] \in 1..Len(call[r].items)
  BY DEF RequestOK, CallRecord
<1>2. ItemOf(r) \in Item
  BY <1>1, ElementOfSeq DEF ItemOf
<1>3. Len(call[r].items) \in Nat /\ Len(call[r].items) <= MaxItems
  BY <1>1, LenProperties DEF RequestOK
<1>4. call[r].method \in Single => Len(call[r].items) = 1
  BY DEF RequestOK
<1>a. MaxItems \in Nat
  BY ActivityAssumption
<1>5. at[r] <= MaxItems /\ (call[r].method \in Single => at[r] = 1)
  <2> DEFINE n == Len(call[r].items)  k == at[r]
  <2>1. k \in 1..n /\ n \in Nat /\ n <= MaxItems
    BY <1>1, <1>3
  <2>2. call[r].method \in Single => n = 1
    BY <1>4
  <2> HIDE DEF n, k
  <2>3. k <= MaxItems /\ (n = 1 => k = 1)
    BY <2>1, <1>a
  <2> QED
    BY <2>2, <2>3 DEF k
<1>6. ItemOf(r).id \in Courses /\ ItemOf(r).val \in Int
  BY <1>2 DEF Item
<1> QED
  BY <1>1, <1>2, <1>5, <1>6

\* Going to a label or to the next item changes at and pc of one request.
LEMMA Moves ==
  ASSUME TypeOK, NEW r \in Requests, RequestOK(r), pc[r] \notin Ended \cup {"idle"},
         NextItem(r) \/ DoneButFails(r) \/ (\E label \in Labels : Goto(r, label))
  PROVE  pc' \in [Requests -> Labels] /\ at' \in [Requests -> Nat]
<1>1. call[r].method \in AllMethods => FirstLabel(call[r].method) \in Labels
  BY DEF FirstLabel, Labels, AllMethods
<1>2. call[r].method \in AllMethods
  BY DEF RequestOK, CallRecord
<1>3. CASE NextItem(r)
  <2>1. /\ at \in [Requests -> Nat] /\ pc \in [Requests -> Labels]
        /\ at[r] + 1 \in Nat /\ "ok" \in Labels
    BY DEF TypeOK, Labels
  <2>2. /\ at' = at \/ at' = [at EXCEPT ![r] = at[r] + 1]
        /\ \E label \in Labels : pc' = [pc EXCEPT ![r] = label]
    BY <1>1, <1>2, <1>3, <2>1 DEF NextItem
  <2> QED
    BY <2>1, <2>2
<1>4. CASE \E label \in Labels : Goto(r, label)
  BY <1>4 DEF Goto, TypeOK
<1>5. CASE DoneButFails(r)
  <2>1. /\ at \in [Requests -> Nat] /\ pc \in [Requests -> Labels]
        /\ at[r] + 1 \in Nat /\ "error" \in Labels
    BY DEF TypeOK, Labels
  <2> QED
    BY <1>5, <2>1 DEF DoneButFails
<1> QED
  BY <1>3, <1>4, <1>5

\* NextItem leaves a well-formed request.
LEMMA NextItemOK ==
  ASSUME TypeOK, NEW r \in Requests, RequestOK(r), pc[r] \notin Ended \cup {"idle"},
         call[r].method \in {"RateCustomRanking", "rateObjects",
                             "AddToBufferQueues", "handleStars"},
         NextItem(r), call' = call
  PROVE  RequestOK(r)'
<1> DEFINE m == call[r].method
<1>1. /\ FirstLabel(m) \in Labels \ (Ended \cup {"idle"})
      /\ m \in MethodsAt(FirstLabel(m)) /\ m \in MethodsAt("ok")
  BY DEF FirstLabel, MethodsAt, Labels, Ended, AllMethods
<1>2. /\ call[r] \in CallRecord /\ Len(call[r].items) \in Nat /\ at[r] \in Nat
      /\ at[r] \in 1..Len(call[r].items)
  BY <1>1, LenProperties DEF RequestOK, CallRecord, TypeOK
<1>3. CASE at[r] < Len(call[r].items)
  BY <1>1, <1>2, <1>3 DEF NextItem, RequestOK, TypeOK, Labels, Ended
<1>4. CASE ~(at[r] < Len(call[r].items))
  BY <1>1, <1>2, <1>4 DEF NextItem, RequestOK, TypeOK, Labels, Ended
<1> QED
  BY <1>3, <1>4

\* Going to a label on the path of the method leaves a well-formed request.
LEMMA GotoOK ==
  ASSUME TypeOK, NEW r \in Requests, RequestOK(r), pc[r] \notin Ended \cup {"idle"},
         NEW label \in Labels \ {"idle"}, Goto(r, label), call' = call,
         call[r].method \in MethodsAt(label)
  PROVE  RequestOK(r)'
BY DEF Goto, RequestOK, TypeOK, Labels, Ended

\* So does ending with an error after an item that is done.
LEMMA DoneButFailsOK ==
  ASSUME TypeOK, NEW r \in Requests, RequestOK(r), pc[r] \notin Ended \cup {"idle"},
         DoneButFails(r), call' = call
  PROVE  RequestOK(r)'
<1>1. pc'[r] = "error" /\ call[r].method \in MethodsAt("error")
  BY DEF DoneButFails, RequestOK, CallRecord, TypeOK, MethodsAt
<1> QED
  BY <1>1 DEF RequestOK, Ended

\* The other requests are not touched.
LEMMA OthersOK ==
  ASSUME TypeOK, NEW r \in Requests, NEW q \in Requests, q # r, RequestOK(q),
         pc'[q] = pc[q], call'[q] = call[q], at'[q] = at[q]
  PROVE  RequestOK(q)'
BY DEF RequestOK

\* The leaderboard stands as long as the records do and no upload is answered.
LEMMA Quiet ==
  ASSUME LeaderboardIsHonest, call' = call, records' = records,
         \A r \in Requests : pc'[r] # "idle" <=> pc[r] # "idle",
         \A r \in Requests : pc'[r] = "ok" /\ call[r].method = "UploadCourseRecord"
                               => pc[r] = "ok"
  PROVE  LeaderboardIsHonest'
<1>1. \A id \in Courses : PlayersOnly(id)' = PlayersOnly(id)
  BY DEF PlayersOnly, Mentions, Asked
<1> QED
  BY <1>1 DEF LeaderboardIsHonest, Ok, Asked
-----------------------------------------------------------------------------
LEMMA InitOK == Init => IInv
<1> SUFFICES ASSUME Init PROVE IInv
  OBVIOUS
<1>1. TypeOK
  <2>1. stage \in [Courses -> {"absent", "pending", "published", "withdrawn"}]
    BY DEF Init, Life!Init
  <2>2. owner \in [Courses -> Pids \cup {NoOne}]
    BY DEF Init, Life!Init
  <2> QED
    BY <2>1, <2>2, ActivityAssumption, EmptySeq DEF Init, TypeOK, Labels, Rating
<1>2. \A r \in Requests : RequestOK(r)
  BY DEF Init, RequestOK
<1>3. LeaderboardIsHonest
  BY DEF Init, LeaderboardIsHonest, Ok, Asked
<1> QED
  BY <1>1, <1>2, <1>3 DEF IInv

\* A received request is well-formed.
LEMMA ReceiveOK ==
  ASSUME TypeOK, NEW r \in Requests, RequestOK(r), Receive(r)
  PROVE  /\ RequestOK(r)' /\ call'[r] \in CallRecord
         /\ pc' \in [Requests -> Labels] /\ call' \in [Requests -> CallRecord \cup {NoCall}]
         /\ pc'[r] = "ok" => call'[r].method # "UploadCourseRecord"
         /\ pc[r] = "idle"
         /\ \A q \in Requests \ {r} : pc'[q] = pc[q] /\ call'[q] = call[q]
<1>1. PICK m \in Methods, p \in Pids, n \in 0..MaxItems : \E list \in [1..n -> Items] :
       /\ m \in Single => n = 1
       /\ call' = [call EXCEPT ![r] = [method |-> m, pid |-> p, items |-> list]]
       /\ pc' = [pc EXCEPT ![r] = IF n = 0 THEN "ok" ELSE FirstLabel(m)]
  BY DEF Receive
<1>2. PICK list \in [1..n -> Items] :
       /\ m \in Single => n = 1
       /\ call' = [call EXCEPT ![r] = [method |-> m, pid |-> p, items |-> list]]
       /\ pc' = [pc EXCEPT ![r] = IF n = 0 THEN "ok" ELSE FirstLabel(m)]
  BY <1>1
<1>3. /\ m \in AllMethods /\ MaxItems \in Nat /\ n \in Nat /\ n <= MaxItems
      /\ Items \subseteq Item
  BY ActivityAssumption
<1>4. list \in Seq(Item) /\ Len(list) = n
  BY <1>3, SeqDef, LenProperties
<1>5. /\ FirstLabel(m) \in Labels \ (Ended \cup {"idle"})
      /\ m \in MethodsAt(FirstLabel(m)) /\ m \in MethodsAt("ok")
  BY <1>3 DEF FirstLabel, MethodsAt, Labels, Ended, AllMethods
<1>6. /\ pc \in [Requests -> Labels] /\ call \in [Requests -> CallRecord \cup {NoCall}]
      /\ pc[r] = "idle" /\ at' = at /\ at[r] = 1
  BY DEF TypeOK, Receive, RequestOK, CallRecord
<1>7. call'[r] = [method |-> m, pid |-> p, items |-> list] /\ call'[r] \in CallRecord
  BY <1>2, <1>3, <1>4, <1>6 DEF CallRecord
<1>8. /\ pc'[r] = IF n = 0 THEN "ok" ELSE FirstLabel(m)
      /\ pc' \in [Requests -> Labels] /\ pc'[r] # "idle"
  BY <1>2, <1>5, <1>6 DEF Labels
<1>9. RequestOK(r)'
  <2>1. /\ call'[r].method = m /\ call'[r].items = list /\ at'[r] = 1
        /\ m \in MethodsAt(pc'[r])
        /\ pc'[r] \notin Ended => n # 0
    BY <1>5, <1>6, <1>7, <1>8 DEF Ended
  <2> QED
    BY <2>1, <1>2, <1>3, <1>4, <1>7, <1>8 DEF RequestOK
<1> QED
  BY <1>2, <1>5, <1>6, <1>7, <1>8, <1>9 DEF Single, Ended

\* A new request cannot spoil the leaderboard: it is not yet accepted, and an
\* import that has arrived only makes fewer courses the players' own.
LEMMA ReceiveHonest ==
  ASSUME IInv, NEW r \in Requests, Receive(r)
  PROVE  LeaderboardIsHonest'
<1>1. /\ pc[r] = "idle" /\ records' = records
      /\ pc'[r] = "ok" => call'[r].method # "UploadCourseRecord"
      /\ \A q \in Requests \ {r} : pc'[q] = pc[q] /\ call'[q] = call[q]
  BY ReceiveOK DEF IInv, Receive, tables
<1>2. \A id \in Courses : PlayersOnly(id)' => PlayersOnly(id)
  <2>1. \A id \in Courses, m \in AllMethods : Mentions(m, id) \subseteq Mentions(m, id)'
    BY <1>1 DEF Mentions, Asked
  <2> QED
    BY <2>1 DEF PlayersOnly, AllMethods
<1>3. \A q \in Requests : Ok(q, "UploadCourseRecord")' =>
         Ok(q, "UploadCourseRecord") /\ call'[q] = call[q]
  BY <1>1 DEF Ok
<1>4. \A q \in Requests : Asked(q, "UploadCourseRecord") =>
         Asked(q, "UploadCourseRecord")' /\ call'[q] = call[q]
  BY <1>1 DEF Asked
<1> QED
  BY <1>1, <1>2, <1>3, <1>4 DEF IInv, LeaderboardIsHonest
-----------------------------------------------------------------------------
\* What every step of a request does to its own control state.
Moved(r) ==
  /\ pc[r] \notin Ended \cup {"idle"}
  /\ call' = call
  /\ \/ /\ NextItem(r)
        /\ call[r].method \in {"RateCustomRanking", "rateObjects",
                               "AddToBufferQueues", "handleStars"}
     \/ DoneButFails(r) /\ call[r].method = "rateObjects"
     \/ \E label \in Labels \ {"idle"} :
          /\ Goto(r, label) /\ call[r].method \in MethodsAt(label)

LEMMA MovedOK ==
  ASSUME IInv, NEW r \in Requests, Moved(r)
  PROVE  /\ pc' \in [Requests -> Labels] /\ at' \in [Requests -> Nat]
         /\ \A q \in Requests : RequestOK(q)'
         /\ \A q \in Requests : pc'[q] # "idle" <=> pc[q] # "idle"
         /\ \A q \in Requests \ {r} : pc'[q] = pc[q]
<1>1. TypeOK /\ RequestOK(r)
  BY DEF IInv
<1>2. NextItem(r) \/ DoneButFails(r) \/ (\E label \in Labels : Goto(r, label))
  BY DEF Moved
<1>3. pc' \in [Requests -> Labels] /\ at' \in [Requests -> Nat]
  BY <1>1, <1>2, Moves DEF Moved
<1>4. \A q \in Requests \ {r} : pc'[q] = pc[q] /\ at'[q] = at[q]
  <2>1. pc \in [Requests -> Labels] /\ at \in [Requests -> Nat]
    BY <1>1 DEF TypeOK
  <2> QED
    BY <2>1, <1>2 DEF NextItem, DoneButFails, Goto
<1>5. RequestOK(r)'
  BY <1>1, NextItemOK, DoneButFailsOK, GotoOK DEF Moved
<1>6. \A q \in Requests : q # r => RequestOK(q)'
  BY <1>1, <1>4, OthersOK DEF Moved, IInv
<1>7. pc'[r] # "idle" /\ pc[r] # "idle"
  <2>1. call[r].method \in AllMethods /\ pc \in [Requests -> Labels]
    BY <1>1 DEF Moved, RequestOK, CallRecord, TypeOK
  <2>2. FirstLabel(call[r].method) # "idle"
    BY <2>1 DEF FirstLabel, AllMethods
  <2> QED
    BY <2>1, <2>2 DEF Moved, NextItem, DoneButFails, Goto
<1> QED
  BY <1>3, <1>4, <1>5, <1>6, <1>7

\* The checks and the writes move along the path of their method.
LEMMA WriteMoves ==
  ASSUME IInv, NEW r \in Requests,
         \/ Info(r) \/ Check(r) \/ WriteRecord(r) \/ WriteStars(r) \/ WriteRating(r)
         \/ WriteBuffer(r) \/ WriteMeta(r)
         \/ ImportStars(r) \/ ImportRatings(r) \/ ImportRecord(r)
  PROVE  Moved(r)
<1>1. RequestOK(r) /\ pc[r] \in Labels
  BY DEF IInv, TypeOK
<1>2. pc[r] # "idle" => call[r].method \in MethodsAt(pc[r])
  BY <1>1 DEF RequestOK
<1>3. CASE Info(r)
  <2>1. call[r].method \in {"rateObjects", "AddToBufferQueues", "changeMeta"}
    BY <1>2, <1>3 DEF Info, MethodsAt
  <2>2. \E label \in {"error", "check", "write"} :
          /\ Goto(r, label)
          /\ label = "check" => call[r].method = "AddToBufferQueues"
    BY <1>3 DEF Info
  <2>3. \A label \in {"error", "check", "write"} : call[r].method \in MethodsAt(label)
    BY <2>1 DEF MethodsAt, AllMethods
  <2> QED
    BY <1>3, <2>1, <2>2, <2>3 DEF Info, Moved, Ended, Labels
<1>4. CASE Check(r)
  <2>1. call[r].method \in AllMethods \ {"handleStars", "handleImport"}
    BY <1>2, <1>4 DEF Check, MethodsAt
  <2>2. \A label \in {"error", "write"} : call[r].method \in MethodsAt(label)
    BY <2>1 DEF MethodsAt, Ended
  <2>3. \/ NextItem(r) /\ call[r].method = "RateCustomRanking"
        \/ \E label \in {"error", "write"} : Goto(r, label)
    BY <1>4 DEF Check
  <2> QED
    BY <1>4, <2>1, <2>2, <2>3 DEF Check, Moved, Ended, Labels
<1>5. CASE WriteRecord(r) \/ WriteMeta(r)
  BY <1>5, <1>2 DEF WriteRecord, WriteMeta, Moved, MethodsAt, Ended, Labels,
       AllMethods
<1>6. CASE WriteStars(r) \/ WriteRating(r) \/ WriteBuffer(r)
  BY <1>6 DEF WriteStars, WriteRating, WriteBuffer, Moved, Ended
<1>7. CASE ImportStars(r) \/ ImportRatings(r) \/ ImportRecord(r)
  <2>1. call[r].method = "handleImport"
    BY <1>2, <1>7 DEF ImportStars, ImportRatings, ImportRecord, MethodsAt
  <2> QED
    BY <1>7, <2>1 DEF ImportStars, ImportRatings, ImportRecord, Moved, MethodsAt, Ended,
         Labels, AllMethods
<1> QED
  BY <1>3, <1>4, <1>5, <1>6, <1>7

\* So does an error.
LEMMA FailureMoves ==
  ASSUME IInv, NEW r \in Requests, StatementFails(r)
  PROVE  /\ Moved(r)
         /\ pc'[r] = "ok" => call[r].method # "UploadCourseRecord"
<1>1. RequestOK(r) /\ pc \in [Requests -> Labels] /\ pc[r] \notin Ended \cup {"idle"}
  BY DEF IInv, TypeOK, StatementFails
<1>2. call[r].method \in MethodsAt(pc[r]) /\ call[r].method \in AllMethods
  BY <1>1 DEF RequestOK, CallRecord
<1>3. call' = call
  BY DEF StatementFails
<1>a. pc[r] \in {"stars", "ratings", "record"} => call[r].method = "handleImport"
  BY <1>2 DEF MethodsAt
<1>4. CASE call[r].method = "RateCustomRanking"
  <2>1. NextItem(r)
    BY <1>4, <1>a DEF StatementFails
  <2> QED
    BY <1>1, <1>3, <1>4, <2>1 DEF Moved
<1>5. ASSUME call[r].method # "RateCustomRanking"
      PROVE  Moved(r) /\ (pc'[r] = "ok" => call[r].method # "UploadCourseRecord")
  <2>1. \E label \in {"ratings", "record", "ok", "error"} :
          /\ Goto(r, label)
          /\ label \in {"ratings", "record"} => pc[r] \in {"stars", "ratings"}
          /\ label = "ok" => pc[r] = "record"
    BY <1>5 DEF StatementFails
  <2>2. PICK label \in {"ratings", "record", "ok", "error"} :
          /\ Goto(r, label)
          /\ label \in {"ratings", "record"} => pc[r] \in {"stars", "ratings"}
          /\ label = "ok" => pc[r] = "record"
    BY <2>1
  <2>4. call[r].method \in MethodsAt(label)
    BY <1>2, <1>a, <2>2 DEF MethodsAt, AllMethods
  <2>5. pc'[r] = label /\ label \in Labels \ {"idle", "check"}
    BY <1>1, <2>2 DEF Goto, Labels
  <2> QED
    BY <1>1, <1>3, <1>a, <2>2, <2>4, <2>5 DEF Moved
<1> QED
  BY <1>3, <1>4, <1>5

-----------------------------------------------------------------------------
\* The tables keep their columns.
LEMMA WriteType ==
  ASSUME IInv, NEW r \in Requests,
         \/ Info(r) \/ Check(r) \/ WriteRecord(r) \/ WriteStars(r) \/ WriteRating(r)
         \/ WriteBuffer(r) \/ WriteMeta(r)
         \/ ImportStars(r) \/ ImportRatings(r) \/ ImportRecord(r)
  PROVE  TypeOK'
<1>1. /\ TypeOK /\ RequestOK(r)
      /\ Moved(r)
      /\ pc' \in [Requests -> Labels] /\ at' \in [Requests -> Nat]
  BY WriteMoves, MovedOK DEF IInv
<1>2. call' = call
  BY <1>1 DEF Moved
<1>3. /\ ItemOf(r).id \in Courses /\ ItemOf(r).val \in Int /\ call[r].pid \in Pids
  BY <1>1, ItemInList DEF Moved, RequestOK, CallRecord
<1>4. /\ records \in [Courses -> Record \cup {NoRow}]
      /\ stars \in [Courses -> Int \cup {NoRow}]
      /\ ratings \in [Courses -> Rating \cup {NoRow}]
      /\ queue \in [Courses -> SUBSET Entry] /\ maker \subseteq Courses
  BY <1>1 DEF TypeOK
<1>6. review' = review
  BY DEF Info, Check, WriteRecord, WriteStars, WriteRating, WriteBuffer, WriteMeta,
         ImportStars, ImportRatings, ImportRecord, objects
<1> DEFINE id == ItemOf(r).id  val == ItemOf(r).val  pid == call[r].pid
<1>5. /\ stage' = stage /\ owner' = owner
      /\ records' \in [Courses -> Record \cup {NoRow}]
      /\ stars' \in [Courses -> Int \cup {NoRow}]
      /\ ratings' \in [Courses -> Rating \cup {NoRow}]
      /\ queue' \in [Courses -> SUBSET Entry] /\ maker' \subseteq Courses
  <2>1. CASE Info(r) \/ Check(r)
    BY <2>1, <1>4 DEF Info, Check, objects, tables
  <2>2. CASE WriteRecord(r)
    <3>1. [first |-> pid, best |-> pid, score |-> val] \in Record
      BY <1>3 DEF Record
    <3>2. \A row \in Record : [first |-> row.first, best |-> pid, score |-> val] \in Record
      BY <1>3 DEF Record
    <3>3. \E row \in Record \cup {NoRow} : records' = [records EXCEPT ![id] = row]
      BY <2>2, <1>3, <1>4, <3>1, <3>2 DEF WriteRecord
    <3> QED
      BY <2>2, <1>3, <1>4, <3>3 DEF WriteRecord, objects
  <2>3. CASE WriteStars(r) \/ ImportStars(r)
    <3>1. \E n \in Int : stars' = [stars EXCEPT ![id] = n]
      BY <2>3, <1>3, <1>4 DEF WriteStars, ImportStars
    <3> QED
      BY <2>3, <1>3, <1>4, <3>1 DEF WriteStars, ImportStars, objects
  <2>4. CASE WriteRating(r) \/ ImportRatings(r)
    <3>1. \A row \in Rating :
            /\ [total |-> row.total + val, count |-> row.count + 1] \in Rating
            /\ [total |-> val, count |-> row.count] \in Rating
      BY <1>3 DEF Rating
    <3>2. [total |-> val, count |-> 1] \in Rating
      BY <1>3 DEF Rating
    <3>3. \E row \in Rating \cup {NoRow} : ratings' = [ratings EXCEPT ![id] = row]
      <4>1. CASE WriteRating(r)
        BY <4>1, <1>3, <1>4, <3>1 DEF WriteRating
      <4>2. CASE ImportRatings(r) /\ ratings[id] = NoRow
        BY <4>2, <1>3, <1>4, <3>2 DEF ImportRatings
      <4>3. CASE ImportRatings(r) /\ ratings[id] # NoRow
        BY <4>3, <1>3, <1>4, <3>1 DEF ImportRatings
      <4> QED
        BY <2>4, <4>1, <4>2, <4>3
    <3> QED
      BY <2>4, <1>3, <1>4, <3>3 DEF WriteRating, ImportRatings, objects
  <2>5. CASE WriteBuffer(r)
    <3>1. [by |-> pid, val |-> val] \in Entry
      BY <1>3 DEF Entry
    <3>2. \E entries \in SUBSET Entry : queue' = [queue EXCEPT ![id] = entries]
      BY <2>5, <1>3, <1>4, <3>1 DEF WriteBuffer
    <3> QED
      BY <2>5, <1>3, <1>4, <3>2 DEF WriteBuffer, objects
  <2>6. CASE WriteMeta(r)
    BY <2>6, <1>3, <1>4 DEF WriteMeta, tables
  <2>7. CASE ImportRecord(r)
    <3>1. \A first \in Pids \cup {NoOne}, best \in Pids :
            [first |-> first, best |-> best, score |-> val] \in Record
      BY <1>3 DEF Record
    <3>2. \/ records' = records
          \/ \E row \in Record : records' = [records EXCEPT ![id] = row]
      BY <2>7, <3>1 DEF ImportRecord
    <3> QED
      BY <2>7, <1>3, <1>4, <3>2 DEF ImportRecord, objects
  <2> QED
    BY <2>1, <2>2, <2>3, <2>4, <2>5, <2>6, <2>7
<1> QED
  BY <1>1, <1>2, <1>5, <1>6 DEF TypeOK

\* Only an upload that has just written answers an upload with success.
LEMMA OthersAreQuiet ==
  ASSUME IInv, NEW r \in Requests,
         \/ Info(r) \/ Check(r) \/ WriteStars(r) \/ WriteRating(r) \/ WriteBuffer(r)
         \/ WriteMeta(r) \/ ImportStars(r) \/ ImportRatings(r)
  PROVE  LeaderboardIsHonest'
<1>1. /\ Moved(r) /\ RequestOK(r) /\ pc \in [Requests -> Labels]
      /\ \A q \in Requests : pc'[q] # "idle" <=> pc[q] # "idle"
      /\ \A q \in Requests \ {r} : pc'[q] = pc[q]
  BY WriteMoves, MovedOK DEF IInv, TypeOK
<1>2. call' = call /\ records' = records
  BY DEF Info, Check, WriteStars, WriteRating, WriteBuffer, WriteMeta, ImportStars,
         ImportRatings, tables
<1>3. pc[r] \in {"stars", "ratings"} => call[r].method = "handleImport"
  BY <1>1 DEF RequestOK, MethodsAt
<1>4. pc[r] = "info" => call[r].method # "UploadCourseRecord"
  BY <1>1 DEF RequestOK, MethodsAt
<1>5. pc'[r] = "ok" => call[r].method # "UploadCourseRecord"
  BY <1>1, <1>3, <1>4 DEF Info, Check, WriteStars, WriteRating, WriteBuffer, WriteMeta,
         ImportStars, ImportRatings, Goto
<1> QED
  BY <1>1, <1>2, <1>5, Quiet DEF IInv

\* What the upsert leaves in a row.
LEMMA BetterRow ==
  ASSUME NEW pid \in Pids, NEW val \in Int, NEW old, NEW new,
         \/ old = NoRow /\ new = [first |-> pid, best |-> pid, score |-> val]
         \/ /\ old # NoRow /\ old \in Record /\ old.score > val
            /\ new = [first |-> old.first, best |-> pid, score |-> val]
         \/ old # NoRow /\ old \in Record /\ ~(old.score > val) /\ new = old
  PROVE  /\ new \in Record /\ new # NoRow
         /\ new.score \in Int /\ new.score <= val
         /\ old # NoRow => new.score <= old.score /\ new.first = old.first
         /\ \/ old # NoRow /\ new = old
            \/ new.best = pid /\ new.score = val
         /\ old = NoRow => new.first = pid
<1>1. CASE old = NoRow
  BY <1>1, ActivityAssumption DEF Record
<1>2. CASE old # NoRow /\ old \in Record /\ old.score > val
  <2>1. new = [first |-> old.first, best |-> pid, score |-> val]
    BY <1>2, ActivityAssumption DEF Record
  <2>2. /\ new \in Record /\ new.best = pid /\ new.score = val /\ new.first = old.first
        /\ old.score \in Int
    BY <1>2, <2>1 DEF Record
  <2> QED
    BY <1>2, <2>2, ActivityAssumption
<1>3. CASE old # NoRow /\ old \in Record /\ ~(old.score > val) /\ new = old
  BY <1>3 DEF Record
<1> QED
  BY <1>1, <1>2, <1>3

\* The upsert keeps the better of two results with its holder.
LEMMA UploadIsHonest ==
  ASSUME IInv, NEW r \in Requests, WriteRecord(r)
  PROVE  LeaderboardIsHonest'
<1>1. /\ Moved(r) /\ RequestOK(r) /\ TypeOK
      /\ \A q \in Requests : pc'[q] # "idle" <=> pc[q] # "idle"
      /\ \A q \in Requests \ {r} : pc'[q] = pc[q]
  BY WriteMoves, MovedOK DEF IInv
<1>2. call' = call /\ call[r].method = "UploadCourseRecord" /\ pc[r] # "idle"
  BY <1>1 DEF WriteRecord, Moved
<1> DEFINE item == call[r].items[1]
<1>3. /\ at[r] = 1 /\ ItemOf(r) = item /\ item \in Item
      /\ item.id \in Courses /\ item.val \in Int
      /\ item = [id |-> item.id, val |-> item.val]
  <2>1. /\ ItemOf(r) \in Item /\ at[r] = 1
        /\ ItemOf(r).id \in Courses /\ ItemOf(r).val \in Int
    BY <1>1, <1>2, ItemInList DEF WriteRecord, Moved, Single
  <2> QED
    BY <2>1 DEF ItemOf, Item
<1>4. records \in [Courses -> Record \cup {NoRow}]
  BY <1>1 DEF TypeOK
<1>5. \A id \in Courses : PlayersOnly(id)' = PlayersOnly(id)
  BY <1>1, <1>2 DEF PlayersOnly, Mentions, Asked
<1>6. \A q \in Requests : Asked(q, "UploadCourseRecord")' = Asked(q, "UploadCourseRecord")
  BY <1>1, <1>2 DEF Asked
<1>7. \A id \in Courses : id # item.id => records'[id] = records[id]
  BY <1>3, <1>4 DEF WriteRecord
<1> DEFINE old == records[item.id]  new == records'[item.id]
<1>8. \/ old = NoRow /\ new = [first |-> call[r].pid, best |-> call[r].pid, score |-> item.val]
      \/ /\ old # NoRow /\ old \in Record /\ old.score > item.val
         /\ new = [first |-> old.first, best |-> call[r].pid, score |-> item.val]
      \/ old # NoRow /\ old \in Record /\ ~(old.score > item.val) /\ new = old
  BY <1>3, <1>4 DEF WriteRecord
<1>9. /\ new # NoRow
      /\ new.score <= item.val
      /\ old # NoRow => new.score <= old.score /\ new.first = old.first
      /\ \/ old # NoRow /\ new = old
         \/ new.best = call[r].pid /\ new.score = item.val
      /\ old = NoRow => new.first = call[r].pid
  <2>1. call[r].pid \in Pids
    BY <1>1, <1>2 DEF RequestOK, CallRecord
  <2> DEFINE pid == call[r].pid  val == item.val
  <2>2. /\ val \in Int /\ pid \in Pids
        /\ \/ old = NoRow /\ new = [first |-> pid, best |-> pid, score |-> val]
           \/ /\ old # NoRow /\ old \in Record /\ old.score > val
              /\ new = [first |-> old.first, best |-> pid, score |-> val]
           \/ old # NoRow /\ old \in Record /\ ~(old.score > val) /\ new = old
    BY <1>3, <1>8, <2>1
  <2> HIDE DEF item, pid, val, old, new
  <2>3. /\ new # NoRow /\ new.score <= val
        /\ old # NoRow => new.score <= old.score /\ new.first = old.first
        /\ \/ old # NoRow /\ new = old
           \/ new.best = pid /\ new.score = val
        /\ old = NoRow => new.first = pid
    BY <2>2, BetterRow
  <2> QED
    BY <2>3 DEF pid, val
<1>10. \A q \in Requests :
         Ok(q, "UploadCourseRecord")' => q = r \/ Ok(q, "UploadCourseRecord")
  BY <1>1, <1>2 DEF Ok
<1> SUFFICES ASSUME NEW id \in Courses, PlayersOnly(id)
             PROVE  /\ \A q \in Requests :
                         Ok(q, "UploadCourseRecord")' /\ call[q].items[1].id = id =>
                           records'[id] # NoRow /\ records'[id].score <= call[q].items[1].val
                    /\ records'[id] # NoRow =>
                         /\ \E q \in Requests :
                              /\ Asked(q, "UploadCourseRecord") /\ call[q].pid = records'[id].best
                              /\ call[q].items[1] = [id |-> id, val |-> records'[id].score]
                         /\ \E q \in Requests :
                              /\ Asked(q, "UploadCourseRecord")
                              /\ call[q].pid = records'[id].first
                              /\ call[q].items[1].id = id
  BY <1>2, <1>5, <1>6 DEF LeaderboardIsHonest
<1>11. /\ \A q \in Requests :
            Ok(q, "UploadCourseRecord") /\ call[q].items[1].id = id =>
              records[id] # NoRow /\ records[id].score <= call[q].items[1].val
       /\ records[id] # NoRow =>
            /\ \E q \in Requests :
                 /\ Asked(q, "UploadCourseRecord") /\ call[q].pid = records[id].best
                 /\ call[q].items[1] = [id |-> id, val |-> records[id].score]
            /\ \E q \in Requests :
                 /\ Asked(q, "UploadCourseRecord") /\ call[q].pid = records[id].first
                 /\ call[q].items[1].id = id
  BY DEF IInv, LeaderboardIsHonest
<1>12. CASE id # item.id
  BY <1>7, <1>10, <1>11, <1>12
<1>13. CASE id = item.id
  <2>1. Asked(r, "UploadCourseRecord")
    BY <1>2 DEF Asked
  <2>2. \A q \in Requests :
          Ok(q, "UploadCourseRecord")' /\ call[q].items[1].id = id =>
            new # NoRow /\ new.score <= call[q].items[1].val
    <3> TAKE q \in Requests
    <3> HAVE Ok(q, "UploadCourseRecord")' /\ call[q].items[1].id = id
    <3>1. CASE q = r
      BY <1>9, <3>1
    <3>2. CASE q # r
      <4>1. Ok(q, "UploadCourseRecord")
        BY <1>10, <3>2
      <4>2. /\ old # NoRow /\ old.score <= call[q].items[1].val /\ new.score <= old.score
            /\ old \in Record
        BY <1>4, <1>9, <1>11, <1>13, <4>1
      <4>3. call[q].items[1] \in Item
        <5>1. /\ RequestOK(q) /\ pc[q] # "idle" /\ call[q].method = "UploadCourseRecord"
          BY <4>1 DEF IInv, Ok
        <5>2. call[q].items \in Seq(Item) /\ Len(call[q].items) = 1
          BY <5>1 DEF RequestOK, CallRecord, Single
        <5> QED
          BY <5>2, ElementOfSeq
      <4>4. /\ old.score \in Int /\ call[q].items[1].val \in Int /\ new.score \in Int
        BY <1>3, <1>9, <4>2, <4>3 DEF Record, Item
      <4> QED
        BY <1>9, <4>2, <4>4
    <3> QED
      BY <3>1, <3>2
  <2>3. \E q \in Requests :
          /\ Asked(q, "UploadCourseRecord") /\ call[q].pid = new.best
          /\ call[q].items[1] = [id |-> id, val |-> new.score]
    <3>1. CASE old # NoRow /\ new = old
      BY <1>11, <1>13, <3>1
    <3>2. CASE new.best = call[r].pid /\ new.score = item.val
      BY <1>3, <1>13, <2>1, <3>2
    <3> QED
      BY <1>9, <3>1, <3>2
  <2>4. \E q \in Requests :
          /\ Asked(q, "UploadCourseRecord") /\ call[q].pid = new.first
          /\ call[q].items[1].id = id
    <3>1. CASE old # NoRow
      BY <1>9, <1>11, <1>13, <3>1
    <3>2. CASE old = NoRow
      BY <1>9, <1>13, <2>1, <3>2
    <3> QED
      BY <3>1, <3>2
  <2> QED
    BY <1>13, <2>2, <2>3, <2>4
<1> QED
  BY <1>12, <1>13

\* A record that an import writes is of a course that is not the players' own.
LEMMA ImportIsApart ==
  ASSUME IInv, NEW r \in Requests, ImportRecord(r)
  PROVE  LeaderboardIsHonest'
<1>1. /\ Moved(r) /\ RequestOK(r) /\ TypeOK
      /\ \A q \in Requests : pc'[q] # "idle" <=> pc[q] # "idle"
      /\ \A q \in Requests \ {r} : pc'[q] = pc[q]
  BY WriteMoves, MovedOK DEF IInv
<1>2. call' = call /\ call[r].method = "handleImport" /\ pc[r] # "idle"
  BY <1>1 DEF ImportRecord, Moved, RequestOK, MethodsAt
<1>3. \A id \in Courses : PlayersOnly(id)' = PlayersOnly(id)
  BY <1>1, <1>2 DEF PlayersOnly, Mentions, Asked
<1>4. /\ at[r] \in 1..Len(call[r].items) /\ at[r] <= MaxItems
      /\ ItemOf(r).id \in Courses /\ at[r] = 1
  BY <1>1, <1>2, ItemInList DEF Moved, Single
<1>5. ~PlayersOnly(ItemOf(r).id)
  <2>1. 1 \in 1..MaxItems /\ 1 <= Len(call[r].items)
    <3>1. MaxItems \in Nat /\ Len(call[r].items) \in Nat
      BY <1>1, <1>2, ActivityAssumption, LenProperties DEF RequestOK, CallRecord
    <3> QED
      BY <1>4, <3>1
  <2>2. <<r, 1>> \in Mentions("handleImport", ItemOf(r).id)
    BY <1>2, <1>4, <2>1 DEF Mentions, Asked, ItemOf
  <2> QED
    BY <2>2 DEF PlayersOnly
<1>6. \A id \in Courses : PlayersOnly(id) => records'[id] = records[id]
  <2>1. records \in [Courses -> Record \cup {NoRow}]
    BY <1>1 DEF TypeOK
  <2> QED
    BY <1>5, <2>1 DEF ImportRecord
<1>7. \A q \in Requests :
        /\ Ok(q, "UploadCourseRecord")' => Ok(q, "UploadCourseRecord")
        /\ Asked(q, "UploadCourseRecord")' = Asked(q, "UploadCourseRecord")
  BY <1>1, <1>2 DEF Ok, Asked
<1> QED
  BY <1>2, <1>3, <1>6, <1>7 DEF IInv, LeaderboardIsHonest
-----------------------------------------------------------------------------
\* A step of an object keeps the types of its stage and of its owner.
LEMMA LifeTypes ==
  ASSUME stage \in [Courses -> Stages], owner \in [Courses -> Pids \cup {NoOne}],
         ObjectStep
  PROVE  stage' \in [Courses -> Stages] /\ owner' \in [Courses -> Pids \cup {NoOne}]
<1>1. PICK o \in Courses :
        Life!Create(o) \/ Life!Import(o) \/ Life!Publish(o) \/ Life!Withdraw(o)
  BY DEF ObjectStep, Life!Next
<1>2. stage' \in [Courses -> Stages]
  <2>1. PICK s \in Stages : stage' = [stage EXCEPT ![o] = s]
    BY <1>1 DEF Stages, Life!Create, Life!Import, Life!Publish, Life!Withdraw
  <2> QED
    BY <2>1
<1>3. owner' \in [Courses -> Pids \cup {NoOne}]
  <2>1. CASE UNCHANGED owner
    BY <2>1
  <2>2. CASE \E p \in Pids : owner' = [owner EXCEPT ![o] = p]
    BY <2>2
  <2> QED
    BY <1>1, <2>1, <2>2 DEF Life!Create, Life!Import, Life!Publish, Life!Withdraw
<1> QED
  BY <1>2, <1>3

\* The inductive step, one action after the other.
LEMMA StepOK == IInv /\ [Next]_vars => IInv'
<1> SUFFICES ASSUME IInv, [Next]_vars PROVE IInv'
  OBVIOUS
<1>0. TypeOK /\ (\A q \in Requests : RequestOK(q)) /\ LeaderboardIsHonest
  BY DEF IInv
<1>1. ASSUME NEW r \in Requests, Receive(r) PROVE IInv'
  <2>1. TypeOK'
    BY <1>0, <1>1, ReceiveOK DEF TypeOK, Receive, objects, tables, CallRecord
  <2>2. \A q \in Requests : RequestOK(q)'
    <3>1. RequestOK(r)'
      BY <1>0, <1>1, ReceiveOK
    <3>2. \A q \in Requests \ {r} : pc'[q] = pc[q] /\ call'[q] = call[q]
      BY <1>0, <1>1, ReceiveOK
    <3>3. at' = at
      BY <1>1 DEF Receive
    <3>4. \A q \in Requests : q # r => RequestOK(q)'
      BY <1>0, <3>2, <3>3, OthersOK
    <3> QED
      BY <3>1, <3>4
  <2> QED
    BY <1>1, <2>1, <2>2, ReceiveHonest DEF IInv
<1>2. ASSUME NEW r \in Requests,
             \/ Info(r) \/ Check(r) \/ WriteRecord(r) \/ WriteStars(r) \/ WriteRating(r)
             \/ WriteBuffer(r) \/ WriteMeta(r)
             \/ ImportStars(r) \/ ImportRatings(r) \/ ImportRecord(r)
      PROVE  IInv'
  <2>1. TypeOK'
    BY <1>2, WriteType
  <2>2. \A q \in Requests : RequestOK(q)'
    BY <1>2, WriteMoves, MovedOK
  <2>3. LeaderboardIsHonest'
    BY <1>2, OthersAreQuiet, UploadIsHonest, ImportIsApart
  <2> QED
    BY <2>1, <2>2, <2>3 DEF IInv
<1>3. ASSUME NEW r \in Requests, StatementFails(r)
      PROVE  IInv'
  <2>1. Moved(r) /\ (pc'[r] = "ok" => call[r].method # "UploadCourseRecord")
    BY <1>3, FailureMoves
  <2>2. UNCHANGED <<objects, tables>> /\ call' = call
    BY <1>3 DEF StatementFails
  <2>3. /\ pc' \in [Requests -> Labels] /\ at' \in [Requests -> Nat]
        /\ \A q \in Requests : RequestOK(q)'
        /\ \A q \in Requests : pc'[q] # "idle" <=> pc[q] # "idle"
        /\ \A q \in Requests \ {r} : pc'[q] = pc[q]
    BY <2>1, MovedOK
  <2>4. TypeOK'
    BY <1>0, <2>2, <2>3 DEF TypeOK, objects, tables
  <2>5. LeaderboardIsHonest'
    BY <1>0, <2>1, <2>2, <2>3, Quiet DEF tables
  <2> QED
    BY <2>3, <2>4, <2>5 DEF IInv
<1>4. CASE ObjectStep
  <2>0. stage \in [Courses -> Stages] /\ owner \in [Courses -> Pids \cup {NoOne}]
    BY <1>0 DEF TypeOK, Stages
  <2>1. /\ stage' \in [Courses -> Stages]
        /\ owner' \in [Courses -> Pids \cup {NoOne}]
    BY <2>0, <1>4, LifeTypes
  <2>2. UNCHANGED <<maker, review, records, stars, ratings, queue, pc, call, at>>
    BY <1>4 DEF ObjectStep, tables
  <2>3. TypeOK'
    BY <1>0, <2>1, <2>2 DEF TypeOK, Stages
  <2>4. \A q \in Requests : RequestOK(q)'
    BY <1>0, <2>2 DEF RequestOK
  <2>5. LeaderboardIsHonest'
    BY <1>0, <2>2, Quiet
  <2> QED
    BY <2>3, <2>4, <2>5 DEF IInv
<1>5. CASE (\E id \in Reviewable : Moderate(id)) \/ UNCHANGED vars
  <2>0. /\ UNCHANGED <<stage, owner, maker, records, stars, ratings, queue, pc, call, at>>
        /\ review' \subseteq Courses
    BY <1>0, <1>5, ActivityAssumption DEF Moderate, TypeOK, tables, vars
  <2>1. TypeOK'
    BY <1>0, <2>0 DEF TypeOK
  <2>2. \A q \in Requests : RequestOK(q)'
    BY <1>0, <2>0 DEF RequestOK
  <2>3. LeaderboardIsHonest'
    BY <1>0, <2>0, Quiet
  <2> QED
    BY <2>1, <2>2, <2>3 DEF IInv
<1> QED
  BY <1>1, <1>2, <1>3, <1>4, <1>5 DEF Next, Step

\* Every reachable state satisfies the invariant, whatever the interleaving of
\* the statements of concurrent requests.
THEOREM ActivityInvariance == Spec => []IInv
<1>1. Init => IInv
  BY InitOK
<1>2. IInv /\ [Next]_vars => IInv'
  BY StepOK
<1> QED
  BY <1>1, <1>2, PTL DEF Spec

\* Every variable keeps its type.
THEOREM ActivityTypeCorrect == Spec => []TypeOK
<1>1. IInv => TypeOK
  BY DEF IInv
<1> QED
  BY <1>1, ActivityInvariance, PTL

\* The record of a course that no import and no administrator has set is the
\* best of the results accepted by UploadCourseRecord, with its sender as the
\* holder, for any number of players and of concurrent uploads.
THEOREM LeaderboardHonest == Spec => []LeaderboardIsHonest
<1>1. IInv => LeaderboardIsHonest
  BY DEF IInv
<1> QED
  BY <1>1, ActivityInvariance, PTL
-----------------------------------------------------------------------------
(* What is left for an object, and by whom.                                *)

\* The object has been published at some time.
Seen(id) == stage[id] \in {"published", "withdrawn"}

\* An object that was created as a maker and that no changeMeta names.
Maker(id) == id \in Makers /\ Mentions("changeMeta", id) = {}

\* What the checks of a request have found still holds when it writes.
CheckedOK(r) ==
  /\ \/ pc[r] = "write" /\ call[r].method # "handleStars"
     \/ pc[r] \in {"stars", "ratings", "record"}
     => Seen(ItemOf(r).id)
  /\ pc[r] \in {"check", "write"} /\ call[r].method = "AddToBufferQueues" =>
       /\ Seen(ItemOf(r).id)
       /\ Maker(ItemOf(r).id) => call[r].pid = owner[ItemOf(r).id]

\* The invariant that is inductive together with IInv.
CheckInv ==
  /\ OnlyOnCourses /\ MakerListIsOwners
  /\ \A id \in Makers : Maker(id) => id \in maker
  /\ \A r \in Requests : CheckedOK(r)

\* An object that has been published stays so or is withdrawn, and an object
\* that is there keeps its owner.
LEMMA ObjectMoves ==
  ASSUME TypeOK, ObjectStep, NEW id \in Courses
  PROVE  Seen(id) => Seen(id)' /\ owner'[id] = owner[id]
<1>1. PICK o \in Courses :
        Life!Create(o) \/ Life!Import(o) \/ Life!Publish(o) \/ Life!Withdraw(o)
  BY DEF ObjectStep, Life!Next
<1>2. stage \in [Courses -> Stages] /\ owner \in [Courses -> Pids \cup {NoOne}]
  BY DEF TypeOK, Stages
<1>3. Seen(id) => stage[id] \notin {"absent", "pending"}
  BY DEF Seen
<1>4. Seen(id) => Seen(id)'
  BY <1>1, <1>2, <1>3 DEF Seen, Life!Create, Life!Import, Life!Publish, Life!Withdraw
<1>5. Seen(id) => owner'[id] = owner[id]
  BY <1>1, <1>2, <1>3 DEF Life!Create, Life!Import, Life!Publish, Life!Withdraw
<1> QED
  BY <1>4, <1>5

\* A request stays with its parameters, and new requests only name more.
LEMMA MentionsGrow ==
  ASSUME NEW m \in AllMethods, NEW id \in Courses,
         \A q \in Requests : pc[q] # "idle" => pc'[q] # "idle" /\ call'[q] = call[q]
  PROVE  Mentions(m, id) \subseteq Mentions(m, id)'
BY DEF Mentions, Asked

\* A request at work names its item.
LEMMA ItemIsMentioned ==
  ASSUME IInv, NEW r \in Requests, pc[r] \notin Ended \cup {"idle"}
  PROVE  Mentions(call[r].method, ItemOf(r).id) # {}
<1>1. /\ RequestOK(r) /\ at[r] \in 1..Len(call[r].items) /\ at[r] <= MaxItems
  BY ItemInList DEF IInv
<1>2. MaxItems \in Nat /\ Len(call[r].items) \in Nat /\ at[r] \in Nat
  BY <1>1, ActivityAssumption, LenProperties DEF RequestOK, CallRecord, IInv, TypeOK
<1>3. at[r] \in 1..MaxItems /\ at[r] <= Len(call[r].items)
  BY <1>1, <1>2
<1>4. <<r, at[r]>> \in Mentions(call[r].method, ItemOf(r).id)
  BY <1>1, <1>3 DEF Mentions, Asked, ItemOf
<1> QED
  BY <1>4

\* A request that does not move keeps what its checks have found.
LEMMA StillChecked ==
  ASSUME NEW q \in Requests, CheckedOK(q), pc'[q] = pc[q], call'[q] = call[q],
         at'[q] = at[q], NEW id \in Courses, ItemOf(q).id = id,
         Seen(id) => Seen(id)' /\ owner'[id] = owner[id], Maker(id)' => Maker(id)
  PROVE  CheckedOK(q)'
<1>1. ItemOf(q)'.id = id
  BY DEF ItemOf
<1> QED
  BY <1>1 DEF CheckedOK

LEMMA InitChecked == Init => CheckInv
<1> SUFFICES ASSUME Init PROVE CheckInv
  OBVIOUS
<1>1. OnlyOnCourses /\ MakerListIsOwners
  BY ActivityAssumption DEF Init, OnlyOnCourses, MakerListIsOwners
<1>2. \A r \in Requests : CheckedOK(r)
  BY DEF Init, CheckedOK
<1>3. \A id \in Makers : id \in maker
  BY DEF Init
<1> QED
  BY <1>1, <1>2, <1>3 DEF CheckInv

\* What stays when no table of players changes.
LEMMA TablesKept ==
  ASSUME CheckInv, UNCHANGED tables,
         \A id \in Courses : Seen(id) => Seen(id)' /\ owner'[id] = owner[id],
         \A id \in Courses, m \in AllMethods : Mentions(m, id) \subseteq Mentions(m, id)'
  PROVE  OnlyOnCourses' /\ MakerListIsOwners'
<1>1. UNCHANGED <<records, stars, queue>>
  BY DEF tables
<1>2. OnlyOnCourses'
  <2> SUFFICES ASSUME NEW id \in Courses
               PROVE  \/ Seen(id)'
                      \/ /\ records[id] = NoRow /\ queue[id] = {}
                         /\ stars[id] # NoRow => Mentions("handleStars", id)' # {}
    BY <1>1 DEF OnlyOnCourses, Seen
  <2>1. \/ Seen(id)
        \/ /\ records[id] = NoRow /\ queue[id] = {}
           /\ stars[id] # NoRow => Mentions("handleStars", id) # {}
    BY DEF CheckInv, OnlyOnCourses, Seen
  <2>2. Mentions("handleStars", id) \subseteq Mentions("handleStars", id)'
    BY DEF AllMethods
  <2> QED
    BY <2>1, <2>2
<1>3. MakerListIsOwners'
  <2> SUFFICES ASSUME NEW id \in Makers, Mentions("changeMeta", id)' = {}, NEW e \in queue[id]
               PROVE  e.by = owner'[id]
    BY <1>1 DEF MakerListIsOwners
  <2>1. id \in Courses /\ Mentions("changeMeta", id) = {}
    BY ActivityAssumption DEF AllMethods
  <2>2. Seen(id)
    BY <2>1 DEF CheckInv, OnlyOnCourses, Seen
  <2>3. e.by = owner[id]
    BY <2>1 DEF CheckInv, MakerListIsOwners
  <2> QED
    BY <2>1, <2>2, <2>3
<1> QED
  BY <1>2, <1>3

\* A request that arrives has checked nothing yet; the course of an import is there.
LEMMA ReceiveChecked ==
  ASSUME IInv, CheckInv, NEW r \in Requests, Receive(r)
  PROVE  CheckInv'
<1>1. /\ pc[r] = "idle" /\ at' = at /\ at[r] = 1 /\ RequestOK(r)' /\ call'[r] \in CallRecord
      /\ \A q \in Requests \ {r} : pc'[q] = pc[q] /\ call'[q] = call[q]
  BY ReceiveOK DEF IInv, Receive, RequestOK
<1>2. UNCHANGED <<stage, owner, maker>> /\ UNCHANGED tables
  BY DEF Receive, objects
<1>3. \A id \in Courses, m \in AllMethods : Mentions(m, id) \subseteq Mentions(m, id)'
  BY <1>1, MentionsGrow
<1>4. \A id \in Courses : Maker(id)' => Maker(id)
  BY <1>3 DEF Maker, AllMethods
<1>5. \A id \in Courses : Seen(id)' = Seen(id)
  BY <1>2 DEF Seen
<1>6. OnlyOnCourses' /\ MakerListIsOwners'
  BY <1>2, <1>3, <1>5, TablesKept
<1>7. \A id \in Makers : Maker(id)' => id \in maker'
  BY <1>2, <1>4, ActivityAssumption DEF CheckInv
<1>8. CheckedOK(r)'
  <2>1. PICK m \in Methods, p \in Pids, n \in 0..MaxItems : \E list \in [1..n -> Items] :
          /\ m \in Single => n = 1
          /\ m = "handleImport" => stage[list[1].id] \in {"published", "withdrawn"}
          /\ call' = [call EXCEPT ![r] = [method |-> m, pid |-> p, items |-> list]]
          /\ pc' = [pc EXCEPT ![r] = IF n = 0 THEN "ok" ELSE FirstLabel(m)]
    BY DEF Receive
  <2>2. PICK list \in [1..n -> Items] :
          /\ m = "handleImport" => stage[list[1].id] \in {"published", "withdrawn"}
          /\ call' = [call EXCEPT ![r] = [method |-> m, pid |-> p, items |-> list]]
          /\ pc' = [pc EXCEPT ![r] = IF n = 0 THEN "ok" ELSE FirstLabel(m)]
    BY <2>1
  <2>3. /\ pc \in [Requests -> Labels] /\ call \in [Requests -> CallRecord \cup {NoCall}]
        /\ m \in AllMethods
    BY ActivityAssumption DEF IInv, TypeOK, CallRecord
  <2>4. /\ call'[r].method = m /\ ItemOf(r)' = list[1]
        /\ pc'[r] \in {"ok", FirstLabel(m)}
    BY <1>1, <2>2, <2>3 DEF ItemOf
  <2>5. /\ pc'[r] = "write" => m = "handleStars"
        /\ pc'[r] \in {"stars", "ratings", "record"} => m = "handleImport"
        /\ pc'[r] = "check" => m # "AddToBufferQueues"
    BY <2>3, <2>4 DEF FirstLabel, AllMethods
  <2> QED
    BY <1>2, <2>2, <2>4, <2>5 DEF CheckedOK, Seen
<1>9. \A q \in Requests : q # r => CheckedOK(q)'
  <2> SUFFICES ASSUME NEW q \in Requests, q # r PROVE CheckedOK(q)'
    OBVIOUS
  <2>1. CheckedOK(q) /\ pc'[q] = pc[q] /\ call'[q] = call[q] /\ at'[q] = at[q]
    BY <1>1 DEF CheckInv
  <2>2. CASE pc[q] \in Ended \cup {"idle"}
    BY <2>1, <2>2 DEF CheckedOK, Ended
  <2>3. CASE pc[q] \notin Ended \cup {"idle"}
    <3>1. PICK id \in Courses : ItemOf(q).id = id
      BY <2>3, ItemInList DEF IInv
    <3>2. (Seen(id) => Seen(id)' /\ owner'[id] = owner[id]) /\ (Maker(id)' => Maker(id))
      BY <1>2, <1>4, <1>5
    <3> QED
      BY <2>1, <3>1, <3>2, StillChecked
  <2> QED
    BY <2>2, <2>3
<1> QED
  BY <1>6, <1>7, <1>8, <1>9 DEF CheckInv

\* What a step of one request leaves alone.
LEMMA StepFrame ==
  ASSUME IInv, CheckInv, NEW r \in Requests, Moved(r), UNCHANGED <<stage, owner>>
  PROVE  /\ \A q \in Requests : q # r => CheckedOK(q)'
         /\ \A id \in Courses, m \in AllMethods : Mentions(m, id)' = Mentions(m, id)
         /\ \A id \in Courses : Maker(id)' = Maker(id) /\ Seen(id)' = Seen(id)
         /\ NextItem(r) => CheckedOK(r)'
         /\ \A label \in Labels : Goto(r, label) => pc'[r] = label /\ at'[r] = at[r]
<1>1. /\ call' = call /\ RequestOK(r) /\ pc \in [Requests -> Labels]
      /\ at \in [Requests -> Nat] /\ pc[r] \notin Ended \cup {"idle"}
      /\ \A q \in Requests : pc'[q] # "idle" <=> pc[q] # "idle"
      /\ \A q \in Requests \ {r} : pc'[q] = pc[q]
  BY MovedOK DEF IInv, TypeOK, Moved
<1>2. \A id \in Courses, m \in AllMethods : Mentions(m, id)' = Mentions(m, id)
  BY <1>1 DEF Mentions, Asked
<1>3. \A id \in Courses : Maker(id)' = Maker(id) /\ Seen(id)' = Seen(id)
  BY <1>2 DEF Maker, AllMethods, Seen
<1>4. \A q \in Requests : q # r => at'[q] = at[q]
  BY <1>1 DEF Moved, NextItem, DoneButFails, Goto
<1>5. \A label \in Labels : Goto(r, label) => pc'[r] = label /\ at'[r] = at[r]
  BY <1>1 DEF Goto
<1>6. NextItem(r) => CheckedOK(r)'
  <2> SUFFICES ASSUME NextItem(r) PROVE CheckedOK(r)'
    OBVIOUS
  <2>1. pc'[r] \in {"ok", FirstLabel(call[r].method)} /\ call[r].method \in AllMethods
    BY <1>1 DEF NextItem, RequestOK, CallRecord
  <2>2. CASE call[r].method # "handleImport"
    BY <1>1, <2>1, <2>2 DEF FirstLabel, AllMethods, CheckedOK
  <2>3. CASE call[r].method = "handleImport"
    <3>1. PICK label \in Labels \ {"idle"} : Goto(r, label) /\ call[r].method \in MethodsAt(label)
      BY <2>3 DEF Moved
    <3>2. pc'[r] \in {"ok", "stars"} /\ at'[r] = at[r]
      BY <1>5, <2>1, <2>3, <3>1 DEF FirstLabel
    <3>3. pc[r] \in {"stars", "ratings", "record"}
      BY <1>1, <2>3 DEF RequestOK, MethodsAt, Labels, Ended
    <3>4. PICK id \in Courses : ItemOf(r).id = id
      BY <1>1, ItemInList
    <3>5. Seen(id) /\ ItemOf(r)'.id = id
      BY <1>1, <3>2, <3>3, <3>4 DEF CheckInv, CheckedOK, ItemOf
    <3> QED
      BY <1>1, <1>3, <2>3, <3>2, <3>5 DEF CheckedOK
  <2> QED
    BY <2>2, <2>3
<1>7. \A q \in Requests : q # r => CheckedOK(q)'
  <2> SUFFICES ASSUME NEW q \in Requests, q # r PROVE CheckedOK(q)'
    OBVIOUS
  <2>1. CheckedOK(q) /\ pc'[q] = pc[q] /\ call'[q] = call[q] /\ at'[q] = at[q]
    BY <1>1, <1>4 DEF CheckInv
  <2>2. CASE pc[q] \in Ended \cup {"idle"}
    BY <2>1, <2>2 DEF CheckedOK, Ended
  <2>3. CASE pc[q] \notin Ended \cup {"idle"}
    <3>1. PICK id \in Courses : ItemOf(q).id = id
      BY <2>3, ItemInList DEF IInv
    <3>2. (Seen(id) => Seen(id)' /\ owner'[id] = owner[id]) /\ (Maker(id)' => Maker(id))
      BY <1>3
    <3> QED
      BY <2>1, <3>1, <3>2, StillChecked
  <2> QED
    BY <2>2, <2>3
<1> QED
  BY <1>2, <1>3, <1>5, <1>6, <1>7

\* A step keeps, or finds, what the next step of its request rests on.
LEMMA StepChecked ==
  ASSUME IInv, CheckInv, NEW r \in Requests,
         \/ Info(r) \/ Check(r) \/ WriteRecord(r) \/ WriteStars(r) \/ WriteRating(r)
         \/ WriteBuffer(r) \/ WriteMeta(r)
         \/ ImportStars(r) \/ ImportRatings(r) \/ ImportRecord(r)
         \/ StatementFails(r)
  PROVE  \A q \in Requests : CheckedOK(q)'
<1>1. Moved(r) /\ RequestOK(r) /\ pc[r] \notin Ended \cup {"idle"} /\ CheckedOK(r)
  BY WriteMoves, FailureMoves DEF IInv, CheckInv, Moved
<1>2. UNCHANGED <<stage, owner>> /\ call' = call
  BY DEF Info, Check, WriteRecord, WriteStars, WriteRating, WriteBuffer, WriteMeta,
         ImportStars, ImportRatings, ImportRecord, StatementFails, objects
<1>3. PICK id \in Courses : ItemOf(r).id = id
  BY <1>1, ItemInList
<1>4. /\ Maker(id)' = Maker(id) /\ Seen(id)' = Seen(id) /\ owner'[id] = owner[id]
      /\ NextItem(r) => CheckedOK(r)'
      /\ \A label \in Labels : Goto(r, label) => pc'[r] = label /\ at'[r] = at[r]
      /\ \A q \in Requests : q # r => CheckedOK(q)'
  BY <1>1, <1>2, StepFrame
<1>5. at'[r] = at[r] => ItemOf(r)'.id = id
  BY <1>2, <1>3 DEF ItemOf
<1>6. IsObjectAvailable(id) => Seen(id)
  BY DEF IsObjectAvailable, Seen
<1>7. CheckedOK(r)'
  <2>1. CASE NextItem(r)
    BY <1>4, <2>1
  <2>2. CASE Info(r) \/ Check(r)
    <3>1. CASE Info(r)
      <4>1. /\ pc'[r] \in {"error", "check", "write"} /\ at'[r] = at[r]
            /\ pc'[r] # "error" => IsObjectAvailable(id)
            /\ pc'[r] = "write" => call[r].method # "AddToBufferQueues"
            /\ pc'[r] # "error" /\ call[r].method = "AddToBufferQueues" =>
                 (id \in maker => call[r].pid = owner[id])
        BY <1>3, <1>4, <3>1 DEF Info, Labels
      <4>2. Maker(id) => id \in maker
        BY DEF CheckInv, Maker
      <4> QED
        BY <1>2, <1>4, <1>5, <1>6, <4>1, <4>2 DEF CheckedOK
    <3>2. CASE Check(r) /\ ~NextItem(r)
      <4>1. /\ pc'[r] \in {"error", "write"} /\ at'[r] = at[r] /\ pc[r] = "check"
            /\ pc'[r] # "error" => IsObjectAvailable(id)
        BY <1>3, <1>4, <3>2 DEF Check, Labels
      <4> QED
        BY <1>1, <1>2, <1>3, <1>4, <1>5, <1>6, <4>1 DEF CheckedOK
    <3> QED
      BY <2>1, <2>2, <3>1, <3>2
  <2>3. CASE WriteRecord(r) \/ WriteMeta(r)
    <3>1. pc'[r] = "ok"
      BY <1>4, <2>3 DEF WriteRecord, WriteMeta, Labels
    <3> QED
      BY <3>1 DEF CheckedOK
  <2>4. CASE WriteStars(r) \/ WriteRating(r) \/ WriteBuffer(r)
    <3>1. CASE DoneButFails(r)
      <4>1. pc \in [Requests -> Labels]
        BY DEF IInv, TypeOK
      <4> QED
        BY <3>1, <4>1 DEF DoneButFails, CheckedOK
    <3> QED
      BY <2>1, <2>4, <3>1 DEF WriteStars, WriteRating, WriteBuffer
  <2>5. CASE ImportStars(r) \/ ImportRatings(r) \/ ImportRecord(r) \/ (StatementFails(r) /\ ~NextItem(r))
    <3>1. /\ at'[r] = at[r] /\ pc'[r] \in {"ratings", "record", "ok", "error"}
          /\ pc'[r] \in {"ratings", "record"} => pc[r] \in {"stars", "ratings"}
      BY <1>4, <2>5 DEF ImportStars, ImportRatings, ImportRecord, StatementFails, Labels
    <3> QED
      BY <1>1, <1>2, <1>3, <1>4, <1>5, <3>1 DEF CheckedOK
  <2> QED
    BY <2>1, <2>2, <2>3, <2>4, <2>5
<1> QED
  BY <1>4, <1>7

\* A write changes the rows of its item only, an item the request may write to.
LEMMA WritesChecked ==
  ASSUME IInv, CheckInv, NEW r \in Requests,
         \/ Info(r) \/ Check(r) \/ WriteRecord(r) \/ WriteStars(r) \/ WriteRating(r)
         \/ WriteBuffer(r) \/ WriteMeta(r)
         \/ ImportStars(r) \/ ImportRatings(r) \/ ImportRecord(r)
         \/ StatementFails(r)
  PROVE  /\ OnlyOnCourses' /\ MakerListIsOwners'
         /\ \A id \in Makers : Maker(id)' => id \in maker'
<1>1. Moved(r) /\ RequestOK(r) /\ pc[r] \notin Ended \cup {"idle"} /\ CheckedOK(r)
  BY WriteMoves, FailureMoves DEF IInv, CheckInv, Moved
<1>2. UNCHANGED <<stage, owner>> /\ call' = call
  BY DEF Info, Check, WriteRecord, WriteStars, WriteRating, WriteBuffer, WriteMeta,
         ImportStars, ImportRatings, ImportRecord, StatementFails, objects
<1>3. PICK id \in Courses : ItemOf(r).id = id
  BY <1>1, ItemInList
<1>4. /\ \A c \in Courses, m \in AllMethods : Mentions(m, c)' = Mentions(m, c)
      /\ \A c \in Courses : Maker(c)' = Maker(c) /\ Seen(c)' = Seen(c)
  BY <1>1, <1>2, StepFrame
<1>5. Mentions(call[r].method, id) # {}
  BY <1>1, <1>3, ItemIsMentioned
<1>6. /\ records \in [Courses -> Record \cup {NoRow}]
      /\ stars \in [Courses -> Int \cup {NoRow}]
      /\ queue \in [Courses -> SUBSET Entry]
  BY DEF IInv, TypeOK
<1>7. \A c \in Courses : c # id =>
        records'[c] = records[c] /\ stars'[c] = stars[c] /\ queue'[c] = queue[c]
  <2>1. \A c \in Courses : c # id => records'[c] = records[c]
    BY <1>3, <1>6 DEF Info, Check, WriteRecord, WriteStars, WriteRating, WriteBuffer,
         WriteMeta, ImportStars, ImportRatings, ImportRecord, StatementFails, tables
  <2>2. \A c \in Courses : c # id => stars'[c] = stars[c]
    BY <1>3, <1>6 DEF Info, Check, WriteRecord, WriteStars, WriteRating, WriteBuffer,
         WriteMeta, ImportStars, ImportRatings, ImportRecord, StatementFails, tables
  <2>3. \A c \in Courses : c # id => queue'[c] = queue[c]
    BY <1>3, <1>6 DEF Info, Check, WriteRecord, WriteStars, WriteRating, WriteBuffer,
         WriteMeta, ImportStars, ImportRatings, ImportRecord, StatementFails, tables
  <2> QED
    BY <2>1, <2>2, <2>3
\* The rows of the item itself.
<1>8. \/ Seen(id)
      \/ /\ records' = records /\ queue' = queue
         /\ stars' = stars \/ Mentions("handleStars", id) # {}
  <2>1. CASE WriteRecord(r) \/ WriteRating(r) \/ WriteBuffer(r) \/ WriteMeta(r)
    BY <1>1, <1>3, <2>1 DEF CheckedOK, WriteRecord, WriteRating, WriteBuffer, WriteMeta
  <2>2. CASE WriteStars(r)
    BY <1>1, <1>3, <1>5, <2>2 DEF CheckedOK, WriteStars
  <2>3. CASE ImportStars(r) \/ ImportRatings(r) \/ ImportRecord(r)
    BY <1>1, <1>3, <2>3 DEF CheckedOK, ImportStars, ImportRatings, ImportRecord
  <2>4. CASE Info(r) \/ Check(r) \/ StatementFails(r)
    BY <2>4 DEF Info, Check, StatementFails, tables
  <2> QED
    BY <2>1, <2>2, <2>3, <2>4
<1>9. OnlyOnCourses'
  <2> SUFFICES ASSUME NEW c \in Courses
               PROVE  \/ Seen(c)'
                      \/ /\ records'[c] = NoRow /\ queue'[c] = {}
                         /\ stars'[c] # NoRow => Mentions("handleStars", c)' # {}
    BY DEF OnlyOnCourses, Seen
  <2>1. \/ Seen(c)
        \/ /\ records[c] = NoRow /\ queue[c] = {}
           /\ stars[c] # NoRow => Mentions("handleStars", c) # {}
    BY DEF CheckInv, OnlyOnCourses, Seen
  <2>2. Mentions("handleStars", c)' = Mentions("handleStars", c) /\ Seen(c)' = Seen(c)
    BY <1>4 DEF AllMethods
  <2>3. CASE c = id
    BY <1>8, <2>1, <2>2, <2>3
  <2>4. CASE c # id
    BY <1>7, <2>1, <2>2, <2>4
  <2> QED
    BY <2>3, <2>4
<1>10. MakerListIsOwners'
  <2> SUFFICES ASSUME NEW c \in Makers, Mentions("changeMeta", c)' = {}, NEW e \in queue'[c]
               PROVE  e.by = owner[c]
    BY <1>2 DEF MakerListIsOwners
  <2>1. c \in Courses /\ Mentions("changeMeta", c) = {}
    BY <1>4, ActivityAssumption DEF AllMethods
  <2>2. \A f \in queue[c] : f.by = owner[c]
    BY <2>1 DEF CheckInv, MakerListIsOwners
  <2>3. CASE queue'[c] = queue[c]
    BY <2>2, <2>3
  <2>4. CASE WriteBuffer(r) /\ c = id
    <3>1. e \in queue[c] \/ e = [by |-> call[r].pid, val |-> ItemOf(r).val]
      BY <1>3, <1>6, <2>1, <2>4 DEF WriteBuffer
    <3>2. call[r].pid = owner[c]
      BY <1>1, <1>3, <2>1, <2>4 DEF CheckedOK, WriteBuffer, Maker
    <3> QED
      BY <2>2, <3>1, <3>2
  <2>5. WriteBuffer(r) \/ UNCHANGED queue
    BY DEF Info, Check, WriteRecord, WriteStars, WriteRating, WriteMeta,
       ImportStars, ImportRatings, ImportRecord, StatementFails, tables
  <2> QED
    BY <1>7, <2>1, <2>3, <2>4, <2>5
<1>11. \A c \in Makers : Maker(c)' => c \in maker'
  <2>1. CASE WriteMeta(r)
    <3>1. ~Maker(id) /\ maker' \in {maker \cup {id}, maker \ {id}}
      BY <1>3, <1>5, <2>1 DEF WriteMeta, Maker
    <3> QED
      BY <1>4, <3>1, ActivityAssumption DEF CheckInv
  <2>2. WriteMeta(r) \/ UNCHANGED maker
    BY DEF Info, Check, WriteRecord, WriteStars, WriteRating, WriteBuffer,
       ImportStars, ImportRatings, ImportRecord, StatementFails, objects
  <2> QED
    BY <1>4, <2>1, <2>2, ActivityAssumption DEF CheckInv
<1> QED
  BY <1>9, <1>10, <1>11

\* The inductive step, with what IInv already gives.
LEMMA CheckStepOK == IInv /\ CheckInv /\ [Next]_vars => CheckInv'
<1> SUFFICES ASSUME IInv, CheckInv, [Next]_vars PROVE CheckInv'
  OBVIOUS
<1>1. ASSUME NEW r \in Requests, Receive(r) PROVE CheckInv'
  BY <1>1, ReceiveChecked
<1>2. ASSUME NEW r \in Requests, Step(r) \/ StatementFails(r) PROVE CheckInv'
  BY <1>2, WritesChecked, StepChecked DEF Step, CheckInv
<1>3. ASSUME UNCHANGED <<maker, tables, pc, call, at>>,
             \A id \in Courses : Seen(id) => Seen(id)' /\ owner'[id] = owner[id]
      PROVE  CheckInv'
  <2>1. \A id \in Courses, m \in AllMethods : Mentions(m, id)' = Mentions(m, id)
    BY <1>3 DEF Mentions, Asked
  <2>2. OnlyOnCourses' /\ MakerListIsOwners'
    BY <1>3, <2>1, TablesKept
  <2>3. \A id \in Courses : Maker(id)' = Maker(id)
    BY <2>1 DEF Maker, AllMethods
  <2>4. \A id \in Makers : Maker(id)' => id \in maker'
    BY <1>3, <2>3, ActivityAssumption DEF CheckInv
  <2>5. ASSUME NEW q \in Requests PROVE CheckedOK(q)'
    <3>1. CheckedOK(q) /\ RequestOK(q) /\ pc' = pc
      BY <1>3 DEF CheckInv, IInv
    <3>2. CASE pc[q] \in Ended \cup {"idle"}
      BY <3>1, <3>2 DEF CheckedOK, Ended
    <3>3. CASE pc[q] \notin Ended \cup {"idle"}
      <4>1. PICK id \in Courses : ItemOf(q).id = id
        BY <3>1, <3>3, ItemInList
      <4> QED
        BY <1>3, <2>3, <3>1, <4>1, StillChecked
    <3> QED
      BY <3>2, <3>3
  <2> QED
    BY <2>2, <2>4, <2>5 DEF CheckInv
<1>4. CASE ObjectStep
  <2>1. \A id \in Courses : Seen(id) => Seen(id)' /\ owner'[id] = owner[id]
    BY <1>4, ObjectMoves DEF IInv
  <2> QED
    BY <1>3, <1>4, <2>1 DEF ObjectStep
<1>5. CASE (\E id \in Reviewable : Moderate(id)) \/ UNCHANGED vars
  <2>1. UNCHANGED <<stage, owner, maker, tables, pc, call, at>>
    BY <1>5 DEF Moderate, tables, vars
  <2> QED
    BY <1>3, <2>1 DEF Seen
<1> QED
  BY <1>1, <1>2, <1>4, <1>5 DEF Next

LEMMA ActivityChecks == Spec => [](IInv /\ CheckInv)
<1>1. Init => IInv /\ CheckInv
  BY InitOK, InitChecked
<1>2. (IInv /\ CheckInv) /\ [Next]_vars => (IInv /\ CheckInv)'
  BY StepOK, CheckStepOK
<1> QED
  BY <1>1, <1>2, PTL DEF Spec

\* Players leave no record, star or starred course for an object that was
\* never published: what IsObjectAvailable found is not undone by
\* CompletePostObject, deleteObject or handleImport before the write.
THEOREM OnlyOnCoursesHolds == Spec => []OnlyOnCourses
<1>1. CheckInv => OnlyOnCourses
  BY DEF CheckInv
<1> QED
  BY <1>1, ActivityChecks, PTL

\* The list of a maker object that no changeMeta names holds only what its
\* owner sent through AddToBufferQueues.
THEOREM MakerListsHold == Spec => []MakerListIsOwners
<1>1. CheckInv => MakerListIsOwners
  BY DEF CheckInv
<1> QED
  BY <1>1, ActivityChecks, PTL
-----------------------------------------------------------------------------
(* How the tables go on: what a reply is compared with.                    *)

\* A score that a player sends with RateCustomRanking is unsigned.
ScoresOK ==
  \A r \in Requests : pc[r] # "idle" /\ call[r].method = "RateCustomRanking" =>
    \A i \in 1..Len(call[r].items) : call[r].items[i].val >= 0

\* A step never brings a withdrawn object back, takes away stars, worsens a
\* record or drops a buffer, unless an administrator sets the numbers.
Onward(id) ==
  /\ stage[id] = "withdrawn" => stage'[id] = "withdrawn"
  /\ Seen(id) => Seen(id)'
  /\ PlayersOnly(id)' =>
       /\ PlayersOnly(id)
       /\ stars[id] # NoRow => stars'[id] # NoRow /\ stars[id] <= stars'[id]
       /\ records[id] # NoRow => /\ records'[id] # NoRow
                                 /\ records'[id].score <= records[id].score
                                 /\ records'[id].first = records[id].first
  /\ \A e \in queue[id] : \E f \in queue'[id] : f.val = e.val

\* A course whose numbers nobody writes.
LEMMA NumbersStay ==
  ASSUME TypeOK, NEW id \in Courses,
         records'[id] = records[id], stars'[id] = stars[id], queue'[id] = queue[id],
         stage[id] = "withdrawn" => stage'[id] = "withdrawn", Seen(id) => Seen(id)',
         PlayersOnly(id)' => PlayersOnly(id)
  PROVE  Onward(id)
<1>1. stars[id] \in Int \cup {NoRow} /\ records[id] \in Record \cup {NoRow}
  BY DEF TypeOK
<1>2. stars[id] # NoRow => stars[id] <= stars[id]
  <2> DEFINE n == stars[id]
  <2>1. n # NoRow => n \in Int
    BY <1>1
  <2> HIDE DEF n
  <2>2. n # NoRow => n <= n
    BY <2>1
  <2> QED
    BY <2>2 DEF n
<1>3. records[id] # NoRow => records[id].score <= records[id].score
  <2> DEFINE n == records[id].score
  <2>1. records[id] # NoRow => n \in Int
    BY <1>1 DEF Record
  <2> HIDE DEF n
  <2>2. records[id] # NoRow => n <= n
    BY <2>1
  <2> QED
    BY <2>2 DEF n
<1> QED
  BY <1>2, <1>3 DEF Onward

\* Whom no new request mentions, the old ones have not mentioned.
LEMMA PlayersOnlyBefore ==
  ASSUME \A q \in Requests : pc[q] # "idle" => pc'[q] # "idle" /\ call'[q] = call[q],
         NEW id \in Courses
  PROVE  PlayersOnly(id)' => PlayersOnly(id)
<1>1. \A m \in AllMethods : Mentions(m, id) \subseteq Mentions(m, id)'
  BY MentionsGrow
<1> QED
  BY <1>1 DEF PlayersOnly, AllMethods

\* The statements that write.
LEMMA StepOnward ==
  ASSUME IInv, ScoresOK, NEW r \in Requests, Step(r), NEW id \in Courses
  PROVE  Onward(id)
<1> DEFINE item == ItemOf(r)
<1>1. TypeOK /\ RequestOK(r) /\ Moved(r) /\ UNCHANGED <<stage, owner>>
  <2>1. Moved(r)
    BY WriteMoves DEF Step
  <2>2. UNCHANGED <<stage, owner>>
    BY DEF Step, Info, Check, WriteRecord, WriteStars, WriteRating, WriteBuffer, WriteMeta,
           ImportStars, ImportRatings, ImportRecord, objects
  <2> QED
    BY <2>1, <2>2 DEF IInv
<1>2. pc[r] \notin Ended \cup {"idle"} /\ call' = call
  BY <1>1 DEF Moved
<1>3. /\ item.id \in Courses /\ item.val \in Int /\ at[r] \in 1..Len(call[r].items)
      /\ Mentions(call[r].method, item.id) # {}
  BY <1>1, <1>2, ItemInList, ItemIsMentioned
<1>4. PlayersOnly(id)' => PlayersOnly(id)
  <2>1. \A q \in Requests : pc[q] # "idle" => pc'[q] # "idle" /\ call'[q] = call[q]
    BY <1>1, <1>2, MovedOK
  <2> QED
    BY <2>1, PlayersOnlyBefore
<1>5. Seen(id)' = Seen(id) /\ stage'[id] = stage[id]
  BY <1>1 DEF Seen
<1>6. /\ stars[id] \in Int \cup {NoRow} /\ records[id] \in Record \cup {NoRow}
      /\ DOMAIN stars = Courses /\ DOMAIN records = Courses /\ DOMAIN queue = Courses
      /\ NoRow \notin Record /\ NoRow \notin Int
  BY <1>1, ActivityAssumption DEF TypeOK
<1>7. call[r].method \in {"handleStars", "handleImport"} /\ id = item.id => ~PlayersOnly(id)
  BY <1>3 DEF PlayersOnly
<1> DEFINE Numbers == /\ records'[id] = records[id] /\ stars'[id] = stars[id]
                      /\ queue'[id] = queue[id]
<1>8. CASE Numbers
  BY <1>1, <1>4, <1>5, <1>8, NumbersStay
<1>9. id # item.id \/ Info(r) \/ Check(r) \/ WriteRating(r) \/ WriteMeta(r) \/ ImportRatings(r)
        => Numbers
  BY <1>6 DEF Step, Info, Check, WriteRecord, WriteStars, WriteRating, WriteBuffer, WriteMeta,
              ImportStars, ImportRatings, ImportRecord, tables
<1> HIDE DEF item
<1>10. CASE id = item.id /\ WriteRecord(r)
  <2>1. stars' = stars /\ queue' = queue
    BY <1>10 DEF WriteRecord
  <2>2. records[id] # NoRow =>
          \/ records'[id] = records[id]
          \/ /\ records[id].score > item.val
             /\ records'[id] = [first |-> records[id].first, best |-> call[r].pid,
                                score |-> item.val]
    BY <1>6, <1>10 DEF WriteRecord, item
  <2>3. records[id] # NoRow => /\ records'[id] # NoRow
                               /\ records'[id].score <= records[id].score
                               /\ records'[id].first = records[id].first
    <3> SUFFICES ASSUME records[id] # NoRow
                 PROVE  /\ records'[id] # NoRow
                        /\ records'[id].score <= records[id].score
                        /\ records'[id].first = records[id].first
      OBVIOUS
    <3>1. records[id] \in Record
      BY <1>6
    <3>2. records[id].score \in Int /\ records[id].first \in Pids \cup {NoOne}
      BY <3>1 DEF Record
    <3>3. CASE records'[id] = records[id]
      <4>1. \A n \in Int : n <= n
        OBVIOUS
      <4> QED
        BY <3>2, <3>3, <4>1
    <3>4. CASE records'[id] # records[id]
      <4> DEFINE new == [first |-> records[id].first, best |-> call[r].pid, score |-> item.val]
      <4>1. records'[id] = new /\ records[id].score > item.val
        BY <2>2, <3>4
      <4>2. call[r].pid \in Pids
        BY <1>1, <1>2 DEF RequestOK, CallRecord
      <4>3. new \in Record /\ new.score = item.val /\ new.first = records[id].first
        BY <1>3, <3>2, <4>2 DEF Record
      <4> HIDE DEF new
      <4>4. \A n, k \in Int : n > k => k <= n
        OBVIOUS
      <4>5. item.val <= records[id].score
        BY <1>3, <3>2, <4>1, <4>4
      <4> QED
        BY <1>6, <4>1, <4>3, <4>5
    <3> QED
      BY <3>3, <3>4
  <2>4. stars[id] # NoRow => stars[id] <= stars[id]
    <3>1. \A n \in Int : n <= n
      OBVIOUS
    <3> QED
      BY <1>6, <3>1
  <2> QED
    BY <1>4, <1>5, <2>1, <2>3, <2>4 DEF Onward
<1>11. CASE id = item.id /\ (WriteStars(r) \/ ImportStars(r))
  <2>1. records' = records /\ queue' = queue
    BY <1>11 DEF WriteStars, ImportStars
  <2>2. records[id] # NoRow => records[id].score <= records[id].score
    <3>1. \A n \in Int : n <= n
      OBVIOUS
    <3> QED
      BY <1>6, <3>1 DEF Record
  <2>3. PlayersOnly(id) /\ stars[id] # NoRow => stars'[id] # NoRow /\ stars[id] <= stars'[id]
    <3> SUFFICES ASSUME PlayersOnly(id), stars[id] # NoRow
                 PROVE  stars'[id] # NoRow /\ stars[id] <= stars'[id]
      OBVIOUS
    <3>1. call[r].method \notin {"handleStars", "handleImport"}
      BY <1>7, <1>11 DEF item
    <3>2. ~ImportStars(r)
      BY <1>1, <1>2, <3>1 DEF ImportStars, RequestOK, MethodsAt
    <3>3. call[r].method = "RateCustomRanking" /\ stars'[id] = stars[id] + item.val
      BY <1>6, <1>11, <3>1, <3>2 DEF WriteStars, item
    <3>4. item.val >= 0
      BY <1>2, <1>3, <3>3 DEF ScoresOK, item, ItemOf
    <3>5. \A n, k \in Int : k >= 0 => n + k \in Int /\ n <= n + k
      OBVIOUS
    <3> QED
      BY <1>3, <1>6, <3>3, <3>4, <3>5
  <2> QED
    BY <1>4, <1>5, <2>1, <2>2, <2>3 DEF Onward
<1>12. CASE id = item.id /\ ImportRecord(r)
  <2>1. ~PlayersOnly(id)
    BY <1>1, <1>2, <1>7, <1>12 DEF ImportRecord, RequestOK, MethodsAt, item
  <2>2. queue' = queue
    BY <1>12 DEF ImportRecord
  <2> QED
    BY <1>4, <1>5, <2>1, <2>2 DEF Onward
<1>13. CASE id = item.id /\ WriteBuffer(r)
  <2>1. records' = records /\ stars' = stars
    BY <1>13 DEF WriteBuffer
  <2>2. queue'[id] = {e \in queue[id] : e.val # item.val}
                       \cup {[by |-> call[r].pid, val |-> item.val]}
    BY <1>6, <1>13 DEF WriteBuffer, item
  <2>3. \A e \in queue[id] : \E f \in queue'[id] : f.val = e.val
    <3> SUFFICES ASSUME NEW e \in queue[id] PROVE \E f \in queue'[id] : f.val = e.val
      OBVIOUS
    <3>1. CASE e.val # item.val
      BY <2>2, <3>1
    <3>2. CASE e.val = item.val
      <4> DEFINE new == [by |-> call[r].pid, val |-> item.val]
      <4>1. new \in queue'[id] /\ new.val = e.val
        BY <2>2, <3>2
      <4> HIDE DEF new
      <4> QED
        BY <4>1
    <3> QED
      BY <3>1, <3>2
  <2>4. /\ stars[id] # NoRow => stars[id] <= stars[id]
        /\ records[id] # NoRow => records[id].score <= records[id].score
    <3>1. \A n \in Int : n <= n
      OBVIOUS
    <3> QED
      BY <1>6, <3>1 DEF Record
  <2> QED
    BY <1>4, <1>5, <2>1, <2>3, <2>4 DEF Onward
<1> QED
  BY <1>8, <1>9, <1>10, <1>11, <1>12, <1>13 DEF Step

\* Every step.
LEMMA GoesOnward ==
  ASSUME IInv, ScoresOK, [Next]_vars
  PROVE  ScoresOK' /\ \A id \in Courses : Onward(id)
<1>0. TypeOK /\ (\A q \in Requests : RequestOK(q))
  BY DEF IInv
<1>1. ASSUME NEW r \in Requests, Receive(r)
      PROVE  ScoresOK' /\ \A id \in Courses : Onward(id)
  <2>1. /\ pc[r] = "idle" /\ call'[r] \in CallRecord
        /\ \A q \in Requests \ {r} : pc'[q] = pc[q] /\ call'[q] = call[q]
    BY <1>0, <1>1, ReceiveOK
  <2>2. UNCHANGED <<stage, records, stars, queue>>
    BY <1>1 DEF Receive, objects, tables
  <2>3. ASSUME NEW id \in Courses PROVE Onward(id)
    <3>1. PlayersOnly(id)' => PlayersOnly(id)
      BY <2>1, PlayersOnlyBefore
    <3> QED
      BY <1>0, <2>2, <3>1, NumbersStay DEF Seen
  <2>4. call'[r].method = "RateCustomRanking" =>
          \A i \in 1..Len(call'[r].items) : call'[r].items[i].val >= 0
    <3>1. PICK m \in Methods, p \in Pids, n \in 0..MaxItems : \E list \in [1..n -> Items] :
            /\ m = "RateCustomRanking" => \A i \in 1..n : list[i].val >= 0
            /\ call' = [call EXCEPT ![r] = [method |-> m, pid |-> p, items |-> list]]
      BY <1>1 DEF Receive
    <3>2. PICK list \in [1..n -> Items] :
            /\ m = "RateCustomRanking" => \A i \in 1..n : list[i].val >= 0
            /\ call' = [call EXCEPT ![r] = [method |-> m, pid |-> p, items |-> list]]
      BY <3>1
    <3>3. call'[r] = [method |-> m, pid |-> p, items |-> list]
      BY <1>0, <3>2 DEF TypeOK
    <3>4. n \in Nat /\ MaxItems \in Nat
      BY ActivityAssumption
    <3>5. Len(list) = n
      BY <3>4
    <3> QED
      BY <3>2, <3>3, <3>5
  <2>5. ScoresOK'
    BY <2>1, <2>4 DEF ScoresOK
  <2> QED
    BY <2>3, <2>5
<1>2. ASSUME NEW r \in Requests, Moved(r) PROVE ScoresOK'
  BY <1>2, MovedOK DEF ScoresOK, Moved
<1>3. ASSUME NEW r \in Requests, Step(r)
      PROVE  ScoresOK' /\ \A id \in Courses : Onward(id)
  <2>1. Moved(r)
    BY <1>3, WriteMoves DEF Step
  <2> QED
    BY <1>2, <1>3, <2>1, StepOnward
<1>4. ASSUME NEW r \in Requests, StatementFails(r)
      PROVE  ScoresOK' /\ \A id \in Courses : Onward(id)
  <2>1. Moved(r)
    BY <1>4, FailureMoves
  <2>2. \A q \in Requests : pc[q] # "idle" => pc'[q] # "idle" /\ call'[q] = call[q]
    BY <2>1, MovedOK DEF Moved
  <2>3. UNCHANGED <<stage, records, stars, queue>>
    BY <1>4 DEF StatementFails, objects, tables
  <2>4. ASSUME NEW id \in Courses PROVE Onward(id)
    <3>1. PlayersOnly(id)' => PlayersOnly(id)
      BY <2>2, PlayersOnlyBefore
    <3> QED
      BY <1>0, <2>3, <3>1, NumbersStay DEF Seen
  <2> QED
    BY <1>2, <2>1, <2>4
<1>5. CASE ObjectStep
  <2>1. UNCHANGED <<records, stars, queue, pc, call>>
    BY <1>5 DEF ObjectStep, tables
  <2>2. ASSUME NEW id \in Courses PROVE Onward(id)
    <3>1. Seen(id) => Seen(id)'
      BY <1>0, <1>5, ObjectMoves
    <3>2. stage[id] = "withdrawn" => stage'[id] = "withdrawn"
      <4>1. PICK o \in Courses :
              Life!Create(o) \/ Life!Import(o) \/ Life!Publish(o) \/ Life!Withdraw(o)
        BY <1>5 DEF ObjectStep, Life!Next
      <4>2. stage \in [Courses -> Stages]
        BY <1>0 DEF TypeOK, Stages
      <4> QED
        BY <4>1, <4>2 DEF Life!Create, Life!Import, Life!Publish, Life!Withdraw
    <3>3. PlayersOnly(id)' => PlayersOnly(id)
      BY <2>1, PlayersOnlyBefore
    <3> QED
      BY <1>0, <2>1, <3>1, <3>2, <3>3, NumbersStay
  <2>3. ScoresOK'
    BY <2>1 DEF ScoresOK
  <2> QED
    BY <2>2, <2>3
<1>6. CASE (\E id \in Reviewable : Moderate(id)) \/ UNCHANGED vars
  <2>1. UNCHANGED <<stage, records, stars, queue, pc, call>>
    BY <1>6 DEF Moderate, tables, vars
  <2>2. ASSUME NEW id \in Courses PROVE Onward(id)
    <3>1. PlayersOnly(id)' => PlayersOnly(id)
      BY <2>1, PlayersOnlyBefore
    <3> QED
      BY <1>0, <2>1, <3>1, NumbersStay DEF Seen
  <2>3. ScoresOK'
    BY <2>1 DEF ScoresOK
  <2> QED
    BY <2>2, <2>3
<1> QED
  BY <1>1, <1>3, <1>4, <1>5, <1>6 DEF Next

LEMMA InitScores == Init => ScoresOK
  BY DEF Init, ScoresOK

\* What players add up for a course is never negative.
StarsGood == \A id \in Courses : PlayersOnly(id) /\ stars[id] # NoRow => stars[id] >= 0

\* No changeMeta names the course.
Settled(id) == Mentions("changeMeta", id) = {}

\* A course without stars gets its first from a player.
LEMMA FirstStars ==
  ASSUME IInv, ScoresOK, [Next]_vars, NEW id \in Courses, PlayersOnly(id),
         stars[id] = NoRow, stars'[id] # NoRow
  PROVE  stars'[id] >= 0
<1>0. TypeOK /\ stars'[id] # stars[id]
  BY DEF IInv
<1>1. PICK r \in Requests : WriteStars(r) \/ ImportStars(r)
  BY <1>0 DEF Next, Step, Receive, StatementFails, ObjectStep, Moderate, Info, Check, WriteRecord,
     WriteRating, WriteBuffer, WriteMeta, ImportRatings, ImportRecord, tables, vars
<1>2. RequestOK(r) /\ pc[r] \in {"write", "stars"} /\ stars \in [Courses -> Int \cup {NoRow}]
  BY <1>0, <1>1 DEF IInv, WriteStars, ImportStars, TypeOK
<1>3. /\ pc[r] \notin Ended \cup {"idle"} /\ ItemOf(r).id \in Courses /\ ItemOf(r).val \in Int
      /\ at[r] \in 1..Len(call[r].items) /\ Mentions(call[r].method, ItemOf(r).id) # {}
      /\ call[r].method \in MethodsAt(pc[r])
  BY <1>2, ItemInList, ItemIsMentioned DEF Ended, RequestOK
<1>4. ItemOf(r).id = id
  BY <1>0, <1>1, <1>2 DEF WriteStars, ImportStars
<1>5. call[r].method \notin {"handleStars", "handleImport"}
  BY <1>3, <1>4 DEF PlayersOnly
<1>6. WriteStars(r)
  BY <1>1, <1>3, <1>5 DEF ImportStars, MethodsAt
<1>7. call[r].method = "RateCustomRanking" /\ stars'[id] = ItemOf(r).val
  BY <1>2, <1>4, <1>5, <1>6 DEF WriteStars
<1> QED
  BY <1>3, <1>7 DEF ScoresOK, ItemOf

LEMMA StarsStayGood ==
  ASSUME IInv, ScoresOK, StarsGood, [Next]_vars
  PROVE  StarsGood'
<1> SUFFICES ASSUME NEW id \in Courses, PlayersOnly(id)', stars'[id] # NoRow
             PROVE  stars'[id] >= 0
  BY DEF StarsGood
<1>1. Onward(id) /\ TypeOK /\ TypeOK'
  BY GoesOnward, StepOK DEF IInv
<1>2. PlayersOnly(id)
  BY <1>1 DEF Onward
<1>3. CASE stars[id] = NoRow
  BY <1>2, <1>3, FirstStars
<1>4. CASE stars[id] # NoRow
  <2>1. stars[id] >= 0 /\ stars[id] <= stars'[id]
    BY <1>1, <1>2, <1>4 DEF Onward, StarsGood
  <2>2. stars[id] \in Int /\ stars'[id] \in Int
    BY <1>1, <1>4 DEF TypeOK
  <2>3. \A m, n \in Int : m >= 0 /\ m <= n => n >= 0
    OBVIOUS
  <2> QED
    BY <2>1, <2>2, <2>3
<1> QED
  BY <1>3, <1>4

\* Nobody changes the owner of an object that has been published, and only a
\* changeMeta its type.
LEMMA OwnersAndTypesStay ==
  ASSUME IInv, [Next]_vars, NEW id \in Courses
  PROVE  /\ Seen(id) => owner'[id] = owner[id]
         /\ Settled(id)' => Settled(id) /\ (id \in maker' <=> id \in maker)
<1>0. TypeOK /\ (\A q \in Requests : RequestOK(q))
  BY DEF IInv
<1>1. Seen(id) => owner'[id] = owner[id]
  <2>1. CASE ObjectStep
    BY <1>0, <2>1, ObjectMoves
  <2>2. CASE ~ObjectStep
    BY <2>2 DEF Next, Step, Receive, StatementFails, Moderate, Info, Check, WriteRecord,
       WriteStars, WriteRating, WriteBuffer, WriteMeta, ImportStars, ImportRatings, ImportRecord,
       objects, vars
  <2> QED
    BY <2>1, <2>2
<1>2. \A q \in Requests : pc[q] # "idle" => pc'[q] # "idle" /\ call'[q] = call[q]
  <2>1. ASSUME NEW r \in Requests, Moved(r)
        PROVE  \A q \in Requests : pc[q] # "idle" => pc'[q] # "idle" /\ call'[q] = call[q]
    BY <2>1, MovedOK DEF Moved
  <2>2. ASSUME NEW r \in Requests, Receive(r)
        PROVE  \A q \in Requests : pc[q] # "idle" => pc'[q] # "idle" /\ call'[q] = call[q]
    <3>1. /\ pc[r] = "idle"
          /\ \A q \in Requests \ {r} : pc'[q] = pc[q] /\ call'[q] = call[q]
      BY <1>0, <2>2, ReceiveOK
    <3> QED
      BY <3>1
  <2>3. CASE ObjectStep \/ (\E o \in Reviewable : Moderate(o)) \/ UNCHANGED vars
    BY <2>3 DEF ObjectStep, Moderate, vars
  <2>4. \A r \in Requests : Step(r) \/ StatementFails(r) => Moved(r)
    BY WriteMoves, FailureMoves DEF Step
  <2> QED
    BY <2>1, <2>2, <2>3, <2>4 DEF Next
<1>3. Mentions("changeMeta", id) \subseteq Mentions("changeMeta", id)'
  <2>1. "changeMeta" \in AllMethods
    BY DEF AllMethods
  <2> QED
    BY <1>2, <2>1, MentionsGrow
<1>4. Settled(id)' => Settled(id)
  BY <1>3 DEF Settled
<1>5. ASSUME Settled(id) PROVE id \in maker' <=> id \in maker
  <2>1. CASE \E r \in Requests : WriteMeta(r)
    <3>1. PICK r \in Requests : WriteMeta(r)
      BY <2>1
    <3>2. RequestOK(r) /\ pc[r] \notin Ended \cup {"idle"} /\ call[r].method = "changeMeta"
      BY <1>0, <3>1 DEF WriteMeta, Ended
    <3>3. Mentions("changeMeta", ItemOf(r).id) # {}
      BY <3>2, ItemIsMentioned
    <3>4. ItemOf(r).id # id
      BY <1>5, <3>3 DEF Settled
    <3> QED
      BY <3>1, <3>4 DEF WriteMeta
  <2>2. CASE ~\E r \in Requests : WriteMeta(r)
    BY <2>2 DEF Next, Step, Receive, StatementFails, ObjectStep, Moderate, Info, Check,
       WriteRecord, WriteStars, WriteRating, WriteBuffer, ImportStars, ImportRatings,
       ImportRecord, objects, vars
  <2> QED
    BY <2>1, <2>2
<1> QED
  BY <1>1, <1>4, <1>5

LEMMA InitStars == Init => StarsGood
  BY DEF Init, StarsGood

\* The buffers of a queue, which are as many as were ever sent.
Buffers(id) == {e.val : e \in queue[id]}
QueuesFinite == \A id \in Courses : IsFiniteSet(Buffers(id))

LEMMA InitQueues == Init => QueuesFinite
<1> SUFFICES ASSUME Init, NEW id \in Courses PROVE IsFiniteSet(Buffers(id))
  BY DEF QueuesFinite
<1>1. Buffers(id) = {}
  BY DEF Init, Buffers
<1> QED
  BY <1>1, FS_EmptySet

LEMMA QueuesStayFinite ==
  ASSUME TypeOK, QueuesFinite, [Next]_vars
  PROVE  QueuesFinite'
<1> SUFFICES ASSUME NEW id \in Courses PROVE IsFiniteSet(Buffers(id)')
  BY DEF QueuesFinite
<1>1. IsFiniteSet(Buffers(id))
  BY DEF QueuesFinite
<1>2. CASE UNCHANGED queue
  BY <1>1, <1>2 DEF Buffers
<1>3. ASSUME NEW r \in Requests, WriteBuffer(r) PROVE IsFiniteSet(Buffers(id)')
  <2> DEFINE val == ItemOf(r).val  old == Buffers(id)
  <2>1. \A e \in queue'[id] : e \in queue[id] \/ e.val = val
    BY <1>3 DEF TypeOK, WriteBuffer
  <2>2. Buffers(id)' \subseteq old \cup {val}
    <3> SUFFICES ASSUME NEW e \in queue'[id] PROVE e.val \in old \cup {val}
      BY DEF Buffers
    <3> QED
      BY <2>1 DEF Buffers
  <2> HIDE DEF val
  <2>3. IsFiniteSet(old \cup {val})
    BY <1>1, FS_AddElement
  <2> HIDE DEF old
  <2> QED
    BY <2>2, <2>3, FS_Subset
<1>4. UNCHANGED queue \/ \E r \in Requests : WriteBuffer(r)
  BY DEF Next, Receive, StatementFails, Step, Info, Check, WriteRecord, WriteStars, WriteRating,
         WriteMeta, ImportStars, ImportRatings, ImportRecord, ObjectStep, Moderate, objects,
         tables, vars
<1> QED
  BY <1>2, <1>3, <1>4
-----------------------------------------------------------------------------
(***************************************************************************)
(* Sums over sets of pairs of request and item, as CountedOnce takes them. *)
(***************************************************************************)

\* The value of a mentioned item in the calls c.
Val(c, k) == c[k[1]].items[k[2]].val

\* The recursive function behind MapThenSumSet: the sums over the subsets of S.
Sums(c, S) == CHOOSE sum : sum =
  [T \in SUBSET S |-> IF T = {} THEN 0
                      ELSE LET x == CHOOSE x \in T : TRUE
                           IN  Val(c, x) + sum[T \ {x}]]

SumOf(c, S) == Sums(c, S)[S]

\* It exists: it is built from the smaller sets to the larger.
IsSum(sum, c, S) ==
  sum = [T \in SUBSET S |-> IF T = {} THEN 0
                            ELSE LET x == CHOOSE x \in T : TRUE
                                 IN  Val(c, x) + sum[T \ {x}]]

LEMMA SumsExist ==
  ASSUME NEW c, NEW S, IsFiniteSet(S)
  PROVE  IsSum(Sums(c, S), c, S)
<1> DEFINE pick(T) == CHOOSE x \in T : TRUE
           size(T) == Cardinality(T)
           upto(k) == {T \in SUBSET S : size(T) <= k}
           Adds(f, k) == f = [T \in upto(k) |-> IF T = {} THEN 0
                                  ELSE Val(c, pick(T)) + f[T \ {pick(T)}]]
           N == Cardinality(S)
           K == {k \in 0..N : \E f : Adds(f, k)}
<1>1. /\ N \in Nat
      /\ \A T \in SUBSET S : size(T) \in 0..N /\ (size(T) = 0 <=> T = {})
  <2>1. N \in Nat
    BY FS_CardinalityType
  <2> SUFFICES ASSUME NEW T \in SUBSET S PROVE size(T) \in 0..N /\ (size(T) = 0 <=> T = {})
    BY <2>1
  <2>2. IsFiniteSet(T) /\ size(T) <= N
    BY FS_Subset
  <2>3. size(T) \in Nat /\ (size(T) = 0 <=> T = {})
    BY <2>2, FS_CardinalityType, FS_EmptySet
  <2> QED
    BY <2>1, <2>2, <2>3
<1>2. \A T \in SUBSET S : T # {} =>
        /\ pick(T) \in T /\ T \ {pick(T)} \in SUBSET S
        /\ size(T \ {pick(T)}) = size(T) - 1
  <2> SUFFICES ASSUME NEW T \in SUBSET S, T # {}
               PROVE  pick(T) \in T /\ size(T \ {pick(T)}) = size(T) - 1
    OBVIOUS
  <2>1. IsFiniteSet(T) /\ pick(T) \in T
    BY FS_Subset
  <2> HIDE DEF pick
  <2> QED
    BY <2>1, FS_RemoveElement
<1> HIDE DEF pick, size
<1>3. 0 \in K
  <2>1. upto(0) = {{}}
    BY <1>1
  <2>2. Adds([T \in upto(0) |-> 0], 0)
    BY <2>1
  <2> HIDE DEF Adds
  <2> QED
    BY <1>1, <2>2
<1>4. ASSUME NEW k \in 0..N, k # 0, k - 1 \in K PROVE k \in K
  <2>1. PICK f : Adds(f, k - 1)
    BY <1>4
  <2> DEFINE new(T) == IF T = {} THEN 0 ELSE Val(c, pick(T)) + f[T \ {pick(T)}]
             g == [T \in upto(k) |-> new(T)]
  <2>2. \A T \in upto(k - 1) : T \in upto(k) /\ f[T] = new(T)
    <3>1. \A T \in upto(k - 1) : T \in upto(k)
      BY <1>1
    <3>2. f = [T \in upto(k - 1) |-> new(T)]
      BY <2>1
    <3> HIDE DEF upto, new
    <3> QED
      BY <3>1, <3>2
  <2>3. \A T \in upto(k) : T # {} => T \ {pick(T)} \in upto(k - 1)
    BY <1>1, <1>2
  <2>4. \A T \in upto(k) : T # {} => g[T \ {pick(T)}] = f[T \ {pick(T)}]
    <3> SUFFICES ASSUME NEW T \in upto(k), T # {}
                 PROVE  g[T \ {pick(T)}] = f[T \ {pick(T)}]
      OBVIOUS
    <3> DEFINE U == T \ {pick(T)}
    <3>1. U \in upto(k - 1)
      BY <2>3
    <3> HIDE DEF U, upto, new
    <3>2. g[U] = f[U]
      BY <2>2, <3>1
    <3> QED
      BY <3>2 DEF U
  <2>5. Adds(g, k)
    <3> HIDE DEF upto
    <3>1. g = [T \in upto(k) |-> IF T = {} THEN 0
                                 ELSE Val(c, pick(T)) + g[T \ {pick(T)}]]
      <4> DEFINE v(T) == Val(c, pick(T))
                 rest(T) == T \ {pick(T)}
      <4>1. \A T \in upto(k) : T # {} => g[rest(T)] = f[rest(T)]
        BY <2>4
      <4>2. g = [T \in upto(k) |-> IF T = {} THEN 0 ELSE v(T) + f[rest(T)]]
        OBVIOUS
      <4> HIDE DEF g, v, rest
      <4>3. g = [T \in upto(k) |-> IF T = {} THEN 0 ELSE v(T) + g[rest(T)]]
        BY <4>1, <4>2
      <4> QED
        BY <4>3 DEF v, rest
    <3> HIDE DEF g
    <3> QED
      BY <3>1
  <2> HIDE DEF Adds
  <2> QED
    BY <2>5
<1>5. N \in K
  <2> HIDE DEF K
  <2>1. 0..N \subseteq K
    <3> HIDE DEF N
    <3> QED
      BY <1>1, <1>3, <1>4, BoundedInduction
  <2> QED
    BY <1>1, <2>1
<1>6. PICK f : Adds(f, N)
  BY <1>5
<1>7. upto(N) = SUBSET S
  BY <1>1
<1>8. IsSum(f, c, S)
  <2> HIDE DEF upto, N
  <2> QED
    BY <1>6, <1>7 DEF pick, IsSum
<1>9. Sums(c, S) = CHOOSE sum : IsSum(sum, c, S)
  BY DEF Sums, IsSum
<1> QED
  BY <1>8, <1>9

\* Whichever element is taken out of a set, its sum is less by that element.
LEMMA SumStep ==
  ASSUME NEW c, NEW S, IsFiniteSet(S), \A x \in S : Val(c, x) \in Int
  PROVE  /\ \A T \in SUBSET S : Sums(c, S)[T] \in Int
         /\ Sums(c, S)[{}] = 0
         /\ \A T \in SUBSET S : \A x \in T :
              Sums(c, S)[T] = Val(c, x) + Sums(c, S)[T \ {x}]
<1> DEFINE f == Sums(c, S)
           pick(T) == CHOOSE x \in T : TRUE
           W == {T \in SUBSET S : f[T] \in Int}
           C == {T \in SUBSET S : \A x \in T : f[T] = Val(c, x) + f[T \ {x}]}
<1>1. \A T \in SUBSET S : f[T] = IF T = {} THEN 0
                                 ELSE Val(c, pick(T)) + f[T \ {pick(T)}]
  <2>1. IsSum(Sums(c, S), c, S)
    BY SumsExist
  <2> HIDE DEF f, pick
  <2>2. f = [T \in SUBSET S |-> IF T = {} THEN 0
                                ELSE Val(c, pick(T)) + f[T \ {pick(T)}]]
    BY <2>1 DEF f, pick, IsSum
  <2> QED
    BY <2>2
<1>2. \A T \in SUBSET S : T # {} => pick(T) \in T
  OBVIOUS
<1> HIDE DEF f, pick
<1>3. f[{}] = 0 /\ {} \in W /\ {} \in C
  <2>1. {} \in SUBSET S
    OBVIOUS
  <2>2. f[{}] = 0
    BY <1>1, <2>1
  <2> QED
    BY <2>1, <2>2
<1>4. ASSUME NEW T \in SUBSET S, T # {}, \A x \in T : T \ {x} \in W PROVE T \in W
  <2> DEFINE p == pick(T)
  <2>1. p \in T /\ f[T] = Val(c, p) + f[T \ {p}]
    BY <1>1, <1>2, <1>4
  <2> HIDE DEF p
  <2>2. T \ {p} \in W /\ Val(c, p) \in Int
    BY <1>4, <2>1
  <2>3. f[T \ {p}] \in Int
    BY <2>2
  <2>4. f[T] \in Int
    BY <2>1, <2>2, <2>3
  <2> QED
    BY <2>4
<1>5. SUBSET S \subseteq W
  <2> HIDE DEF W
  <2> QED
    BY <1>3, <1>4, SubsetInduction
<1>6. ASSUME NEW T \in SUBSET S, T # {}, \A x \in T : T \ {x} \in C PROVE T \in C
  <2> DEFINE p == pick(T)
  <2>1. p \in T /\ f[T] = Val(c, p) + f[T \ {p}]
    BY <1>1, <1>2, <1>6
  <2> HIDE DEF p
  <2>2. ASSUME NEW x \in T, x # p PROVE f[T] = Val(c, x) + f[T \ {x}]
    <3>1. (T \ {p}) \ {x} = (T \ {x}) \ {p} /\ x \in T \ {p} /\ p \in T \ {x}
      BY <2>1, <2>2
    <3> DEFINE a == f[T \ {p}]  b == f[T \ {x}]  d == f[(T \ {p}) \ {x}]
               v == Val(c, p)   w == Val(c, x)
    <3>2. a = w + d
      <4>1. T \ {p} \in C
        BY <1>6, <2>1
      <4> QED
        BY <3>1, <4>1
    <3>3. b = v + d
      <4>1. T \ {x} \in C
        BY <1>6, <2>2
      <4>2. b = v + f[(T \ {x}) \ {p}]
        BY <3>1, <4>1
      <4> QED
        BY <3>1, <4>2
    <3>4. a \in Int /\ b \in Int /\ d \in Int /\ v \in Int /\ w \in Int
      <4>1. T \ {p} \in W /\ T \ {x} \in W /\ (T \ {p}) \ {x} \in W
        BY <1>5
      <4> QED
        BY <2>1, <4>1
    <3>5. f[T] = v + a
      BY <2>1
    <3> HIDE DEF a, b, d, v, w
    <3>6. f[T] = w + b
      BY <3>2, <3>3, <3>4, <3>5
    <3> QED
      BY <3>6 DEF w, b
  <2> QED
    BY <2>1, <2>2
<1>7. SUBSET S \subseteq C
  <2> HIDE DEF C
  <2> QED
    BY <1>3, <1>6, SubsetInduction
<1> QED
  BY <1>3, <1>5, <1>7 DEF f

\* The values of a set are integers; two states of the calls agree on a set.
IntegersIn(c, S) == \A x \in S : Val(c, x) \in Int
Agree(c, d, S) == \A x \in S : Val(d, x) = Val(c, x)

\* The sum of a set is the same for calls that agree on the set, and within
\* any larger set.
LEMMA SumAgrees ==
  ASSUME NEW c, NEW d, NEW S, NEW T, IsFiniteSet(S), T \subseteq S,
         IntegersIn(c, S), Agree(c, d, T)
  PROVE  Sums(c, S)[T] = SumOf(d, T)
<1>0. (\A x \in T : Val(d, x) = Val(c, x)) /\ \A x \in S : Val(c, x) \in Int
  BY DEF Agree, IntegersIn
<1> DEFINE f == Sums(c, S)  g == Sums(d, T)
           C == {U \in SUBSET T : f[U] = g[U]}
<1>1. IsFiniteSet(T) /\ \A x \in T : Val(d, x) \in Int
  BY <1>0, FS_Subset
<1>2. f[{}] = 0 /\ \A U \in SUBSET S : \A x \in U : f[U] = Val(c, x) + f[U \ {x}]
  BY <1>0, SumStep
<1>3. g[{}] = 0 /\ \A U \in SUBSET T : \A x \in U : g[U] = Val(d, x) + g[U \ {x}]
  BY <1>1, SumStep
<1> HIDE DEF f, g
<1>4. {} \in C
  BY <1>2, <1>3
<1>5. ASSUME NEW U \in SUBSET T, U # {}, \A x \in U : U \ {x} \in C PROVE U \in C
  <2>1. PICK x \in U : TRUE
    BY <1>5
  <2>2. f[U \ {x}] = g[U \ {x}] /\ Val(d, x) = Val(c, x)
    BY <1>0, <1>5, <2>1
  <2>3. f[U] = Val(c, x) + f[U \ {x}] /\ g[U] = Val(d, x) + g[U \ {x}]
    BY <1>2, <1>3, <2>1
  <2> QED
    BY <2>2, <2>3
<1>6. SUBSET T \subseteq C
  <2> HIDE DEF C
  <2> QED
    BY <1>1, <1>4, <1>5, SubsetInduction
<1> QED
  BY <1>6 DEF f, g, SumOf

LEMMA SumWithin ==
  ASSUME NEW c, NEW S, IsFiniteSet(S), NEW T \in SUBSET S, \A x \in S : Val(c, x) \in Int
  PROVE  Sums(c, S)[T] = SumOf(c, T)
<1>1. T \subseteq S /\ Agree(c, c, T) /\ IntegersIn(c, S)
  BY DEF Agree, IntegersIn
<1> QED
  BY <1>1, SumAgrees

\* One more element adds its value.
LEMMA SumAdds ==
  ASSUME NEW c, NEW S, IsFiniteSet(S), NEW y, y \notin S,
         \A x \in S \cup {y} : Val(c, x) \in Int
  PROVE  /\ SumOf(c, S \cup {y}) = SumOf(c, S) + Val(c, y)
         /\ SumOf(c, S) \in Int
<1> DEFINE U == S \cup {y}
<1>1. IsFiniteSet(U) /\ U \ {y} = S /\ S \in SUBSET U /\ y \in U /\ U \in SUBSET U
  BY FS_AddElement
<1>2. Sums(c, U)[S] = SumOf(c, S)
  <2> HIDE DEF U
  <2>1. \A x \in U : Val(c, x) \in Int
    BY DEF U
  <2> QED
    BY <1>1, <2>1, SumWithin
<1>3. Sums(c, U)[U] = Val(c, y) + Sums(c, U)[U \ {y}] /\ Sums(c, U)[S] \in Int
  <2> HIDE DEF U
  <2>1. \A x \in U : Val(c, x) \in Int
    BY DEF U
  <2> QED
    BY <1>1, <2>1, SumStep
<1> HIDE DEF U
<1>4. Val(c, y) \in Int
  OBVIOUS
<1>5. SumOf(c, U) = SumOf(c, S) + Val(c, y) /\ SumOf(c, S) \in Int
  <2>1. SumOf(c, U) = Sums(c, U)[U]
    BY DEF SumOf
  <2> DEFINE a == SumOf(c, S)  b == Sums(c, U)[U]  v == Val(c, y)
  <2>2. b = v + a /\ a \in Int /\ v \in Int
    BY <1>1, <1>2, <1>3, <1>4
  <2> HIDE DEF a, b, v
  <2>3. b = a + v
    BY <2>2
  <2> QED
    BY <2>1, <2>2, <2>3 DEF a, b, v
<1> QED
  BY <1>5 DEF U

\* With values that are not negative a larger set has the larger sum.
LEMMA SumGrows ==
  ASSUME NEW c, NEW S, IsFiniteSet(S), NEW T \in SUBSET S, \A x \in S : Val(c, x) \in Nat
  PROVE  0 <= SumOf(c, T) /\ SumOf(c, T) <= SumOf(c, S) /\ SumOf(c, T) \in Int
<1> DEFINE f == Sums(c, S)
           C == {U \in SUBSET S : \A V \in SUBSET U : f[V] <= f[U]}
<1>1. /\ f[{}] = 0 /\ \A U \in SUBSET S : f[U] \in Int
      /\ \A U \in SUBSET S : \A x \in U : f[U] = Val(c, x) + f[U \ {x}]
  BY SumStep
<1>2. SumOf(c, T) = f[T] /\ SumOf(c, S) = f[S]
  <2>0. S \in SUBSET S
    OBVIOUS
  <2>1. \A x \in S : Val(c, x) \in Int
    OBVIOUS
  <2> QED
    BY <2>0, <2>1, SumWithin
<1> HIDE DEF f
<1>3. {} \in C
  <2>1. f[{}] <= f[{}]
    BY <1>1
  <2>2. \A V \in SUBSET {} : V = {}
    OBVIOUS
  <2> QED
    BY <2>1, <2>2
<1>4. ASSUME NEW U \in SUBSET S, U # {}, \A x \in U : U \ {x} \in C PROVE U \in C
  <2> SUFFICES ASSUME NEW V \in SUBSET U PROVE f[V] <= f[U]
    OBVIOUS
  <2>1. f[U] \in Int /\ f[V] \in Int
    BY <1>1
  <2>2. CASE V = U
    BY <2>1, <2>2
  <2>3. CASE V # U
    <3>1. PICK x \in U : x \notin V
      BY <2>3
    <3>2. f[V] <= f[U \ {x}]
      BY <1>4, <3>1
    <3>3. f[U] = Val(c, x) + f[U \ {x}] /\ f[U \ {x}] \in Int /\ Val(c, x) \in Nat
      BY <1>1
    <3> QED
      BY <2>1, <3>2, <3>3
  <2> QED
    BY <2>2, <2>3
<1>5. SUBSET S \subseteq C
  <2> HIDE DEF C
  <2> QED
    BY <1>3, <1>4, SubsetInduction
<1>6. f[T] <= f[S] /\ f[{}] <= f[T]
  <2>1. T \in C /\ S \in C
    BY <1>5
  <2> QED
    BY <2>1
<1> QED
  BY <1>1, <1>2, <1>6

\* MapThenSumSet in CountedOnce is this sum.
LEMMA SumIsMapped ==
  ASSUME NEW S
  PROVE  LET Value(k) == call[k[1]].items[k[2]].val IN MapThenSumSet(Value, S) = SumOf(call, S)
BY DEF MapThenSumSet, MapThenFoldSet, Sums, SumOf, Val

(***************************************************************************)
(* What is counted: the items that a request is done with.                 *)
(***************************************************************************)

Tallied == {"rateObjects", "RateCustomRanking", "AddToBufferQueues"}

\* The items of the requests of a kind that have been worked on.
Done(m, id) == {k \in Mentions(m, id) : k[2] < at[k[1]] \/ pc[k[1]] = "ok"}

Active == {r \in Requests : pc[r] # "idle"}

\* A rating was counted for every item done, there are no more stars than were
\* sent with them, and each has left its buffer, once.
RatingsCounted(id) == ratings[id] # NoRow =>
                        ratings[id].count = Cardinality(Done("rateObjects", id))
StarsCounted(id)   == stars[id] # NoRow =>
                        stars[id] <= SumOf(call, Done("RateCustomRanking", id))
BuffersKept(id)    == /\ \A e, f \in queue[id] : e.val = f.val => e = f
                      /\ \A k \in Done("AddToBufferQueues", id) :
                           \E e \in queue[id] : e.val = Val(call, k)

Tally(id) == BuffersKept(id) /\ (PlayersOnly(id) => RatingsCounted(id) /\ StarsCounted(id))

TallyInv == IsFiniteSet(Active) /\ ScoresOK /\ \A id \in Courses : Tally(id)

\* Finitely many items are sent, with integers for values.
LEMMA MentionsFinite ==
  ASSUME IInv, IsFiniteSet(Active), NEW m, NEW id
  PROVE  /\ IsFiniteSet(Mentions(m, id)) /\ IsFiniteSet(Done(m, id))
         /\ Done(m, id) \subseteq Mentions(m, id)
         /\ \A k \in Mentions(m, id) :
              /\ k = <<k[1], k[2]>> /\ k[1] \in Requests /\ k[2] \in 1..Len(call[k[1]].items)
              /\ call[k[1]] \in CallRecord /\ Val(call, k) \in Int
              /\ ScoresOK /\ m = "RateCustomRanking" => Val(call, k) \in Nat
<1>1. IsFiniteSet(Active \X (1..MaxItems))
  <2>1. 1 \in Int /\ MaxItems \in Int
    BY ActivityAssumption
  <2>2. IsFiniteSet(1..MaxItems)
    BY <2>1, FS_Interval
  <2> QED
    BY <2>2, FS_Product
<1>2. Mentions(m, id) \subseteq Active \X (1..MaxItems)
  BY DEF Mentions, Active, Asked
<1>3. IsFiniteSet(Mentions(m, id)) /\ Done(m, id) \subseteq Mentions(m, id)
  BY <1>1, <1>2, FS_Subset DEF Done
<1>4. ASSUME NEW k \in Mentions(m, id)
      PROVE  /\ k = <<k[1], k[2]>> /\ k[1] \in Requests /\ k[2] \in 1..Len(call[k[1]].items)
             /\ call[k[1]] \in CallRecord /\ Val(call, k) \in Int
             /\ ScoresOK /\ m = "RateCustomRanking" => Val(call, k) \in Nat
  <2> DEFINE r == k[1]  i == k[2]
  <2>1. /\ k = <<r, i>> /\ r \in Requests /\ i \in 1..MaxItems /\ Asked(r, m)
        /\ i <= Len(call[r].items)
    BY DEF Mentions
  <2> HIDE DEF r, i
  <2>2. RequestOK(r) /\ pc[r] # "idle" /\ call[r].method = m
    BY <2>1 DEF IInv, Asked
  <2>3. call[r] \in CallRecord /\ call[r].items \in Seq(Item) /\ Len(call[r].items) \in Nat
    BY <2>2, LenProperties DEF RequestOK, CallRecord
  <2>4. i \in 1..Len(call[r].items)
    BY <2>1, <2>3, ActivityAssumption
  <2>5. call[r].items[i] \in Item
    BY <2>3, <2>4, ElementOfSeq
  <2>6. Val(call, k) = call[r].items[i].val
    BY DEF Val, r, i
  <2>7. Val(call, k) \in Int
    BY <2>5, <2>6 DEF Item
  <2>8. ScoresOK /\ m = "RateCustomRanking" => Val(call, k) \in Nat
    BY <2>1, <2>2, <2>4, <2>6, <2>7 DEF ScoresOK
  <2> QED
    BY <2>1, <2>3, <2>4, <2>7, <2>8 DEF r, i
<1> QED
  BY <1>3, <1>4, FS_Subset

\* Going on with the next item makes an item done: the one in work.
LEMMA OneMoreDone ==
  ASSUME IInv, IsFiniteSet(Active), NEW r \in Requests, Moved(r),
         NextItem(r) \/ DoneButFails(r), NEW m \in AllMethods, NEW id \in Courses
  PROVE  /\ <<r, at[r]>> \notin Done(m, id) /\ Val(call, <<r, at[r]>>) = ItemOf(r).val
         /\ Done(m, id)' = IF call[r].method = m /\ ItemOf(r).id = id
                           THEN Done(m, id) \cup {<<r, at[r]>>} ELSE Done(m, id)
<1> DEFINE x == <<r, at[r]>>  n == Len(call[r].items)
<1>1. /\ TypeOK /\ RequestOK(r) /\ pc[r] \notin Ended \cup {"idle"} /\ call' = call
      /\ \A q \in Requests : pc'[q] # "idle" <=> pc[q] # "idle"
      /\ \A q \in Requests \ {r} : pc'[q] = pc[q] /\ at'[q] = at[q]
  <2>1. TypeOK /\ RequestOK(r) /\ pc[r] \notin Ended \cup {"idle"} /\ call' = call
    BY DEF IInv, Moved
  <2>2. \A q \in Requests \ {r} : at'[q] = at[q]
    BY <2>1 DEF TypeOK, NextItem, DoneButFails
  <2> QED
    BY <2>1, <2>2, MovedOK
<1>2. /\ at[r] \in 1..n /\ at[r] <= MaxItems /\ n \in Nat /\ call[r].method \in AllMethods
      /\ at[r] \in 1..MaxItems
  BY <1>1, ItemInList, LenProperties, ActivityAssumption DEF RequestOK, CallRecord
<1>3. \/ at'[r] = at[r] + 1 /\ pc'[r] # "ok"
      \/ at'[r] = at[r] /\ pc'[r] = "ok" /\ ~(at[r] < n)
  <2>1. FirstLabel(call[r].method) # "ok"
    BY <1>2 DEF FirstLabel, AllMethods
  <2> QED
    BY <1>1, <2>1 DEF TypeOK, NextItem, DoneButFails
<1>4. Mentions(m, id)' = Mentions(m, id)
  BY <1>1 DEF Mentions, Asked
<1>5. x \in Mentions(m, id) <=> call[r].method = m /\ ItemOf(r).id = id
  BY <1>1, <1>2 DEF Mentions, Asked, ItemOf
<1>6. x \notin Done(m, id)
  BY <1>1, <1>2 DEF Done, Ended
<1>7. ASSUME NEW k \in Mentions(m, id), k # x PROVE k \in Done(m, id)' <=> k \in Done(m, id)
  <2> DEFINE q == k[1]  i == k[2]
  <2>1. k = <<q, i>> /\ q \in Requests /\ i \in 1..Len(call[q].items)
    BY <1>7, MentionsFinite
  <2> HIDE DEF q, i
  <2>2. (k \in Done(m, id) <=> i < at[q] \/ pc[q] = "ok")
    BY <1>7 DEF Done, q, i
  <2>3. (k \in Done(m, id)' <=> i < at'[q] \/ pc'[q] = "ok")
    BY <1>4, <1>7 DEF Done, q, i
  <2>4. CASE q # r
    BY <1>1, <2>1, <2>2, <2>3, <2>4
  <2>5. CASE q = r
    <3>1. i # at[r] /\ i \in 1..n /\ pc[q] # "ok"
      BY <1>1, <1>7, <2>1, <2>5 DEF Ended
    <3>2. i < at[r] <=> (i < at'[r] \/ pc'[r] = "ok")
      <4> DEFINE a == at[r]  b == at'[r]
      <4>1. a \in 1..n /\ i \in 1..n /\ i # a /\ n \in Nat
        BY <1>2, <3>1
      <4>2. \/ b = a + 1 /\ pc'[r] # "ok"
            \/ b = a /\ pc'[r] = "ok" /\ ~(a < n)
        BY <1>3
      <4> HIDE DEF a, b, n
      <4>3. i < a <=> (i < b \/ pc'[r] = "ok")
        BY <4>1, <4>2
      <4> QED
        BY <4>3 DEF a, b
    <3> QED
      BY <2>2, <2>3, <2>5, <3>1, <3>2
  <2> QED
    BY <2>4, <2>5
<1>8. x \in Mentions(m, id) => x \in Done(m, id)'
  <2>1. at[r] < at'[r] \/ pc'[r] = "ok"
    BY <1>2, <1>3
  <2> QED
    BY <1>4, <2>1 DEF Done
<1>9. Done(m, id) \subseteq Mentions(m, id) /\ Done(m, id)' \subseteq Mentions(m, id)
  BY <1>4 DEF Done
<1> QED
  BY <1>5, <1>6, <1>7, <1>8, <1>9 DEF Val, ItemOf

\* Going to another statement makes none done, unless it is the reply.
LEMMA NoneDone ==
  ASSUME IInv, NEW r \in Requests, Moved(r), NEW label \in Labels, Goto(r, label),
         NEW m \in AllMethods, NEW id \in Courses, label = "ok" => call[r].method # m
  PROVE  Done(m, id)' = Done(m, id)
<1>1. /\ call' = call /\ at' = at /\ pc'[r] = label /\ pc[r] \notin Ended
      /\ \A q \in Requests : pc'[q] # "idle" <=> pc[q] # "idle"
      /\ \A q \in Requests \ {r} : pc'[q] = pc[q]
  BY MovedOK DEF IInv, TypeOK, Moved, Goto
<1>2. Mentions(m, id)' = Mentions(m, id)
  BY <1>1 DEF Mentions, Asked
<1>3. \A k \in Mentions(m, id) : call[k[1]].method = m /\ k[1] \in Requests
  BY DEF Mentions, Asked
<1>4. \A k \in Mentions(m, id) : pc'[k[1]] = "ok" <=> pc[k[1]] = "ok"
  BY <1>1, <1>3 DEF Ended
<1> QED
  BY <1>1, <1>2, <1>4 DEF Done

\* Nothing is counted and nothing is done.
LEMMA TallyStays ==
  ASSUME IInv, IsFiniteSet(Active), ScoresOK, NEW id \in Courses, Tally(id),
         queue'[id] = queue[id],
         PlayersOnly(id)' => /\ PlayersOnly(id)
                             /\ ratings'[id] = ratings[id] /\ stars'[id] = stars[id],
         \A m \in Tallied : Done(m, id)' = Done(m, id),
         \A m \in Tallied : Agree(call, call', Done(m, id))
  PROVE  Tally(id)'
<1>1. BuffersKept(id)'
  BY DEF Tally, BuffersKept, Agree, Tallied
<1>2. PlayersOnly(id)' => RatingsCounted(id)' /\ StarsCounted(id)'
  <2> DEFINE S == Done("RateCustomRanking", id)
  <2>1. IsFiniteSet(S) /\ IntegersIn(call, S) /\ S \subseteq S
    BY MentionsFinite DEF IntegersIn
  <2>2. Agree(call, call', S) /\ S' = S
    BY DEF Tallied
  <2> HIDE DEF S
  <2>3. SumOf(call', S) = SumOf(call, S)
    BY <2>1, <2>2, SumAgrees DEF SumOf
  <2>4. SumOf(call', S') = SumOf(call, S)
    BY <2>2, <2>3
  <2> QED
    BY <2>4 DEF S, Tally, RatingsCounted, StarsCounted, Tallied
<1> QED
  BY <1>1, <1>2 DEF Tally

\* The call that comes in is not done, and names no item of those that are.
LEMMA ReceiveTallied ==
  ASSUME IInv, TallyInv, NEW r \in Requests, Receive(r)
  PROVE  IsFiniteSet(Active)' /\ \A id \in Courses : Tally(id)'
<1>1. /\ pc[r] = "idle" /\ at' = at /\ at[r] = 1 /\ RequestOK(r)' /\ call'[r] \in CallRecord
      /\ \A q \in Requests \ {r} : pc'[q] = pc[q] /\ call'[q] = call[q]
      /\ UNCHANGED <<ratings, stars, queue>>
  BY ReceiveOK DEF IInv, Receive, RequestOK, tables
<1>2. IsFiniteSet(Active)'
  <2>1. Active' \subseteq Active \cup {r}
    BY <1>1 DEF Active
  <2>2. IsFiniteSet(Active \cup {r})
    BY FS_AddElement DEF TallyInv
  <2> QED
    BY <2>1, <2>2, FS_Subset
<1>3. pc'[r] = "ok" => Len(call'[r].items) = 0
  <2>1. PICK m \in Methods, p \in Pids, n \in 0..MaxItems : \E list \in [1..n -> Items] :
          /\ call' = [call EXCEPT ![r] = [method |-> m, pid |-> p, items |-> list]]
          /\ pc' = [pc EXCEPT ![r] = IF n = 0 THEN "ok" ELSE FirstLabel(m)]
    BY DEF Receive
  <2>2. PICK list \in [1..n -> Items] :
          /\ call' = [call EXCEPT ![r] = [method |-> m, pid |-> p, items |-> list]]
          /\ pc' = [pc EXCEPT ![r] = IF n = 0 THEN "ok" ELSE FirstLabel(m)]
    BY <2>1
  <2>3. /\ pc \in [Requests -> Labels] /\ call \in [Requests -> CallRecord \cup {NoCall}]
        /\ m \in AllMethods
    BY ActivityAssumption DEF IInv, TypeOK, CallRecord
  <2>4. FirstLabel(m) # "ok"
    BY <2>3 DEF FirstLabel, AllMethods
  <2>5. n = 0 => Len(list) = 0
    OBVIOUS
  <2> QED
    BY <2>2, <2>3, <2>4, <2>5
<1>4. \A q \in Requests : pc[q] # "idle" => pc'[q] # "idle" /\ call'[q] = call[q]
  BY <1>1
<1> SUFFICES ASSUME NEW id \in Courses PROVE Tally(id)'
  BY <1>2
<1>5. \A m \in AllMethods : Mentions(m, id) \subseteq Mentions(m, id)'
  BY <1>4, MentionsGrow
<1>6. ASSUME NEW m \in AllMethods
      PROVE  Done(m, id)' = Done(m, id) /\ Agree(call, call', Done(m, id))
  <2>1. \A k \in Mentions(m, id) : k[1] \in Requests /\ k[1] # r
    BY <1>1 DEF Mentions, Asked
  <2>2. ASSUME NEW k \in Mentions(m, id)', k[1] # r PROVE k \in Mentions(m, id)
    BY <1>1, <2>2 DEF Mentions, Asked
  <2>3. ASSUME NEW k \in Done(m, id)', k[1] = r PROVE FALSE
    <3> DEFINE i == k[2]
    <3>1. i \in 1..MaxItems /\ i <= Len(call'[r].items) /\ (i < 1 \/ pc'[r] = "ok")
      BY <1>1, <2>3 DEF Done, Mentions
    <3> HIDE DEF i
    <3>2. Len(call'[r].items) # 0 /\ ~(i < 1)
      BY <3>1
    <3> QED
      BY <1>3, <3>1, <3>2
  <2>4. \A k \in Mentions(m, id) : k \in Done(m, id)' <=> k \in Done(m, id)
    BY <1>1, <1>5, <2>1 DEF Done
  <2>5. Done(m, id)' = Done(m, id)
    BY <2>2, <2>3, <2>4 DEF Done
  <2>6. \A k \in Done(m, id) : Val(call', k) = Val(call, k)
    BY <1>1, <2>1 DEF Done, Val
  <2> QED
    BY <2>5, <2>6 DEF Agree
<1>7. PlayersOnly(id)' => PlayersOnly(id)
  BY <1>5 DEF PlayersOnly, AllMethods
<1>8. \A m \in Tallied : m \in AllMethods
  BY DEF Tallied, AllMethods
<1> QED
  BY <1>1, <1>6, <1>7, <1>8, TallyStays DEF TallyInv

\* The items in work of requests that do not count leave the tallies alone.
LEMMA UncountedStep ==
  ASSUME IInv, TallyInv, NEW r \in Requests, Moved(r), NEW label \in Labels, Goto(r, label),
         label = "ok" => call[r].method \notin Tallied, NEW id \in Courses,
         UNCHANGED queue,
         PlayersOnly(id) => ratings'[id] = ratings[id] /\ stars'[id] = stars[id]
  PROVE  Tally(id)'
<1>1. /\ call' = call /\ \A q \in Requests : pc'[q] # "idle" <=> pc[q] # "idle"
  BY MovedOK DEF Moved
<1>2. PlayersOnly(id)' = PlayersOnly(id)
  BY <1>1 DEF PlayersOnly, Mentions, Asked
<1>3. ASSUME NEW m \in Tallied PROVE Done(m, id)' = Done(m, id) /\ Agree(call, call', Done(m, id))
  <2>1. m \in AllMethods
    BY DEF Tallied, AllMethods
  <2> QED
    BY <1>1, <2>1, NoneDone DEF Agree
<1> QED
  BY <1>2, <1>3, TallyStays DEF TallyInv

\* An item in work that is counted becomes an item done: WriteRating, WriteStars
\* and WriteBuffer, and what RateCustomRanking skips.
LEMMA CountedStep ==
  ASSUME IInv, TallyInv, NEW r \in Requests, Moved(r), NextItem(r) \/ DoneButFails(r),
         NEW id \in Courses, NEW m, m = call[r].method, NEW mine \in BOOLEAN, mine = (ItemOf(r).id = id),
         ~(m = "rateObjects" /\ mine) => ratings'[id] = ratings[id],
         m = "rateObjects" /\ mine /\ ratings'[id] # NoRow =>
           ratings[id] # NoRow /\ ratings'[id].count = ratings[id].count + 1,
         ~(m = "RateCustomRanking" /\ mine) /\ PlayersOnly(id) => stars'[id] = stars[id],
         m = "RateCustomRanking" /\ mine =>
           \/ stars'[id] = stars[id]
           \/ stars'[id] = IF stars[id] = NoRow THEN ItemOf(r).val ELSE stars[id] + ItemOf(r).val,
         ~(m = "AddToBufferQueues" /\ mine) => queue'[id] = queue[id],
         m = "AddToBufferQueues" /\ mine =>
           queue'[id] = {e \in queue[id] : e.val # ItemOf(r).val}
                          \cup {[by |-> call[r].pid, val |-> ItemOf(r).val]}
  PROVE  Tally(id)'
<1> DEFINE x == <<r, at[r]>>  v == ItemOf(r).val
<1>1. /\ TypeOK /\ RequestOK(r) /\ pc[r] \notin Ended \cup {"idle"} /\ call' = call
      /\ \A q \in Requests : pc'[q] # "idle" <=> pc[q] # "idle"
      /\ IsFiniteSet(Active) /\ ScoresOK /\ Tally(id)
  BY MovedOK DEF IInv, Moved, TallyInv
<1>2. PlayersOnly(id)' = PlayersOnly(id)
  BY <1>1 DEF PlayersOnly, Mentions, Asked
<1>3. \A n \in AllMethods :
         /\ x \notin Done(n, id) /\ Val(call, x) = v
         /\ Done(n, id)' = IF m = n /\ mine THEN Done(n, id) \cup {x} ELSE Done(n, id)
  <2> SUFFICES ASSUME NEW n \in AllMethods
               PROVE  /\ x \notin Done(n, id) /\ Val(call, x) = v
                      /\ Done(n, id)' = IF m = n /\ mine THEN Done(n, id) \cup {x} ELSE Done(n, id)
    OBVIOUS
  <2>1. /\ x \notin Done(n, id) /\ Val(call, x) = v
        /\ Done(n, id)' = IF call[r].method = n /\ ItemOf(r).id = id
                          THEN Done(n, id) \cup {x} ELSE Done(n, id)
    BY <1>1, OneMoreDone
  <2> HIDE DEF x, v
  <2> QED
    BY <2>1
<1>4. \A n : IsFiniteSet(Done(n, id))
  BY <1>1, MentionsFinite
<1>5. v \in Int
  BY <1>1, ItemInList
<1> HIDE DEF x
<1>6. RatingsCounted(id) => RatingsCounted(id)'
  <2> DEFINE D == Done("rateObjects", id)
  <2>1. CASE m = "rateObjects" /\ mine
    <3>1. x \notin D /\ D' = D \cup {x} /\ IsFiniteSet(D)
      BY <1>3, <1>4, <2>1 DEF AllMethods
    <3> HIDE DEF D
    <3>2. Cardinality(D') = Cardinality(D) + 1
      BY <3>1, FS_AddElement
    <3> QED
      BY <2>1, <3>2 DEF RatingsCounted, D
  <2>2. CASE ~(m = "rateObjects" /\ mine)
    <3>1. D' = D
      BY <1>3, <2>2 DEF AllMethods
    <3> QED
      BY <2>2, <3>1 DEF RatingsCounted
  <2> QED
    BY <2>1, <2>2
<1>7. PlayersOnly(id) /\ StarsCounted(id) => StarsCounted(id)'
  <2> DEFINE D == Done("RateCustomRanking", id)
  <2>0. (stars[id] # NoRow => stars[id] \in Int) /\ NoRow \notin Int
    BY <1>1, ActivityAssumption DEF TypeOK
  <2>1. CASE m = "RateCustomRanking" /\ mine
    <3>1. x \notin D /\ D' = D \cup {x} /\ IsFiniteSet(D) /\ Val(call, x) = v
      BY <1>3, <1>4, <2>1 DEF AllMethods
    <3>2. \A k \in D : Val(call, k) \in Nat
      BY <1>1, MentionsFinite
    <3>3. v \in Nat
      <4>1. v >= 0
        <5>1. at[r] \in 1..Len(call[r].items)
          BY <1>1, ItemInList
        <5> QED
          BY <1>1, <2>1, <5>1 DEF ScoresOK, ItemOf, Ended
      <4> QED
        BY <1>5, <4>1
    <3> HIDE DEF D, v
    <3>4. SumOf(call, D') = SumOf(call, D) + v /\ SumOf(call, D) \in Int
      <4>1. \A k \in D \cup {x} : Val(call, k) \in Int
        BY <3>1, <3>2, <3>3
      <4>2. /\ SumOf(call, D \cup {x}) = SumOf(call, D) + Val(call, x)
            /\ SumOf(call, D) \in Int
        BY <3>1, <4>1, SumAdds
      <4> QED
        BY <3>1, <4>2
    <3>5. 0 <= SumOf(call, D)
      <4>1. D \in SUBSET D
        OBVIOUS
      <4> QED
        BY <3>1, <3>2, <4>1, SumGrows
    <3> DEFINE total == SumOf(call, D)  total2 == SumOf(call, D')
               old == stars[id]  new == stars'[id]
    <3>6. (old # NoRow => old <= total) => (new # NoRow => new <= total2)
      <4>1. /\ total2 = total + v /\ total \in Int /\ 0 <= total /\ v \in Nat
            /\ new = old \/ new = (IF old = NoRow THEN v ELSE old + v)
            /\ old # NoRow => old \in Int
        BY <2>0, <2>1, <3>3, <3>4, <3>5 DEF v
      <4> HIDE DEF total, total2, old, new
      <4>2. CASE old = NoRow
        BY <4>1, <4>2
      <4>3. CASE old # NoRow
        BY <4>1, <4>3
      <4> QED
        BY <4>2, <4>3
    <3> QED
      BY <1>1, <3>6 DEF StarsCounted, D
  <2>2. CASE ~(m = "RateCustomRanking" /\ mine)
    <3>1. D' = D
      BY <1>3, <2>2 DEF AllMethods
    <3> QED
      BY <1>1, <2>2, <3>1 DEF StarsCounted
  <2> QED
    BY <2>1, <2>2
<1>8. BuffersKept(id)'
  <2> DEFINE D == Done("AddToBufferQueues", id)
  <2>1. CASE m = "AddToBufferQueues" /\ mine
    <3>1. D' = D \cup {x} /\ Val(call, x) = v
      BY <1>3, <2>1 DEF AllMethods
    <3> DEFINE new == [by |-> call[r].pid, val |-> v]
    <3>2. queue'[id] = {e \in queue[id] : e.val # v} \cup {new} /\ new.val = v
      BY <2>1
    <3> HIDE DEF D, v, new
    <3>3. \A e, f \in queue'[id] : e.val = f.val => e = f
      BY <1>1, <3>2 DEF Tally, BuffersKept
    <3>4. \A k \in D' : \E e \in queue'[id] : e.val = Val(call, k)
      <4> SUFFICES ASSUME NEW k \in D' PROVE \E e \in queue'[id] : e.val = Val(call, k)
        OBVIOUS
      <4>1. CASE Val(call, k) = v
        BY <3>2, <4>1
      <4>2. CASE Val(call, k) # v
        <5>1. k \in D
          BY <3>1, <4>2
        <5>2. PICK e \in queue[id] : e.val = Val(call, k)
          BY <1>1, <5>1 DEF Tally, BuffersKept, D
        <5> QED
          BY <3>2, <4>2, <5>2
      <4> QED
        BY <4>1, <4>2
    <3> QED
      BY <1>1, <3>3, <3>4 DEF BuffersKept, D
  <2>2. CASE ~(m = "AddToBufferQueues" /\ mine)
    <3>1. D' = D
      BY <1>3, <2>2 DEF AllMethods
    <3> QED
      BY <1>1, <2>2, <3>1 DEF Tally, BuffersKept
  <2> QED
    BY <2>1, <2>2
<1> QED
  BY <1>1, <1>2, <1>6, <1>7, <1>8 DEF Tally

\* The steps of a request.
LEMMA StepTallied ==
  ASSUME IInv, TallyInv, NEW r \in Requests, Step(r) \/ StatementFails(r), NEW id \in Courses
  PROVE  Tally(id)'
<1>1. TypeOK /\ RequestOK(r) /\ Moved(r)
  BY WriteMoves, FailureMoves DEF IInv, Step
<1>2. /\ pc[r] \notin Ended \cup {"idle"} /\ call' = call /\ ItemOf(r).id \in Courses
      /\ call[r].method \in MethodsAt(pc[r])
      /\ Mentions(call[r].method, ItemOf(r).id) # {}
  BY <1>1, ItemInList, ItemIsMentioned DEF Moved, RequestOK
<1> DEFINE m == call[r].method  mine == (ItemOf(r).id = id)
<1>3. \A label \in {"write", "error", "check", "ratings", "record", "ok"} : label \in Labels
  BY DEF Labels
<1>4. CASE Info(r) \/ (StatementFails(r) /\ m \notin {"RateCustomRanking", "handleImport"})
  <2>1. \E label \in {"write", "error", "check"} : Goto(r, label)
    <3>1. CASE Info(r)
      BY <3>1 DEF Info
    <3>2. CASE StatementFails(r) /\ m \notin {"RateCustomRanking", "handleImport"}
      BY <1>2, <3>2 DEF StatementFails, MethodsAt
    <3> QED
      BY <1>4, <3>1, <3>2
  <2>2. UNCHANGED <<queue, ratings, stars>>
    BY <1>4 DEF Info, StatementFails, tables
  <2> QED
    BY <1>1, <1>3, <2>1, <2>2, UncountedStep
<1>5. CASE Check(r) /\ ~NextItem(r)
  <2>1. \E label \in {"write", "error"} : Goto(r, label)
    BY <1>5 DEF Check
  <2>2. UNCHANGED <<queue, ratings, stars>>
    BY <1>5 DEF Check, tables
  <2> QED
    BY <1>1, <1>3, <2>1, <2>2, UncountedStep
<1>6. CASE WriteRecord(r) \/ WriteMeta(r) \/ ImportRecord(r)
  <2>1. Goto(r, "ok") /\ m \notin Tallied
    BY <1>2, <1>6 DEF WriteRecord, WriteMeta, ImportRecord, Tallied, MethodsAt
  <2>2. UNCHANGED <<queue, ratings, stars>>
    BY <1>6 DEF WriteRecord, WriteMeta, ImportRecord, tables
  <2> QED
    BY <1>1, <1>3, <2>1, <2>2, UncountedStep
<1>7. CASE ImportStars(r) \/ ImportRatings(r)
  <2>1. Goto(r, "ratings") \/ Goto(r, "record")
    BY <1>7 DEF ImportStars, ImportRatings
  <2>2. UNCHANGED queue /\ (~mine => stars'[id] = stars[id] /\ ratings'[id] = ratings[id])
    BY <1>1, <1>7 DEF ImportStars, ImportRatings, TypeOK
  <2>3. m = "handleImport"
    BY <1>2, <1>7 DEF ImportStars, ImportRatings, MethodsAt
  <2>4. PlayersOnly(id) => ~mine
    BY <1>2, <2>3 DEF PlayersOnly
  <2> QED
    BY <1>1, <1>3, <2>1, <2>2, <2>4, UncountedStep
<1>8. CASE StatementFails(r) /\ m = "handleImport"
  <2>1. \E label \in {"ratings", "record", "ok"} : Goto(r, label)
    BY <1>8 DEF StatementFails
  <2>2. UNCHANGED <<queue, ratings, stars>> /\ m \notin Tallied
    BY <1>8 DEF StatementFails, tables, Tallied
  <2> QED
    BY <1>1, <1>3, <2>1, <2>2, UncountedStep
<1>9. CASE NextItem(r) /\ UNCHANGED tables /\ m = "RateCustomRanking"
  <2>1. UNCHANGED <<queue, ratings, stars>>
    BY <1>9 DEF tables
  <2>2. mine \in BOOLEAN
    OBVIOUS
  <2> QED
    BY <1>1, <1>9, <2>1, <2>2, CountedStep
<1>10. CASE WriteStars(r)
  <2>1. /\ NextItem(r) /\ UNCHANGED <<ratings, queue>> /\ mine \in BOOLEAN
        /\ m \in {"RateCustomRanking", "handleStars"}
        /\ stars'[id] = IF mine THEN IF stars[id] = NoRow THEN ItemOf(r).val
                                     ELSE stars[id] + ItemOf(r).val
                        ELSE stars[id]
    BY <1>1, <1>2, <1>10 DEF WriteStars, TypeOK
  <2>2. PlayersOnly(id) /\ mine => m # "handleStars"
    BY <1>2 DEF PlayersOnly
  <2> QED
    BY <1>1, <2>1, <2>2, CountedStep
<1>11. CASE WriteRating(r)
  <2>1. /\ NextItem(r) \/ DoneButFails(r)
        /\ UNCHANGED <<stars, queue>> /\ mine \in BOOLEAN /\ m = "rateObjects"
        /\ ratings'[id] = IF mine THEN IF ratings[id] = NoRow THEN NoRow
                                       ELSE [total |-> ratings[id].total + ItemOf(r).val,
                                             count |-> ratings[id].count + 1]
                          ELSE ratings[id]
    BY <1>1, <1>2, <1>11 DEF WriteRating, TypeOK
  <2>2. mine /\ ratings'[id] # NoRow =>
          ratings[id] # NoRow /\ ratings'[id].count = ratings[id].count + 1
    BY <2>1
  <2> QED
    BY <1>1, <2>1, <2>2, CountedStep
<1>12. CASE WriteBuffer(r)
  <2>1. /\ NextItem(r) /\ UNCHANGED <<stars, ratings>> /\ mine \in BOOLEAN
        /\ m = "AddToBufferQueues"
        /\ queue'[id] = IF mine THEN {e \in queue[id] : e.val # ItemOf(r).val}
                                       \cup {[by |-> call[r].pid, val |-> ItemOf(r).val]}
                        ELSE queue[id]
    BY <1>1, <1>2, <1>12 DEF WriteBuffer, TypeOK
  <2> QED
    BY <1>1, <2>1, CountedStep
<1> QED
  <2>1. Check(r) /\ NextItem(r) => UNCHANGED tables /\ m = "RateCustomRanking"
    BY <1>2, <1>1 DEF Check, NextItem, Goto, TypeOK
  <2>2. StatementFails(r) /\ m = "RateCustomRanking" => NextItem(r) /\ UNCHANGED tables
    BY <1>2 DEF StatementFails, MethodsAt
  <2> QED
    BY <1>4, <1>5, <1>6, <1>7, <1>8, <1>9, <1>10, <1>11, <1>12, <2>1, <2>2 DEF Step

LEMMA InitTallied == Init => TallyInv
<1> SUFFICES ASSUME Init PROVE TallyInv
  OBVIOUS
<1>1. Active = {} /\ \A m, id : Done(m, id) = {}
  BY DEF Init, Active, Done, Mentions, Asked
<1>2. IsFiniteSet(Active) /\ Cardinality({}) = 0
  BY <1>1, FS_EmptySet
<1>3. ASSUME NEW id \in Courses PROVE Tally(id)
  <2>1. ratings[id] = NoRow \/ ratings[id].count = 0
    <3>1. PICK kind \in [Courses -> {NoRow, [total |-> 0, count |-> 0]}] : ratings = kind
      BY DEF Init
    <3>2. kind[id] \in {NoRow, [total |-> 0, count |-> 0]}
      OBVIOUS
    <3> QED
      BY <3>1, <3>2
  <2>2. stars[id] = NoRow /\ queue[id] = {}
    BY DEF Init
  <2> QED
    BY <1>1, <1>2, <2>1, <2>2 DEF Tally, BuffersKept, RatingsCounted, StarsCounted
<1> QED
  BY <1>2, <1>3, InitScores DEF TallyInv

LEMMA TallyStepOK == IInv /\ TallyInv /\ [Next]_vars => TallyInv'
<1> SUFFICES ASSUME IInv, TallyInv, [Next]_vars PROVE TallyInv'
  OBVIOUS
<1>1. ScoresOK'
  BY GoesOnward DEF TallyInv
<1>2. ASSUME NEW r \in Requests, Receive(r)
      PROVE  IsFiniteSet(Active)' /\ \A id \in Courses : Tally(id)'
  BY <1>2, ReceiveTallied
<1>3. ASSUME NEW r \in Requests, Step(r) \/ StatementFails(r)
      PROVE  IsFiniteSet(Active)' /\ \A id \in Courses : Tally(id)'
  <2>1. Moved(r)
    BY <1>3, WriteMoves, FailureMoves DEF Step
  <2>2. \A q \in Requests : pc'[q] # "idle" <=> pc[q] # "idle"
    BY <2>1, MovedOK
  <2>3. Active' = Active
    BY <2>2 DEF Active
  <2> QED
    BY <1>3, <2>3, StepTallied DEF TallyInv
<1>4. ASSUME ObjectStep \/ (\E o \in Reviewable : Moderate(o)) \/ UNCHANGED vars
      PROVE  IsFiniteSet(Active)' /\ \A id \in Courses : Tally(id)'
  <2>1. UNCHANGED <<ratings, stars, queue, pc, call, at>>
    BY <1>4 DEF ObjectStep, Moderate, tables, vars
  <2>2. Active' = Active /\ \A m, id : Mentions(m, id)' = Mentions(m, id)
    BY <2>1 DEF Active, Mentions, Asked
  <2>3. \A m, id : Done(m, id)' = Done(m, id)
    BY <2>1, <2>2 DEF Done
  <2>4. ASSUME NEW id \in Courses PROVE Tally(id)'
    <3>1. PlayersOnly(id)' = PlayersOnly(id)
      BY <2>2 DEF PlayersOnly
    <3>2. \A m \in Tallied : Agree(call, call', Done(m, id))
      BY <2>1 DEF Agree
    <3> QED
      BY <2>1, <2>3, <3>1, <3>2, TallyStays DEF TallyInv
  <2> QED
    BY <2>2, <2>4 DEF TallyInv
<1> QED
  BY <1>1, <1>2, <1>3, <1>4 DEF Next, TallyInv

LEMMA ActivityTallies == Spec => [](IInv /\ TallyInv)
<1>1. Init => IInv /\ TallyInv
  BY InitOK, InitTallied
<1>2. IInv /\ TallyInv /\ [Next]_vars => (IInv /\ TallyInv)'
  BY StepOK, TallyStepOK
<1> QED
  BY <1>1, <1>2, PTL DEF Spec

\* What was answered with success is done, and what is done was sent.
LEMMA TalliesBound == IInv /\ TallyInv => CountedOnce
<1> SUFFICES ASSUME IInv, TallyInv, NEW id \in Courses, PlayersOnly(id)
             PROVE  /\ LET sent == Mentions("rateObjects", id)
                           answered == {m \in sent : pc[m[1]] = "ok"}
                       IN ratings[id] # NoRow =>
                            ratings[id].count \in Cardinality(answered)..Cardinality(sent)
                    /\ LET Value(m) == call[m[1]].items[m[2]].val
                       IN stars[id] # NoRow =>
                            stars[id] <= MapThenSumSet(Value, Mentions("RateCustomRanking", id))
                    /\ \A m \in Mentions("AddToBufferQueues", id) : pc[m[1]] = "ok" =>
                         Cardinality({e \in queue[id] :
                                        e.val = call[m[1]].items[m[2]].val}) = 1
  BY DEF CountedOnce
<1>1. Tally(id) /\ IsFiniteSet(Active) /\ ScoresOK /\ TypeOK
  BY DEF TallyInv, IInv
<1>2. ASSUME ratings[id] # NoRow
      PROVE  ratings[id].count \in
               Cardinality({m \in Mentions("rateObjects", id) : pc[m[1]] = "ok"})
                 ..Cardinality(Mentions("rateObjects", id))
  <2> DEFINE sent == Mentions("rateObjects", id)  done == Done("rateObjects", id)
             answered == {m \in sent : pc[m[1]] = "ok"}
  <2>1. answered \subseteq done /\ done \subseteq sent /\ IsFiniteSet(done) /\ IsFiniteSet(sent)
    BY <1>1, MentionsFinite DEF Done
  <2>2. ratings[id].count = Cardinality(done)
    BY <1>1, <1>2 DEF Tally, RatingsCounted
  <2> HIDE DEF sent, done, answered
  <2>3. Cardinality(answered) <= Cardinality(done) /\ Cardinality(done) <= Cardinality(sent)
    BY <2>1, FS_Subset
  <2>4. /\ Cardinality(answered) \in Int /\ Cardinality(done) \in Int
        /\ Cardinality(sent) \in Int
    BY <2>1, FS_Subset, FS_CardinalityType
  <2>5. Cardinality(done) \in Cardinality(answered)..Cardinality(sent)
    BY <2>3, <2>4
  <2> QED
    BY <2>2, <2>5 DEF answered, sent
<1>3. ASSUME stars[id] # NoRow
      PROVE  stars[id] <= SumOf(call, Mentions("RateCustomRanking", id))
  <2> DEFINE sent == Mentions("RateCustomRanking", id)  done == Done("RateCustomRanking", id)
  <2>1. done \in SUBSET sent /\ IsFiniteSet(sent) /\ \A k \in sent : Val(call, k) \in Nat
    BY <1>1, MentionsFinite
  <2>2. stars[id] <= SumOf(call, done) /\ stars[id] \in Int
    BY <1>1, <1>3 DEF Tally, StarsCounted, TypeOK
  <2> HIDE DEF sent, done
  <2>3. SumOf(call, done) <= SumOf(call, sent) /\ SumOf(call, done) \in Int
    BY <2>1, SumGrows
  <2>4. SumOf(call, sent) \in Int
    <3>1. sent \in SUBSET sent
      OBVIOUS
    <3> QED
      BY <2>1, <3>1, SumGrows
  <2>5. stars[id] <= SumOf(call, sent)
    BY <2>2, <2>3, <2>4
  <2> QED
    BY <2>5 DEF sent
<1>4. LET Value(m) == call[m[1]].items[m[2]].val
      IN stars[id] # NoRow =>
           stars[id] <= MapThenSumSet(Value, Mentions("RateCustomRanking", id))
  <2> DEFINE S == Mentions("RateCustomRanking", id)
  <2>1. LET Value(m) == call[m[1]].items[m[2]].val IN MapThenSumSet(Value, S) = SumOf(call, S)
    BY SumIsMapped
  <2>2. stars[id] # NoRow => stars[id] <= SumOf(call, S)
    BY <1>3
  <2> HIDE DEF S
  <2>3. LET Value(m) == call[m[1]].items[m[2]].val
        IN stars[id] # NoRow => stars[id] <= MapThenSumSet(Value, S)
    BY <2>1, <2>2
  <2> QED
    BY <2>3 DEF S
<1>5. ASSUME NEW k \in Mentions("AddToBufferQueues", id), pc[k[1]] = "ok"
      PROVE  Cardinality({e \in queue[id] : e.val = call[k[1]].items[k[2]].val}) = 1
  <2> DEFINE v == call[k[1]].items[k[2]].val
  <2>1. k \in Done("AddToBufferQueues", id)
    BY <1>5 DEF Done
  <2>2. PICK f \in queue[id] : f.val = v
    BY <1>1, <2>1 DEF Tally, BuffersKept, Val
  <2>3. \A e \in queue[id] : e.val = f.val => e = f
    BY <1>1 DEF Tally, BuffersKept
  <2> HIDE DEF v
  <2>4. {e \in queue[id] : e.val = v} = {f}
    BY <2>2, <2>3
  <2>5. Cardinality({e \in queue[id] : e.val = v}) = 1
    BY <2>4, FS_Singleton
  <2> QED
    BY <2>5 DEF v
<1> QED
  BY <1>2, <1>4, <1>5

\* However requests are interleaved, fail or stop, ratings and stars are counted
\* once per item and a buffer is in its queue once (rateObjects,
\* RateCustomRanking, AddToBufferQueues).
THEOREM CountedOnceHolds == Spec => []CountedOnce
<1>1. IInv /\ TallyInv => CountedOnce
  BY TalliesBound
<1> QED
  BY <1>1, ActivityTallies, PTL
=============================================================================

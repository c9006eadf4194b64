------------------------ MODULE CourseImport_proofs ------------------------
(***************************************************************************)
(* Proofs about CourseImport, for any number of imports and requests: type *)
(* correctness, that no data id is given to two creators however often the *)
(* id sequence goes back, that an imported course keeps its file, that     *)
(* imports make no reply to a request untrue, and the refinement of        *)
(* ObjectLifecycle.                                                        *)
(***************************************************************************)
EXTENDS CourseImport, DataStore_proofs

\* The labels of an import that has its row.
Creating == {"lastvalue", "setval", "ranking", "ratings", "file", "thumbnail",
             "attach", "stars", "metadata", "ok"}

\* A running import has its submission, and past the INSERT a data id.
CourseOK == \A i \in Imports :
  /\ ipc[i] # "idle" => course[i] \in Course
  /\ ipc[i] \in Creating => made[i] \in DataIds

\* A creator's row is there.
CreatedExist == \A id \in DataIds : Creators(id) # {} => Exists(id)

ImportInv == /\ ImportTypeOK /\ PathOK /\ WorkOK /\ CourseOK
             /\ CreatedExist /\ OneCreator

\* The prepare requests past their INSERT.
Prepared(id) == {r \in Requests : /\ pc[r] # "idle" /\ call[r].method \in PrepareMethods
                                  /\ ids[r] = <<id>>}
-----------------------------------------------------------------------------
\* A crash is one of DataStore, or finds no request in flight.
LEMMA CrashIsNext ==
  ASSUME TypeOK, CrashAll
  PROVE  [Next]_vars
<1>1. CASE \E r \in Requests : InFlight(r)
  BY <1>1 DEF CrashAll, Crash, Next
<1>2. CASE ~ \E r \in Requests : InFlight(r)
  <2>1. pc' = pc
    BY <1>2 DEF CrashAll, TypeOK
  <2> QED
    BY <2>1 DEF CrashAll, vars, dbVars
<1> QED
  BY <1>1, <1>2

\* What is not a step of an import is one of the players, or none.
LEMMA PlayersOrImport ==
  ASSUME TypeOK, [ImportNext]_allVars
  PROVE  \/ [Next]_vars /\ UNCHANGED <<made, attach, course, ranked, unseeded, lastRead>>
            /\ (UNCHANGED ipc \/ CrashAll)
         \/ \E i \in Imports : ReceiveImport(i) \/ ImportStep(i) \/ ErrorIgnored(i)
                                 \/ ErrorReported(i)
<1>1. CASE PlayerNext
  BY <1>1 DEF PlayerNext, Next, importVars
<1>2. CASE CrashAll
  BY <1>2, CrashIsNext DEF CrashAll
<1>3. CASE UNCHANGED allVars
  BY <1>3 DEF allVars, importVars, vars
<1> QED
  BY <1>1, <1>2, <1>3 DEF ImportNext, AdminNext

\* An import does not touch the requests.
LEMMA RequestsAlone ==
  ASSUME NEW i \in Imports,
         ReceiveImport(i) \/ ImportStep(i) \/ ErrorIgnored(i) \/ ErrorReported(i)
  PROVE  UNCHANGED <<pc, call, ids, todo, seen, grants>>
BY DEF ReceiveImport, ImportStep, ErrorIgnored, ErrorReported, InsertExplicit,
       InsertAuto, InsertConflict, ReadLastValue, SetVal, InsertRanking, SeedRating,
       RatingsSeeded, PutFile, PutThumbnail, RegisterAttach, vars, reqVars

\* The row an import writes is well-formed.
LEMMA ImportedRowType ==
  ASSUME NEW i \in Imports, course[i] \in Course
  PROVE  /\ ImportedRow(i) \in Row /\ ImportedRow(i).owner = course[i].owner
         /\ ImportedRow(i).completed /\ ~ImportedRow(i).deleted
BY DataAssumption DEF ImportedRow, NewRow, Row, Course

\* An import changes no row; at most it adds one.
LEMMA ImportAddsRow ==
  ASSUME CourseOK, NEW i \in Imports,
         ReceiveImport(i) \/ ImportStep(i) \/ ErrorIgnored(i) \/ ErrorReported(i)
  PROVE  \/ UNCHANGED rows
         \/ \E n \in DataIds : ~Exists(n) /\ rows' = [rows EXCEPT ![n] = ImportedRow(i)]
<1>1. InsertExplicit(i) => course[i].id \in DataIds
  BY DEF InsertExplicit, CourseOK, Course
<1> QED
  BY <1>1 DEF ReceiveImport, ImportStep, ErrorIgnored, ErrorReported, InsertExplicit,
     InsertAuto, InsertConflict, ReadLastValue, SetVal, InsertRanking, SeedRating,
     RatingsSeeded, PutFile, PutThumbnail, RegisterAttach, vars, dbVars

\* Every step keeps the types, of the players' side and of the imports'.
LEMMA ImportTypeNext ==
  ASSUME ImportTypeOK, PathOK, WorkOK, CourseOK, [ImportNext]_allVars
  PROVE  ImportTypeOK'
<1> USE DEF ImportTypeOK, ImportGoto, ImportLabels, vars, dbVars, reqVars
<1>0. course \in [Imports -> Course \cup {NoCall}] /\ Courses \subseteq Course
  BY ImportAssumption
<1>1. CASE /\ [Next]_vars /\ UNCHANGED <<made, attach, course, ranked, unseeded, lastRead>>
           /\ (UNCHANGED ipc \/ CrashAll)
  <2>1. TypeOK'
    BY <1>1, NextType
  <2>2. ipc' \in [Imports -> ImportLabels]
    BY <1>1 DEF CrashAll
  <2> QED
    BY <1>1, <2>1, <2>2
<1>2. ASSUME NEW i \in Imports, ReceiveImport(i) PROVE ImportTypeOK'
  BY <1>2, <1>0 DEF ReceiveImport, TypeOK
<1>3. ASSUME NEW i \in Imports, InsertExplicit(i) PROVE ImportTypeOK'
  <2>1. course[i] \in Course /\ course[i].id \in DataIds
    BY <1>3 DEF InsertExplicit, CourseOK, Course
  <2>2. rows' \in [DataIds -> Row \cup {NoRow}]
    BY <1>3, <2>1, ImportedRowType DEF InsertExplicit, TypeOK
  <2> QED
    BY <1>3, <2>1, <2>2 DEF InsertExplicit, TypeOK
<1>4. ASSUME NEW i \in Imports, InsertAuto(i) PROVE ImportTypeOK'
  <2>1. course[i] \in Course
    BY <1>4 DEF InsertAuto, CourseOK
  <2>2. rows' \in [DataIds -> Row \cup {NoRow}]
    BY <1>4, <2>1, ImportedRowType DEF InsertAuto, TypeOK
  <2>3. /\ lastId + 1 \in DataIds /\ made \in [Imports -> DataIds \cup {AutoId}]
        /\ made' = [made EXCEPT ![i] = lastId + 1] /\ lastId' = lastId + 1
    BY <1>4 DEF InsertAuto
  <2>4. lastId' \in Nat /\ made' \in [Imports -> DataIds \cup {AutoId}]
    BY <2>3, DataAssumption
  <2>5. ipc' \in [Imports -> ImportLabels]
    BY <1>4 DEF InsertAuto
  <2>6. /\ ratings' \in [DataIds -> SUBSET Slots] /\ s3' \in [Keys -> Sizes \cup {NoFile}]
        /\ UNCHANGED <<grants, pc, call, ids, todo, seen>>
        /\ UNCHANGED <<course, attach, unseeded, lastRead, ranked>>
    <3>1. UNCHANGED <<ratings, s3, grants, reqVars, course, attach, unseeded, lastRead, ranked>>
      BY <1>4 DEF InsertAuto
    <3>2. ratings \in [DataIds -> SUBSET Slots] /\ s3 \in [Keys -> Sizes \cup {NoFile}]
      BY DEF TypeOK
    <3> QED
      BY <3>1, <3>2
  <2>7. TypeOK'
    BY <2>2, <2>4, <2>6 DEF TypeOK
  <2> QED
    BY <2>4, <2>5, <2>6, <2>7
<1>5a. ASSUME NEW i \in Imports, InsertConflict(i) PROVE ImportTypeOK'
  <2>1. lastId' \in Nat
    BY <1>5a DEF InsertConflict, TypeOK
  <2> QED
    BY <1>5a, <2>1 DEF InsertConflict, TypeOK
<1>5b. ASSUME NEW i \in Imports, ReadLastValue(i) \/ RatingsSeeded(i) \/ ErrorReported(i)
       PROVE  ImportTypeOK'
  <2>1. CASE ReadLastValue(i)
    BY <2>1 DEF ReadLastValue, TypeOK
  <2>2. CASE RatingsSeeded(i)
    <3>1. ipc' \in [Imports -> ImportLabels]
      BY <2>2 DEF RatingsSeeded, AfterRatings
    <3> QED
      BY <2>2, <3>1 DEF RatingsSeeded, TypeOK
  <2>3. CASE ErrorReported(i)
    BY <2>3 DEF ErrorReported, TypeOK
  <2> QED
    BY <1>5b, <2>1, <2>2, <2>3
<1>5c. ASSUME NEW i \in Imports, ErrorIgnored(i) PROVE ImportTypeOK'
  <2>1. ipc' \in [Imports -> ImportLabels]
    BY <1>5c DEF ErrorIgnored, AfterRatings, AfterThumbnail
  <2> QED
    BY <1>5c, <2>1 DEF ErrorIgnored, TypeOK
<1>6. ASSUME NEW i \in Imports, SetVal(i) PROVE ImportTypeOK'
  <2>1. made[i] \in Nat /\ lastRead[i] \in Nat
    BY <1>6, DataAssumption, ImportAssumption
  <2> QED
    BY <1>6, <2>1 DEF SetVal, TypeOK
<1>7a. ASSUME NEW i \in Imports, InsertRanking(i) PROVE ImportTypeOK'
  <2>1. made[i] \in DataIds
    BY <1>7a DEF InsertRanking, CourseOK, Creating
  <2> QED
    BY <1>7a, <2>1 DEF InsertRanking, TypeOK
<1>7b. ASSUME NEW i \in Imports, SeedRating(i) PROVE ImportTypeOK'
  <2>1. PICK slot \in unseeded[i] :
          /\ ratings' = [ratings EXCEPT ![made[i]] = @ \cup {slot}]
          /\ unseeded' = [unseeded EXCEPT ![i] = @ \ {slot}]
    BY <1>7b DEF SeedRating
  <2>2. slot \in Slots
    OBVIOUS
  <2>3. ratings' \in [DataIds -> SUBSET Slots] /\ unseeded' \in [Imports -> SUBSET Slots]
    BY <2>1, <2>2 DEF TypeOK
  <2> QED
    BY <1>7b, <2>3 DEF SeedRating, TypeOK
<1>8. ASSUME NEW i \in Imports, PutFile(i) \/ PutThumbnail(i) PROVE ImportTypeOK'
  <2>1. course[i].size \in Sizes
    BY <1>8 DEF PutFile, PutThumbnail, CourseOK, Course
  <2>2. s3' \in [Keys -> Sizes \cup {NoFile}]
    BY <1>8, <2>1 DEF PutFile, PutThumbnail, TypeOK
  <2> QED
    BY <1>8, <2>2 DEF PutFile, PutThumbnail, TypeOK
<1>9. ASSUME NEW i \in Imports, RegisterAttach(i) PROVE ImportTypeOK'
  <2>1. course[i] \in Course
    BY <1>9 DEF RegisterAttach, CourseOK
  <2>2. rows' \in [DataIds -> Row \cup {NoRow}] /\ attach' \in [Imports -> DataIds \cup {AutoId}]
    BY <1>9, <2>1, ImportedRowType DEF RegisterAttach, TypeOK
  <2>3. ipc' \in [Imports -> ImportLabels] /\ lastId' \in Nat
    BY <1>9 DEF RegisterAttach, AfterThumbnail, TypeOK
  <2> QED
    BY <1>9, <2>2, <2>3 DEF RegisterAttach, TypeOK
<1> QED
  BY <1>1, <1>2, <1>3, <1>4, <1>5a, <1>5b, <1>5c, <1>6, <1>7a, <1>7b, <1>8, <1>9,
     PlayersOrImport DEF ImportStep

\* Imports leave the requests on their paths.
LEMMA RequestsNext ==
  ASSUME ImportTypeOK, PathOK, WorkOK, [ImportNext]_allVars
  PROVE  PathOK' /\ WorkOK'
<1>1. CASE [Next]_vars
  BY <1>1, PathNext, WorkNext DEF ImportTypeOK
<1>2. CASE UNCHANGED <<pc, call, ids>>
  BY <1>2 DEF PathOK, WorkOK
<1> QED
  BY <1>1, <1>2, PlayersOrImport, RequestsAlone DEF ImportTypeOK

\* An import keeps its submission and, from its INSERT on, its data id.
LEMMA CourseNext ==
  ASSUME ImportTypeOK, CourseOK, [ImportNext]_allVars
  PROVE  CourseOK'
<1> USE DEF ImportTypeOK, ImportGoto
<1> DEFINE C(j) == /\ ipc[j] # "idle" => course[j] \in Course
                   /\ ipc[j] \in Creating => made[j] \in DataIds
<1> SUFFICES ASSUME NEW j \in Imports
             PROVE  C(j)'
  BY DEF CourseOK
<1>0. C(j)
  BY DEF CourseOK
<1>1. CASE UNCHANGED <<made, course>> /\ (UNCHANGED ipc \/ CrashAll)
  BY <1>0, <1>1 DEF CrashAll, Importing, ImportEnded, Creating
<1>2. ASSUME NEW i \in Imports, ReceiveImport(i) PROVE C(j)'
  BY <1>0, <1>2, ImportAssumption DEF ReceiveImport, Creating
<1>3. ASSUME NEW i \in Imports, InsertExplicit(i) PROVE C(j)'
  <2>1. course[i].id \in DataIds
    BY <1>3 DEF InsertExplicit, CourseOK, Course
  <2> QED
    BY <1>0, <1>3, <2>1 DEF InsertExplicit
<1>4. ASSUME NEW i \in Imports, InsertAuto(i) PROVE C(j)'
  BY <1>0, <1>4 DEF InsertAuto
<1>5. ASSUME NEW i \in Imports,
             \/ InsertConflict(i) \/ ReadLastValue(i) \/ SetVal(i) \/ InsertRanking(i)
             \/ SeedRating(i) \/ RatingsSeeded(i) \/ PutFile(i) \/ PutThumbnail(i)
             \/ RegisterAttach(i) \/ ErrorIgnored(i) \/ ErrorReported(i)
      PROVE C(j)'
  <2>1. UNCHANGED <<made, course>>
    BY <1>5 DEF InsertConflict, ReadLastValue, SetVal, InsertRanking, SeedRating,
         RatingsSeeded, PutFile, PutThumbnail, RegisterAttach, ErrorIgnored, ErrorReported
  <2>2. \/ ipc'[j] = ipc[j]
        \/ ipc[j] \in Creating
        \/ ipc[j] # "idle" /\ ipc'[j] \notin Creating
    BY <1>5 DEF InsertConflict, ReadLastValue, SetVal, InsertRanking, SeedRating,
         RatingsSeeded, PutFile, PutThumbnail, RegisterAttach, ErrorIgnored, ErrorReported,
         Creating
  <2>3. ipc[j] # "idle" \/ ipc'[j] = ipc[j]
    BY <2>2 DEF Creating
  <2> QED
    BY <1>0, <2>1, <2>2, <2>3
<1> QED
  BY <1>1, <1>2, <1>3, <1>4, <1>5, PlayersOrImport DEF ImportStep
-----------------------------------------------------------------------------
\* The creators of a row, taken apart.
LEMMA CreatorsAre ==
  ASSUME NEW id
  PROVE  /\ Creators(id) = ({"player"} \X Prepared(id))
                           \cup ({"course"} \X {i \in Imports : made[i] = id})
                           \cup ({"thumbnail"} \X {i \in Imports : attach[i] = id})
         /\ Creators(id)' = ({"player"} \X Prepared(id)')
                           \cup ({"course"} \X {i \in Imports : made'[i] = id})
                           \cup ({"thumbnail"} \X {i \in Imports : attach'[i] = id})
BY DEF Creators, Prepared

\* A request becomes the creator of the row its INSERT writes, and of no other.
LEMMA PreparedNext ==
  ASSUME TypeOK, PathOK, WorkOK, [Next]_vars, NEW id \in DataIds
  PROVE  \/ Prepared(id)' \subseteq Prepared(id)
         \/ \E r \in Requests : /\ ~Exists(id) /\ Exists(id)'
                                /\ Prepared(id)' \subseteq Prepared(id) \cup {r}
<1>1. ASSUME NEW q \in Requests, q \in Prepared(id)', q \notin Prepared(id)
      PROVE  InsertObject(q) /\ id = lastId + 1
  <2>1. pc'[q] # "idle" /\ call'[q].method \in PrepareMethods /\ ids'[q] = <<id>>
    BY <1>1 DEF Prepared
  <2>2. ~Arrive(q)
    BY <2>1, ArriveStarts
  <2>3. ~UNCHANGED <<pc[q], call[q], ids[q]>>
    BY <1>1, <2>1 DEF Prepared
  <2>4. pc[q] # "idle" => ~UNCHANGED <<call[q], ids[q]>>
    BY <1>1, <2>1 DEF Prepared
  <2>5. InFlight(q) /\ Step(q)
    BY <2>2, <2>3, <2>4, Moves DEF InFlight
  <2>6. pc[q] # "idle" /\ call'[q] = call[q] /\ ids'[q] # ids[q]
    BY <2>4, <2>5, StepMoves DEF InFlight
  <2>7. pc[q] = "insert"
    BY <2>1, <2>5, <2>6, StepMoves DEF PathOK, MethodsAt, Ended, PrepareMethods
  <2>8. InsertObject(q)
    BY <2>5, <2>6, <2>7 DEF Step, InsertRefused, InitializeRating, ReplyPrepared,
       CheckNotUploaded, CheckOwner, ReadFileSize, CompareSizes, Publish,
       Delete, CheckAvailable, ReplyDownload, ReplyAttached
  <2>9. ids'[q] = <<lastId + 1>>
    BY <2>8 DEF InsertObject, TypeOK
  <2> QED
    BY <2>1, <2>8, <2>9
<1>2. CASE Prepared(id)' \subseteq Prepared(id)
  BY <1>2
<1>3. CASE ~(Prepared(id)' \subseteq Prepared(id))
  <2>1. PICK r \in Requests : r \in Prepared(id)' /\ r \notin Prepared(id)
    BY <1>3 DEF Prepared
  <2>2. InsertObject(r) /\ id = lastId + 1
    BY <1>1, <2>1
  <2>3. call[r].pid \in Pids /\ call[r].size \in Nat
    BY <2>2 DEF InsertObject, PathOK, Call
  <2>4. NewRow(call[r].pid, call[r].size) \in Row
    BY <2>3 DEF NewRow, Row
  <2>5. ~Exists(id) /\ Exists(id)'
    BY <2>2, <2>4, DataAssumption DEF InsertObject, Exists, TypeOK
  <2>6. ASSUME NEW q \in Requests, q # r PROVE ~InsertObject(q)
    <3>1. pc[r] = "insert" /\ pc'[r] = "rate"
      BY <2>2 DEF InsertObject, Goto, TypeOK
    <3> QED
      BY <2>6, <3>1 DEF InsertObject, Goto, TypeOK
  <2>7. Prepared(id)' \subseteq Prepared(id) \cup {r}
    BY <1>1, <2>6 DEF Prepared
  <2> QED
    BY <2>5, <2>7
<1> QED
  BY <1>2, <1>3

\* An import becomes the creator of the row its INSERT writes, and of no other.
LEMMA MadeNext ==
  ASSUME ImportTypeOK, CourseOK, NEW i \in Imports, NEW id \in DataIds,
         ReceiveImport(i) \/ ImportStep(i) \/ ErrorIgnored(i) \/ ErrorReported(i)
  PROVE  /\ \/ UNCHANGED <<made, attach>>
            \/ /\ UNCHANGED attach
               /\ \E n \in DataIds : /\ made' = [made EXCEPT ![i] = n] /\ ~Exists(n)
                                     /\ Exists(n)'
            \/ /\ UNCHANGED made
               /\ \E n \in DataIds : /\ attach' = [attach EXCEPT ![i] = n] /\ ~Exists(n)
                                     /\ Exists(n)'
         /\ Exists(id) => rows'[id] = rows[id]
<1> USE DEF ImportTypeOK, TypeOK, Exists, vars, dbVars
<1>1. CASE InsertExplicit(i)
  <2>1. course[i] \in Course /\ course[i].id \in DataIds
    BY <1>1 DEF InsertExplicit, CourseOK, Course
  <2>2. ImportedRow(i) # NoRow
    BY <2>1, ImportedRowType, DataAssumption
  <2> QED
    BY <1>1, <2>1, <2>2 DEF InsertExplicit
<1>2. CASE InsertAuto(i)
  <2>1. course[i] \in Course
    BY <1>2 DEF InsertAuto, CourseOK
  <2>2. ImportedRow(i) # NoRow
    BY <2>1, ImportedRowType, DataAssumption
  <2> QED
    BY <1>2, <2>2 DEF InsertAuto
<1>3. CASE RegisterAttach(i)
  <2>1. course[i] \in Course
    BY <1>3 DEF RegisterAttach, CourseOK
  <2>2. ImportedRow(i) # NoRow
    BY <2>1, ImportedRowType, DataAssumption
  <2> QED
    BY <1>3, <2>2 DEF RegisterAttach
<1>4. CASE UNCHANGED <<rows, made, attach>>
  BY <1>4
<1> QED
  BY <1>1, <1>2, <1>3, <1>4 DEF ImportStep, ReceiveImport, ErrorIgnored, ErrorReported,
     InsertConflict, ReadLastValue, SetVal, InsertRanking, SeedRating, RatingsSeeded,
     PutFile, PutThumbnail

\* Every step gives at most one creator to a row, which was not there before.
LEMMA CreatorsNext ==
  ASSUME ImportInv, [ImportNext]_allVars, NEW id \in DataIds
  PROVE  /\ \/ Creators(id)' \subseteq Creators(id)
            \/ \E c : /\ ~Exists(id) /\ Exists(id)'
                      /\ Creators(id)' \subseteq Creators(id) \cup {c}
         /\ Exists(id) => Exists(id)'
<1> USE DEF ImportInv, ImportTypeOK
<1>1. CASE [Next]_vars /\ UNCHANGED <<made, attach>>
  <2>1. Exists(id) => Exists(id)'
    BY <1>1, Monotonic
  <2>2. CASE Prepared(id)' \subseteq Prepared(id)
    BY <1>1, <2>1, <2>2, CreatorsAre
  <2>3. ASSUME NEW r \in Requests, ~Exists(id), Exists(id)',
               Prepared(id)' \subseteq Prepared(id) \cup {r}
        PROVE  \E c : /\ ~Exists(id) /\ Exists(id)'
                      /\ Creators(id)' \subseteq Creators(id) \cup {c}
    <3>1. Creators(id)' \subseteq Creators(id) \cup {<<"player", r>>}
      BY <1>1, <2>3, CreatorsAre
    <3> QED
      BY <2>3, <3>1
  <2> QED
    BY <1>1, <2>1, <2>2, <2>3, PreparedNext
<1>2. ASSUME NEW i \in Imports,
             ReceiveImport(i) \/ ImportStep(i) \/ ErrorIgnored(i) \/ ErrorReported(i)
      PROVE  /\ \/ Creators(id)' \subseteq Creators(id)
                \/ \E c : /\ ~Exists(id) /\ Exists(id)'
                          /\ Creators(id)' \subseteq Creators(id) \cup {c}
             /\ Exists(id) => Exists(id)'
  <2>1. Prepared(id)' = Prepared(id)
    BY <1>2, RequestsAlone DEF Prepared
  <2>2. Exists(id) => Exists(id)'
    BY <1>2, MadeNext DEF Exists
  <2>3. CASE UNCHANGED <<made, attach>>
    BY <2>1, <2>2, <2>3, CreatorsAre
  <2>4. ASSUME UNCHANGED attach, NEW n \in DataIds, made' = [made EXCEPT ![i] = n],
               ~Exists(n), Exists(n)'
        PROVE  \/ Creators(id)' \subseteq Creators(id)
               \/ \E c : /\ ~Exists(id) /\ Exists(id)'
                         /\ Creators(id)' \subseteq Creators(id) \cup {c}
    <3>1. {j \in Imports : made'[j] = id} \subseteq
            {j \in Imports : made[j] = id} \cup (IF n = id THEN {i} ELSE {})
      BY <2>4
    <3>2. Creators(id)' \subseteq
            Creators(id) \cup (IF n = id THEN {<<"course", i>>} ELSE {})
      BY <2>1, <2>4, <3>1, CreatorsAre
    <3> QED
      BY <2>4, <3>2
  <2>5. ASSUME UNCHANGED made, NEW n \in DataIds, attach' = [attach EXCEPT ![i] = n],
               ~Exists(n), Exists(n)'
        PROVE  \/ Creators(id)' \subseteq Creators(id)
               \/ \E c : /\ ~Exists(id) /\ Exists(id)'
                         /\ Creators(id)' \subseteq Creators(id) \cup {c}
    <3>1. {j \in Imports : attach'[j] = id} \subseteq
            {j \in Imports : attach[j] = id} \cup (IF n = id THEN {i} ELSE {})
      BY <2>5
    <3>2. Creators(id)' \subseteq
            Creators(id) \cup (IF n = id THEN {<<"thumbnail", i>>} ELSE {})
      BY <2>1, <2>5, <3>1, CreatorsAre
    <3> QED
      BY <2>5, <3>2
  <2> QED
    BY <1>2, <2>2, <2>3, <2>4, <2>5, MadeNext
<1> QED
  BY <1>1, <1>2, PlayersOrImport

\* At first there is no import and no creator.
LEMMA ImportInitInv == ImportInit => ImportInv
<1> SUFFICES ASSUME ImportInit PROVE ImportInv
  OBVIOUS
<1>1. TypeOK /\ PathOK /\ WorkOK
  BY InitInv DEF ImportInit, IInv, RequestInv
<1>2. ImportTypeOK /\ CourseOK
  BY <1>1 DEF ImportInit, ImportTypeOK, CourseOK, ImportLabels, Creating
<1>3. \A id \in DataIds : Creators(id) = {}
  BY ImportAssumption DEF ImportInit, Init, Creators
<1> QED
  BY <1>1, <1>2, <1>3 DEF ImportInv, CreatedExist, OneCreator

\* The invariant is inductive.
LEMMA ImportNextInv == ImportInv /\ [ImportNext]_allVars => ImportInv'
<1> SUFFICES ASSUME ImportInv, [ImportNext]_allVars PROVE ImportInv'
  OBVIOUS
<1>1. ImportTypeOK' /\ PathOK' /\ WorkOK' /\ CourseOK'
  BY ImportTypeNext, RequestsNext, CourseNext DEF ImportInv
<1>2. CreatedExist'
  <2> SUFFICES ASSUME NEW id \in DataIds, Creators(id)' # {} PROVE Exists(id)'
    BY DEF CreatedExist
  <2> QED
    BY CreatorsNext DEF ImportInv, CreatedExist
<1>3. OneCreator'
  <2> SUFFICES ASSUME NEW id \in DataIds, NEW c \in Creators(id)', NEW d \in Creators(id)'
               PROVE  c = d
    BY DEF OneCreator
  <2>1. ~Exists(id) => Creators(id) = {}
    BY DEF ImportInv, CreatedExist
  <2>2. \A a, b \in Creators(id) : a = b
    BY DEF ImportInv, OneCreator
  <2> QED
    BY <2>1, <2>2, CreatorsNext
<1> QED
  BY <1>1, <1>2, <1>3 DEF ImportInv

\* The tables and the imports keep their types, errors dropped or not.
THEOREM ImportTypeCorrect == ImportSpec => []ImportTypeOK
<1>1. ImportInv => ImportTypeOK
  BY DEF ImportInv
<1> QED
  BY <1>1, ImportInitInv, ImportNextInv, PTL DEF ImportSpec

\* However the id sequence is set back by concurrent imports, no data id is
\* ever given to two creators: a player's upload form never overwrites another
\* object's file, and an import never takes over a player's row.
THEOREM OneCreatorEach == ImportSpec => []OneCreator
<1>1. ImportInv => OneCreator
  BY DEF ImportInv
<1> QED
  BY <1>1, ImportInitInv, ImportNextInv, PTL DEF ImportSpec

\* A row an import writes is a published object from the start.
LEMMA ImportIsImport ==
  ASSUME ImportTypeOK, NEW i \in Imports, course[i] \in Course, NEW n \in DataIds,
         ~Exists(n), rows' = [rows EXCEPT ![n] = ImportedRow(i)]
  PROVE  Lifecycle!Next
<1>1. /\ rows'[n] = ImportedRow(i) /\ rows[n] = NoRow
      /\ \A j \in DataIds \ {n} : rows'[j] = rows[j]
  BY DEF ImportTypeOK, TypeOK, Exists
<1>2. course[i].owner \in Pids
  BY DEF Course
<1>3. StageOf(rows[n]) = "absent" /\ StageOf(rows'[n]) = "published"
      /\ OwnerOf(rows'[n]) = course[i].owner
  BY <1>1, ImportedRowType, DataAssumption DEF StageOf, OwnerOf
<1>4. Lifecycle!Import(n)
  BY <1>1, <1>2, <1>3, OneLife DEF Lifecycle!Import
<1> QED
  BY <1>4 DEF Lifecycle!Next

\* With imports beside the requests, every step is still one of the abstract
\* life of an object, or none.
LEMMA ImportLifeNext ==
  ASSUME ImportInv, [ImportNext]_allVars
  PROVE  [Lifecycle!Next]_(Lifecycle!lifeVars)
<1> USE DEF ImportInv
<1>1. CASE [Next]_vars
  BY <1>1, LifeNext DEF ImportTypeOK
<1>2. CASE UNCHANGED rows
  BY <1>2, SameLife
<1>3. ASSUME NEW i \in Imports, InsertExplicit(i) PROVE Lifecycle!Next
  <2>1. course[i] \in Course /\ course[i].id \in DataIds
    BY <1>3 DEF InsertExplicit, CourseOK, Course
  <2> QED
    BY <1>3, <2>1, ImportIsImport DEF InsertExplicit
<1>4. ASSUME NEW i \in Imports, InsertAuto(i) PROVE Lifecycle!Next
  <2>1. course[i] \in Course
    BY <1>4 DEF InsertAuto, CourseOK
  <2> QED
    BY <1>4, <2>1, ImportIsImport DEF InsertAuto
<1>5. ASSUME NEW i \in Imports, RegisterAttach(i)
      PROVE  [Lifecycle!Next]_(Lifecycle!lifeVars)
  <2>1. course[i] \in Course
    BY <1>5 DEF RegisterAttach, CourseOK
  <2> QED
    BY <1>5, <2>1, <1>2, ImportIsImport DEF RegisterAttach
<1>6. ASSUME NEW i \in Imports,
             \/ ReceiveImport(i) \/ ErrorIgnored(i) \/ ErrorReported(i)
             \/ InsertConflict(i) \/ ReadLastValue(i) \/ SetVal(i) \/ InsertRanking(i)
             \/ SeedRating(i) \/ RatingsSeeded(i) \/ PutFile(i) \/ PutThumbnail(i)
      PROVE  UNCHANGED rows
  BY <1>6 DEF ReceiveImport, ErrorIgnored, ErrorReported, InsertConflict, ReadLastValue,
       SetVal, InsertRanking, SeedRating, RatingsSeeded, PutFile, PutThumbnail, vars, dbVars
<1> QED
  BY <1>1, <1>2, <1>3, <1>4, <1>5, <1>6, PlayersOrImport DEF ImportStep, ImportTypeOK

\* Requests and imports together implement the abstract life of an object: an
\* import under an explicit id never revives or takes over an object.
THEOREM LifecycleWithImports == ImportSpec => ImplementsLifecycle
<1>1. ImportInit => Lifecycle!Init
  BY LifeInit DEF ImportInit
<1> QED
  BY <1>1, ImportLifeNext, ImportInitInv, ImportNextInv, PTL
     DEF ImportSpec, ImplementsLifecycle, Lifecycle!Spec
-----------------------------------------------------------------------------
(* What an import leaves in the bucket.                                    *)

PastFile == {"thumbnail", "attach", "stars", "metadata", "ok"}

\* A prepare call draws one id.
DrawOK == \A r \in Requests : Preparing(r) =>
  /\ pc[r] = "insert" => ids[r] = <<>>
  /\ pc[r] = "rate" => \E id \in DataIds : ids[r] = <<id>>

\* An upload form for a course file was given to who drew its id.
GrantOK == \A id \in DataIds : <<"bin", id>> \in grants => Prepared(id) # {}

\* An import keeps the row and the file it has written.
FileOK == \A i \in Imports :
  /\ ipc[i] \in Creating => rows[made[i]].completed /\ rows[made[i]].owner = course[i].owner
  /\ ipc[i] \in PastFile => s3[<<"bin", made[i]>>] = course[i].size

KeepInv == ImportInv /\ DrawOK /\ GrantOK /\ FileOK

\* A call that has drawn an id keeps it.
LEMMA PreparedStay ==
  ASSUME TypeOK, PathOK, WorkOK, DrawOK, [Next]_vars, NEW id \in DataIds
  PROVE  Prepared(id) \subseteq Prepared(id)'
<1> SUFFICES ASSUME NEW r \in Prepared(id) PROVE r \in Prepared(id)'
  OBVIOUS
<1>1. r \in Requests /\ Preparing(r) /\ ids[r] = <<id>> /\ pc[r] # "idle"
  BY DEF Prepared, Preparing
<1>2. ~Arrive(r)
  BY <1>1, ArriveStarts
<1>3. CASE UNCHANGED <<call[r], ids[r]>> /\ pc'[r] \in {pc[r], "error", "lost"}
  BY <1>1, <1>3 DEF Prepared, Preparing
<1>4. CASE InFlight(r) /\ Step(r)
  <2>1. call'[r] = call[r] /\ call[r].method \in MethodsAt(pc[r]) /\ pc[r] \in Labels
    BY <1>1, <1>4, StepMoves DEF PathOK, TypeOK
  <2>2. pc[r] \in {"insert", "rate"}
    BY <1>1, <1>4, <2>1 DEF MethodsAt, Preparing, PrepareMethods, InFlight, Labels, Ended
  <2>3. pc[r] = "rate"
    <3>1. ids[r] # <<>>
      BY <1>1
    <3> QED
      BY <1>1, <2>2, <3>1 DEF DrawOK
  <2>4. ids'[r] = ids[r] /\ pc'[r] \in {"rate", "ok"}
    BY <1>1, <1>4, <2>3, StepMoves
  <2> QED
    BY <1>1, <2>1, <2>4 DEF Prepared, Preparing
<1> QED
  BY <1>1, <1>2, <1>3, <1>4, Moves

LEMMA DrawNext ==
  ASSUME TypeOK, PathOK, WorkOK, DrawOK, [Next]_vars
  PROVE  DrawOK'
<1> SUFFICES ASSUME NEW r \in Requests, Preparing(r)'
             PROVE  /\ pc'[r] = "insert" => ids'[r] = <<>>
                    /\ pc'[r] = "rate" => \E id \in DataIds : ids'[r] = <<id>>
  BY DEF DrawOK
<1>1. InsertObject(r) =>
        pc'[r] = "rate" /\ lastId + 1 \in DataIds /\ ids'[r] = <<lastId + 1>>
  BY DEF InsertObject, Goto, TypeOK
<1>2. InitializeRating(r) => pc'[r] = pc[r]
  BY DEF InitializeRating
<1>3. ReplyPrepared(r) => pc'[r] = "ok"
  BY DEF ReplyPrepared, Goto, TypeOK
<1> QED
  BY <1>1, <1>2, <1>3, PrepareMoves DEF DrawOK

\* Where forms and files come from.
LEMMA FilesNext ==
  ASSUME TypeOK, PathOK, WorkOK, DrawOK, [Next]_vars, NEW id \in DataIds
  PROVE  /\ <<"bin", id>> \in grants' => <<"bin", id>> \in grants \/ Prepared(id) # {}
         /\ s3'[<<"bin", id>>] # s3[<<"bin", id>>] => <<"bin", id>> \in grants
<1> USE DEF dbVars, reqVars
<1>1. \/ UNCHANGED grants
      \/ \E r \in Requests : ReplyPrepared(r)
  BY ArriveIsReceive DEF Next, Receive, Step, InsertObject, InsertRefused, InitializeRating,
     CheckNotUploaded, CheckOwner, ReadFileSize, CompareSizes, Publish,
     Delete, CheckAvailable, ReplyDownload, ReplyAttached, CallFails, Upload, Moderate, Crash, vars
<1>2. \/ UNCHANGED s3
      \/ \E k \in Keys, n \in Sizes : Upload(k, n)
  BY ArriveIsReceive DEF Next, Receive, Step, InsertObject, InsertRefused, InitializeRating,
     ReplyPrepared, CheckNotUploaded, CheckOwner, ReadFileSize, CompareSizes, Publish,
     Delete, CheckAvailable, ReplyDownload, ReplyAttached, CallFails, Moderate, Crash, vars
<1>3. ASSUME NEW r \in Requests, ReplyPrepared(r), <<"bin", id>> \in grants',
             <<"bin", id>> \notin grants
      PROVE  r \in Prepared(id)
  <2>1. pc[r] = "rate" /\ id = Head(ids[r])
    BY <1>3 DEF ReplyPrepared
  <2>2. Preparing(r)
    BY <2>1 DEF PathOK, MethodsAt, Preparing, Ended
  <2>3. PICK k \in DataIds : ids[r] = <<k>>
    BY <2>1, <2>2 DEF DrawOK
  <2> QED
    BY <2>1, <2>2, <2>3 DEF Prepared, Preparing
<1>4. s3'[<<"bin", id>>] # s3[<<"bin", id>>] => <<"bin", id>> \in grants
  <2>1. s3 \in [Keys -> Sizes \cup {NoFile}] /\ <<"bin", id>> \in Keys
    BY DEF TypeOK, Keys
  <2> DEFINE key == <<"bin", id>>
  <2> HIDE DEF key
  <2>2. s3'[key] # s3[key] => key \in grants
    BY <1>2, <2>1 DEF Upload, key
  <2> QED
    BY <2>2 DEF key
<1> QED
  BY <1>1, <1>3, <1>4

\* A player's step changes neither the rows nor the files of the imports.
LEMMA KeptByPlayers ==
  ASSUME KeepInv, [Next]_vars, UNCHANGED <<made, course>>, UNCHANGED ipc \/ CrashAll
  PROVE  DrawOK' /\ GrantOK' /\ FileOK'
<1>0. TypeOK /\ PathOK /\ WorkOK /\ DrawOK /\ ImportTypeOK
  BY DEF KeepInv, ImportInv, ImportTypeOK
<1>1. DrawOK'
  BY <1>0, DrawNext
<1>2. GrantOK'
  BY <1>0, FilesNext, PreparedStay DEF KeepInv, GrantOK
<1>3. ASSUME NEW i \in Imports
      PROVE  /\ ipc'[i] \in Creating =>
                  rows'[made[i]].completed /\ rows'[made[i]].owner = course[i].owner
             /\ ipc'[i] \in PastFile => s3'[<<"bin", made[i]>>] = course[i].size
  <2>1. ipc'[i] = ipc[i] \/ ipc'[i] = "lost"
    BY <1>0 DEF CrashAll, ImportTypeOK
  <2>2. CASE ipc[i] \in Creating
    <3>1. made[i] \in DataIds /\ <<"course", i>> \in Creators(made[i])
      BY <2>2 DEF KeepInv, ImportInv, CourseOK, Creators
    <3>2. Exists(made[i])
      BY <3>1 DEF KeepInv, ImportInv, CreatedExist
    <3>3. Prepared(made[i]) = {}
      <4>1. ASSUME NEW r \in Prepared(made[i]) PROVE FALSE
        <5>1. <<"player", r>> \in Creators(made[i])
          BY <4>1 DEF Prepared, Creators
        <5>2. <<"player", r>> = <<"course", i>>
          BY <3>1, <5>1 DEF KeepInv, ImportInv, OneCreator
        <5> QED
          BY <5>2
      <4> QED
        BY <4>1
    <3>4. s3'[<<"bin", made[i]>>] = s3[<<"bin", made[i]>>]
      BY <1>0, <3>1, <3>3, FilesNext DEF KeepInv, GrantOK
    <3>5. rows'[made[i]].owner = rows[made[i]].owner
          /\ (rows[made[i]].completed => rows'[made[i]].completed)
      BY <1>0, <3>1, <3>2, Monotonic
    <3> QED
      BY <2>1, <2>2, <3>4, <3>5 DEF KeepInv, FileOK, Creating, PastFile
  <2>3. CASE ipc[i] \notin Creating
    BY <2>1, <2>3 DEF Creating, PastFile
  <2> QED
    BY <2>2, <2>3
<1>4. FileOK'
  BY <1>3 DEF FileOK
<1> QED
  BY <1>1, <1>2, <1>4

\* Nor does an import change those of another one.
LEMMA KeptByImports ==
  ASSUME KeepInv, [ImportNext]_allVars, NEW i \in Imports,
         ReceiveImport(i) \/ ImportStep(i) \/ ErrorIgnored(i) \/ ErrorReported(i)
  PROVE  DrawOK' /\ GrantOK' /\ FileOK'
<1>0. ImportTypeOK /\ CourseOK
  BY DEF KeepInv, ImportInv
<1>1. UNCHANGED <<pc, call, ids, grants>>
  BY RequestsAlone
<1>2. DrawOK'
  BY <1>1 DEF KeepInv, DrawOK, Preparing
<1>3. GrantOK'
  BY <1>1 DEF KeepInv, GrantOK, Prepared
<1>4. \A id \in DataIds : Exists(id) => rows'[id] = rows[id]
  <2>1. rows \in [DataIds -> Row \cup {NoRow}]
    BY <1>0 DEF ImportTypeOK, TypeOK
  <2>2. \/ UNCHANGED rows
        \/ \E id \in DataIds : ~Exists(id) /\ rows' = [rows EXCEPT ![id] = ImportedRow(i)]
    BY <1>0, ImportAddsRow
  <2> QED
    BY <2>1, <2>2
<1>5. /\ \A j \in Imports : j # i => UNCHANGED <<ipc[j], course[j], made[j]>>
  <2>1. /\ ipc \in [Imports -> ImportLabels] /\ course \in [Imports -> Course \cup {NoCall}]
        /\ made \in [Imports -> DataIds \cup {AutoId}]
    BY <1>0 DEF ImportTypeOK
  <2> QED
    BY <2>1 DEF ReceiveImport, ImportStep, ErrorIgnored, ErrorReported, InsertExplicit,
         InsertAuto, InsertConflict, ReadLastValue, SetVal, InsertRanking, SeedRating,
         RatingsSeeded, PutFile, PutThumbnail, RegisterAttach, ImportGoto
<1>6. \A id \in DataIds : s3'[<<"bin", id>>] # s3[<<"bin", id>>] => PutFile(i) /\ made[i] = id
  <2>1. s3 \in [Keys -> Sizes \cup {NoFile}]
    BY <1>0 DEF ImportTypeOK, TypeOK
  <2>2. UNCHANGED s3 \/ PutFile(i) \/ PutThumbnail(i)
    BY DEF ReceiveImport, ImportStep, ErrorIgnored, ErrorReported, InsertExplicit,
         InsertAuto, InsertConflict, ReadLastValue, SetVal, InsertRanking, SeedRating,
         RatingsSeeded, RegisterAttach, vars, dbVars
  <2> SUFFICES ASSUME NEW id \in DataIds, s3'[<<"bin", id>>] # s3[<<"bin", id>>]
               PROVE  PutFile(i) /\ made[i] = id
    OBVIOUS
  <2>3. <<"bin", id>> \in Keys /\ <<"bin", id>> # <<"jpg", made[i]>>
    BY DEF Keys
  <2>4. \A key, n : s3' = [s3 EXCEPT ![key] = n] => key = <<"bin", id>>
    BY <2>1, <2>3
  <2>5. ~PutThumbnail(i)
    BY <2>3, <2>4 DEF PutThumbnail
  <2>6. PutFile(i) => <<"bin", made[i]>> = <<"bin", id>>
    BY <2>4 DEF PutFile
  <2> QED
    BY <2>2, <2>5, <2>6
<1>7. ASSUME NEW j \in Imports, ipc[j] \in Creating
      PROVE  /\ made[j] \in DataIds /\ rows'[made[j]] = rows[made[j]]
             /\ j # i => s3'[<<"bin", made[j]>>] = s3[<<"bin", made[j]>>]
  <2>1. made[j] \in DataIds /\ <<"course", j>> \in Creators(made[j])
    BY <1>0, <1>7 DEF CourseOK, Creators
  <2>2. Exists(made[j])
    BY <2>1 DEF KeepInv, ImportInv, CreatedExist
  <2>3. ASSUME made[i] = made[j] PROVE i = j
    <3>1. <<"course", i>> \in Creators(made[j])
      BY <2>3 DEF Creators
    <3>2. <<"course", i>> = <<"course", j>>
      BY <2>1, <3>1 DEF KeepInv, ImportInv, OneCreator
    <3> QED
      BY <3>2
  <2> QED
    BY <1>4, <1>6, <2>1, <2>2, <2>3
<1>8. ASSUME NEW j \in Imports, j # i
      PROVE  /\ ipc'[j] \in Creating =>
                  rows'[made'[j]].completed /\ rows'[made'[j]].owner = course'[j].owner
             /\ ipc'[j] \in PastFile => s3'[<<"bin", made'[j]>>] = course'[j].size
  BY <1>5, <1>7, <1>8 DEF KeepInv, FileOK, Creating, PastFile
<1>9. /\ ipc'[i] \in Creating =>
           rows'[made'[i]].completed /\ rows'[made'[i]].owner = course'[i].owner
      /\ ipc'[i] \in PastFile => s3'[<<"bin", made'[i]>>] = course'[i].size
  <2>0. /\ ipc \in [Imports -> ImportLabels] /\ made \in [Imports -> DataIds \cup {AutoId}]
        /\ rows \in [DataIds -> Row \cup {NoRow}] /\ s3 \in [Keys -> Sizes \cup {NoFile}]
    BY <1>0 DEF ImportTypeOK, TypeOK
  <2>1. CASE InsertExplicit(i) \/ InsertAuto(i)
    <3>1. course[i] \in Course
      BY <1>0, <2>1 DEF CourseOK, InsertExplicit, InsertAuto
    <3>2. /\ made'[i] \in DataIds /\ rows'[made'[i]] = ImportedRow(i) /\ course' = course
          /\ ipc'[i] \notin PastFile
      BY <2>0, <2>1, <3>1 DEF InsertExplicit, InsertAuto, Course, ImportGoto, PastFile
    <3> QED
      BY <3>1, <3>2, ImportedRowType
  <2>2. CASE PutFile(i)
    <3>1. /\ ipc[i] \in Creating /\ UNCHANGED <<made, course>>
          /\ s3' = [s3 EXCEPT ![<<"bin", made[i]>>] = course[i].size]
      BY <2>2 DEF PutFile, Creating
    <3>2. <<"bin", made[i]>> \in Keys
      BY <1>7, <3>1 DEF Keys
    <3> QED
      BY <1>7, <2>0, <3>1, <3>2 DEF KeepInv, FileOK
  <2>3. CASE ~InsertExplicit(i) /\ ~InsertAuto(i) /\ ~PutFile(i) /\ ipc[i] \in Creating
    <3>1. UNCHANGED <<made, course>>
      BY <2>3 DEF ReceiveImport, ImportStep, ErrorIgnored, ErrorReported,
         InsertConflict, ReadLastValue, SetVal, InsertRanking, SeedRating,
         RatingsSeeded, PutThumbnail, RegisterAttach, Creating
    <3>2. ipc'[i] \in PastFile => ipc[i] \in PastFile
      BY <2>0, <2>3 DEF ReceiveImport, ImportStep, ErrorIgnored, ErrorReported,
         InsertConflict, ReadLastValue, SetVal, InsertRanking, SeedRating,
         RatingsSeeded, PutThumbnail, RegisterAttach, ImportGoto, AfterRatings,
         AfterThumbnail, PastFile
    <3> QED
      BY <1>6, <1>7, <2>3, <3>1, <3>2 DEF KeepInv, FileOK
  <2>4. CASE ~InsertExplicit(i) /\ ~InsertAuto(i) /\ ipc[i] \notin Creating
    <3>1. ipc'[i] \notin Creating
      BY <2>0, <2>4 DEF ReceiveImport, ImportStep, ErrorIgnored, ErrorReported,
         InsertConflict, ReadLastValue, SetVal, InsertRanking, SeedRating,
         RatingsSeeded, PutFile, PutThumbnail, RegisterAttach, ImportGoto, Creating
    <3> QED
      BY <3>1 DEF Creating, PastFile
  <2> QED
    BY <2>1, <2>2, <2>3, <2>4
<1>10. FileOK'
  BY <1>8, <1>9 DEF FileOK
<1> QED
  BY <1>2, <1>3, <1>10

\* A course whose import was answered with success keeps its row's maker and
\* the very file the admin sent, whatever players upload, now or later.
THEOREM ImportedFilesKept == ImportSpec => []ImportedKeepsFile
<1>1. ImportInit => KeepInv
  <2>1. ImportInit => DrawOK /\ GrantOK /\ FileOK
    BY DEF ImportInit, Init, DrawOK, GrantOK, FileOK, Preparing, Creating, PastFile
  <2> QED
    BY <2>1, ImportInitInv DEF KeepInv
<1>2. KeepInv /\ [ImportNext]_allVars => KeepInv'
  <2>1. KeepInv => ImportInv /\ TypeOK
    BY DEF KeepInv, ImportInv, ImportTypeOK
  <2> QED
    BY <2>1, ImportNextInv, PlayersOrImport, KeptByPlayers, KeptByImports DEF KeepInv
<1>3. KeepInv => ImportedKeepsFile
  <2> SUFFICES ASSUME KeepInv, NEW i \in Imports, ipc[i] = "ok"
               PROVE  /\ Exists(made[i])
                      /\ rows[made[i]].completed /\ rows[made[i]].owner = course[i].owner
                      /\ s3[<<"bin", made[i]>>] = course[i].size
    BY DEF ImportedKeepsFile
  <2>1. made[i] \in DataIds /\ <<"course", i>> \in Creators(made[i])
    BY DEF KeepInv, ImportInv, CourseOK, Creating, Creators
  <2>2. Exists(made[i])
    BY <2>1 DEF KeepInv, ImportInv, CreatedExist
  <2> QED
    BY <2>2 DEF KeepInv, FileOK, Creating, PastFile
<1> QED
  BY <1>1, <1>2, <1>3, PTL DEF ImportSpec
-----------------------------------------------------------------------------
(* What requests know of rows and files holds beside imports too.          *)

\* The rows that are there, and the files, as requests see them.
RowsStay ==
  \A id \in DataIds :
    /\ Exists(id) => /\ Exists(id)' /\ rows'[id].owner = rows[id].owner
                     /\ rows'[id].completed = rows[id].completed
                     /\ rows'[id].deleted = rows[id].deleted
    /\ ~Exists(id) /\ Exists(id)' => ~rows'[id].deleted
    /\ HasFile(id) => HasFile(id)'

\* Other writers may add rows and files, and replace files.
LEMMA RequestsUndisturbed ==
  ASSUME RequestInv, TypeOK', RowsStay, UNCHANGED <<pc, call, ids>>
  PROVE  RequestInv'
<1>0. TypeOK /\ PathOK /\ WorkOK
  BY DEF RequestInv
<1>1. PathOK' /\ WorkOK'
  BY DEF RequestInv, PathOK, WorkOK
<1>2. \A r \in Requests : pc[r] # "idle" => call[r].ids \in Seq(DataIds)
  BY DEF RequestInv, PathOK, Call
<1>3. \A r \in Requests : pc[r] # "idle" =>
        \A i \in DOMAIN call[r].ids : call[r].ids[i] \in DataIds
  BY <1>2, LenProperties, ElementOfSeq
<1>4. \A id \in DataIds : Published(id) => Published(id)'
  BY DEF RowsStay, Published
<1>5. CheckedHasFile'
  <2> SUFFICES ASSUME NEW r \in Requests, pc[r] \in {"dbsize", "update"}
               PROVE  /\ pc[r] = "dbsize" => HasFile(Head(ids[r]))'
                      /\ pc[r] = "update" /\ call[r].method # "CompleteAttachFile" =>
                           Exists(Head(ids[r]))' /\ HasFile(Head(ids[r]))'
    BY DEF CheckedHasFile
  <2>1. PICK id \in DataIds : id = Head(ids[r])
    BY <1>0, AtLabel DEF Working
  <2>2. /\ pc[r] = "dbsize" => HasFile(id)
        /\ pc[r] = "update" /\ call[r].method # "CompleteAttachFile" => Exists(id) /\ HasFile(id)
    BY <2>1 DEF RequestInv, CheckedHasFile
  <2>3. ids'[r] = ids[r]
    OBVIOUS
  <2>4. /\ HasFile(id) => HasFile(id)'
        /\ Exists(id) => Exists(id)'
    BY DEF RowsStay
  <2> QED
    BY <2>1, <2>2, <2>3, <2>4
<1>6. PastIsPublished'
  <2> SUFFICES ASSUME NEW r \in Requests, pc[r] \in {"s3size", "dbsize", "update", "ok"}
               PROVE  /\ pc[r] \in {"s3size", "dbsize", "update"}
                           /\ call[r].method # "CompleteAttachFile" =>
                           /\ call[r].success
                           /\ \A i \in DOMAIN call[r].ids :
                                \/ Published(call[r].ids[i])'
                                \/ \E j \in DOMAIN ids[r] : ids[r][j] = call[r].ids[i]
                      /\ pc[r] = "ok" /\ call[r].success
                           /\ call[r].method \in {"completePostObject", "completePostObjects"} =>
                           \A i \in DOMAIN call[r].ids : Published(call[r].ids[i])'
    BY DEF PastIsPublished
  <2>1. \A i \in DOMAIN call[r].ids : Published(call[r].ids[i]) => Published(call[r].ids[i])'
    <3> SUFFICES ASSUME NEW i \in DOMAIN call[r].ids, Published(call[r].ids[i])
                 PROVE  Published(call[r].ids[i])'
      OBVIOUS
    <3>1. PICK id \in DataIds : id = call[r].ids[i]
      BY <1>3
    <3>2. call'[r].ids[i] = id
      BY <3>1
    <3> QED
      BY <1>4, <3>1, <3>2
  <2> QED
    BY <2>1 DEF RequestInv, PastIsPublished
<1>7. ASSUME NEW r \in Requests, pc[r] # "idle", call[r].method \in OneObject
      PROVE  call[r].ids[1] \in DataIds
  BY <1>0, <1>3, <1>7 DEF WorkOK
<1>8. DeleteOK'
  <2> SUFFICES ASSUME NEW r \in Requests, pc[r] \in {"delete", "ok"},
                      call[r].method = "completePostObject"
               PROVE  /\ pc[r] = "delete" =>
                           /\ ~call[r].success /\ Exists(call[r].ids[1])'
                           /\ rows'[call[r].ids[1]].owner = call[r].pid
                      /\ pc[r] = "ok" /\ ~call[r].success =>
                           Exists(call[r].ids[1])' /\ rows'[call[r].ids[1]].deleted
    BY DEF DeleteOK
  <2>1. PICK id \in DataIds : id = call[r].ids[1]
    BY <1>7 DEF OneObject
  <2>2. /\ pc[r] = "delete" => ~call[r].success /\ Exists(id) /\ rows[id].owner = call[r].pid
        /\ pc[r] = "ok" /\ ~call[r].success => Exists(id) /\ rows[id].deleted
    BY <2>1 DEF RequestInv, DeleteOK
  <2>3. call'[r].ids[1] = id
    BY <2>1
  <2> QED
    BY <2>1, <2>2, <2>3 DEF RowsStay
<1>9. ReadOK'
  <2> SUFFICES ASSUME NEW r \in Requests, pc[r] \in {"select", "ok"},
                      call[r].method = "prepareGetObject"
               PROVE  Exists(call[r].ids[1])' /\ rows'[call[r].ids[1]].completed
    BY DEF ReadOK
  <2>1. PICK id \in DataIds : id = call[r].ids[1]
    BY <1>7 DEF OneObject
  <2>2. Exists(id) /\ rows[id].completed /\ call'[r].ids[1] = id
    BY <2>1 DEF RequestInv, ReadOK
  <2> QED
    BY <2>1, <2>2 DEF RowsStay
<1>10. DeletedByOwnerOrAdmin'
  <2> SUFFICES ASSUME NEW id \in DataIds, Exists(id)', rows'[id].deleted
               PROVE  \/ Asked("AdminDeleteCourse", id)' # {}
                      \/ \E r \in Asked("completePostObject", id)' :
                           ~call'[r].success /\ call'[r].pid = rows'[id].owner
    BY DEF DeletedByOwnerOrAdmin
  <2>1. Exists(id) /\ rows[id].deleted /\ rows'[id].owner = rows[id].owner
    BY DEF RowsStay
  <2>2. \A m : Asked(m, id)' = Asked(m, id)
    BY DEF Asked
  <2> QED
    BY <2>1, <2>2 DEF RequestInv, DeletedByOwnerOrAdmin
<1> QED
  BY <1>1, <1>5, <1>6, <1>8, <1>9, <1>10 DEF RequestInv

\* An import adds rows that are not deleted, and files.
LEMMA ImportRowsStay ==
  ASSUME ImportTypeOK, CourseOK, NEW i \in Imports,
         ReceiveImport(i) \/ ImportStep(i) \/ ErrorIgnored(i) \/ ErrorReported(i)
  PROVE  RowsStay
<1>0. /\ rows \in [DataIds -> Row \cup {NoRow}] /\ s3 \in [Keys -> Sizes \cup {NoFile}]
      /\ NoRow \notin Row /\ NoFile \notin Sizes
  BY DataAssumption DEF ImportTypeOK, TypeOK
<1>1. ASSUME NEW id \in DataIds
      PROVE  /\ Exists(id) => rows'[id] = rows[id]
             /\ ~Exists(id) /\ Exists(id)' => ~rows'[id].deleted
  <2>1. \/ UNCHANGED rows
        \/ \E n \in DataIds : ~Exists(n) /\ rows' = [rows EXCEPT ![n] = ImportedRow(i)]
    BY ImportAddsRow
  <2>2. ~ImportedRow(i).deleted
    BY DEF ImportedRow, NewRow
  <2> QED
    BY <1>0, <2>1, <2>2 DEF Exists
<1>2. ASSUME NEW id \in DataIds, HasFile(id) PROVE HasFile(id)'
  <2> DEFINE key == <<"bin", id>>
  <2>1. key \in Keys
    BY DEF Keys
  <2>2. \/ UNCHANGED s3
        \/ \E k \in Keys, n \in Sizes : s3' = [s3 EXCEPT ![k] = n]
    <3>1. PutFile(i) \/ PutThumbnail(i) => course[i] \in Course /\ made[i] \in DataIds
      BY DEF PutFile, PutThumbnail, CourseOK, Creating
    <3>2. PutFile(i) => \E k \in Keys, n \in Sizes : s3' = [s3 EXCEPT ![k] = n]
      BY <3>1 DEF PutFile, Keys, Course
    <3>3. PutThumbnail(i) => UNCHANGED s3 \/ \E k \in Keys, n \in Sizes : s3' = [s3 EXCEPT ![k] = n]
      BY <3>1 DEF PutThumbnail, Keys, Course
    <3> QED
      BY <3>2, <3>3 DEF ReceiveImport, ImportStep, ErrorIgnored, ErrorReported, InsertExplicit,
         InsertAuto, InsertConflict, ReadLastValue, SetVal, InsertRanking, SeedRating,
         RatingsSeeded, RegisterAttach, vars, dbVars
  <2> HIDE DEF key
  <2>3. s3[key] # NoFile
    BY <1>2 DEF HasFile, key
  <2>4. s3'[key] # NoFile
    BY <1>0, <2>1, <2>2, <2>3
  <2> QED
    BY <2>4 DEF HasFile, key
<1> QED
  BY <1>1, <1>2 DEF RowsStay, Exists

LEMMA RequestsBesideImports ==
  ASSUME ImportInv, RequestInv, [ImportNext]_allVars
  PROVE  RequestInv'
<1>1. ImportTypeOK /\ CourseOK /\ TypeOK
  BY DEF ImportInv, ImportTypeOK
<1>2. CASE [Next]_vars
  BY <1>2, RequestNextInv
<1>3. ASSUME NEW i \in Imports,
             ReceiveImport(i) \/ ImportStep(i) \/ ErrorIgnored(i) \/ ErrorReported(i)
      PROVE  RequestInv'
  <2>1. TypeOK'
    BY ImportNextInv DEF ImportInv, ImportTypeOK
  <2> QED
    BY <1>1, <1>3, <2>1, RequestsAlone, ImportRowsStay, RequestsUndisturbed
<1> QED
  BY <1>1, <1>2, <1>3, PlayersOrImport

LEMMA ImportRequests == ImportSpec => [](ImportInv /\ RequestInv)
<1>1. ImportInit => ImportInv /\ RequestInv
  BY ImportInitInv, InitInv DEF ImportInit, IInv
<1>2. (ImportInv /\ RequestInv) /\ [ImportNext]_allVars => (ImportInv /\ RequestInv)'
  BY ImportNextInv, RequestsBesideImports
<1> QED
  BY <1>1, <1>2, PTL DEF ImportSpec

\* Imports, which write the same tables and bucket, make no reply of
\* completePostObject(s) untrue.
THEOREM OkIsTrueWithImports == ImportSpec => []OkMeansDone
<1>1. RequestInv => OkMeansDone
  BY DEF RequestInv, PastIsPublished, DeleteOK, Published, OkMeansDone
<1> QED
  BY <1>1, ImportRequests, PTL

\* Nor do they let anybody but the owner and the admin delete an object.
THEOREM OnlyOwnersDeleteWithImports == ImportSpec => []DeletedByOwnerOrAdmin
<1>1. RequestInv => DeletedByOwnerOrAdmin
  BY DEF RequestInv
<1> QED
  BY <1>1, ImportRequests, PTL
=============================================================================

------------------------ MODULE EventCourse_proofs ------------------------
(***************************************************************************)
(* Proofs about EventCourse, for any number of starts, imports and         *)
(* requests: type correctness, that the row under the id of the event      *)
(* course has one maker, that a start which says it is ready has left an   *)
(* event course, and the refinement of ObjectLifecycle.                    *)
(***************************************************************************)
EXTENDS EventCourse, CourseImport_proofs

\* The labels of an import before its INSERT, and before that of its thumbnail.
NotMade == {"idle", "insert"}
NotAttached == NotMade \cup {"lastvalue", "setval", "ranking", "ratings", "file",
                             "thumbnail", "attach"}

\* An import has no data id before the INSERT.
FreshOK == \A i \in Imports :
  /\ ipc[i] \in NotMade => made[i] = AutoId
  /\ ipc[i] \in NotAttached => attach[i] = AutoId

BootInv == /\ ImportInv /\ DrawOK /\ FreshOK
           /\ boot \in BootLabels /\ boots \in 1..MaxBoots
           /\ boot = "update" => Exists(EventId)
           /\ EventRowHasOneMaker
-----------------------------------------------------------------------------
\* Every step is one of the imports and requests, one of the start, or none.
LEMMA BootSteps ==
  ASSUME TypeOK, [BootNext]_everything
  PROVE  [ImportNext]_allVars \/ BootPut \/ BootInsert \/ BootUpdate
<1>1. CASE ServedNext
  BY <1>1 DEF ServedNext, PlayerNext, ImportNext
<1>2. CASE PanelNext
  BY <1>2 DEF PanelNext, ImportNext
<1>3. CASE Restart
  BY <1>3 DEF Restart, ImportNext
<1>4. CASE BootExists \/ BootFails \/ UNCHANGED everything
  BY <1>4 DEF BootExists, BootFails, everything
<1> QED
  BY <1>1, <1>2, <1>3, <1>4 DEF BootNext, BootStep

\* The start does not touch requests and imports.
LEMMA BootAlone ==
  ASSUME BootPut \/ BootInsert \/ BootUpdate
  PROVE  UNCHANGED <<lastId, ratings, grants, pc, call, ids, todo, seen>>
         /\ UNCHANGED <<ipc, course, made, attach, unseeded, lastRead, ranked>>
BY DEF BootPut, BootInsert, BootUpdate, dbVars, reqVars, importVars

LEMMA PlaceholderRowType ==
  PlaceholderRow \in Row /\ PlaceholderRow.owner = System /\ PlaceholderRow.completed
BY EventAssumption, DataAssumption DEF PlaceholderRow, NewRow, Row

\* What the start does to the rows.
LEMMA BootRows ==
  ASSUME TypeOK, boot = "update" => Exists(EventId), BootPut \/ BootInsert \/ BootUpdate
  PROVE  /\ rows' \in [DataIds -> Row \cup {NoRow}]
         /\ s3' \in [Keys -> Sizes \cup {NoFile}]
         /\ \/ UNCHANGED rows
            \/ ~Exists(EventId) /\ rows' = [rows EXCEPT ![EventId] = PlaceholderRow]
            \/ Exists(EventId) /\ rows' = [rows EXCEPT ![EventId].size = EventSize]
<1>0. /\ rows \in [DataIds -> Row \cup {NoRow}] /\ s3 \in [Keys -> Sizes \cup {NoFile}]
      /\ EventId \in DataIds /\ EventSize \in Sizes /\ Sizes \subseteq Nat
  BY EventAssumption, DataAssumption DEF TypeOK
<1>1. CASE BootPut
  BY <1>0, <1>1 DEF BootPut, dbVars
<1>2. CASE BootInsert
  BY <1>0, <1>2, PlaceholderRowType DEF BootInsert
<1>3. CASE BootUpdate
  BY <1>0, <1>3 DEF BootUpdate, Row, Exists
<1> QED
  BY <1>1, <1>2, <1>3

\* What the start leaves of the invariant of CourseImport.
LEMMA BootKeeps ==
  ASSUME BootInv, BootPut \/ BootInsert \/ BootUpdate
  PROVE  /\ ImportInv' /\ DrawOK' /\ FreshOK'
         /\ \A id \in DataIds : Exists(id) => Exists(id)' /\ rows'[id].owner = rows[id].owner
         /\ \A id \in DataIds : Creators(id)' = Creators(id)
         /\ \A c : CreatedFor(c)' = CreatedFor(c)
         /\ ~Exists(EventId) /\ Exists(EventId)' => rows'[EventId].owner = System
<1>0. TypeOK /\ ImportTypeOK /\ (boot = "update" => Exists(EventId)) /\ EventId \in DataIds
  BY EventAssumption DEF BootInv, ImportInv, ImportTypeOK
<1>1. /\ UNCHANGED <<lastId, ratings, grants, pc, call, ids, todo, seen>>
      /\ UNCHANGED <<ipc, course, made, attach, unseeded, lastRead, ranked>>
  BY BootAlone
<1>2. ImportTypeOK'
  BY <1>0, <1>1, BootRows DEF ImportTypeOK, TypeOK
<1>3. PathOK' /\ WorkOK' /\ CourseOK' /\ DrawOK' /\ FreshOK'
  BY <1>1 DEF BootInv, ImportInv, PathOK, WorkOK, CourseOK, DrawOK, FreshOK, Preparing
<1>4. \A id \in DataIds : Creators(id)' = Creators(id)
  BY <1>1 DEF Creators
<1>5. \A c : CreatedFor(c)' = CreatedFor(c)
  BY <1>1 DEF CreatedFor
<1>6. /\ \A id \in DataIds : Exists(id) => Exists(id)' /\ rows'[id].owner = rows[id].owner
      /\ ~Exists(EventId) /\ Exists(EventId)' => rows'[EventId].owner = System
  <2>1. rows \in [DataIds -> Row \cup {NoRow}] /\ NoRow \notin Row /\ EventSize \in Nat
    BY <1>0, DataAssumption, EventAssumption DEF TypeOK
  <2>2. CASE UNCHANGED rows
    BY <2>2 DEF Exists
  <2>3. CASE ~Exists(EventId) /\ rows' = [rows EXCEPT ![EventId] = PlaceholderRow]
    BY <1>0, <2>1, <2>3, PlaceholderRowType DEF Exists
  <2>4. CASE Exists(EventId) /\ rows' = [rows EXCEPT ![EventId].size = EventSize]
    BY <1>0, <2>1, <2>4 DEF Exists, Row
  <2> QED
    BY <1>0, <2>2, <2>3, <2>4, BootRows
<1>7. CreatedExist' /\ OneCreator'
  BY <1>4, <1>6 DEF BootInv, ImportInv, CreatedExist, OneCreator
<1> QED
  BY <1>2, <1>3, <1>4, <1>5, <1>6, <1>7 DEF ImportInv
-----------------------------------------------------------------------------
(* Requests and imports.                                                   *)

\* Their own steps keep DrawOK too.
LEMMA DrawStays ==
  ASSUME ImportInv, DrawOK, [ImportNext]_allVars
  PROVE  DrawOK'
<1>1. CASE [Next]_vars
  BY <1>1, DrawNext DEF ImportInv, ImportTypeOK
<1>2. CASE UNCHANGED <<pc, call, ids>>
  BY <1>2 DEF DrawOK, Preparing
<1> QED
  BY <1>1, <1>2, PlayersOrImport, RequestsAlone DEF ImportInv, ImportTypeOK

\* An import draws each of its ids once.
LEMMA FreshNext ==
  ASSUME ImportInv, FreshOK, [ImportNext]_allVars
  PROVE  FreshOK'
<1>0. /\ ipc \in [Imports -> ImportLabels] /\ made \in [Imports -> DataIds \cup {AutoId}]
      /\ attach \in [Imports -> DataIds \cup {AutoId}] /\ TypeOK
  BY DEF ImportInv, ImportTypeOK
<1> SUFFICES ASSUME NEW j \in Imports
             PROVE  /\ ipc'[j] \in NotMade => made'[j] = AutoId
                    /\ ipc'[j] \in NotAttached => attach'[j] = AutoId
  BY DEF FreshOK
<1>1. CASE UNCHANGED <<made, attach>> /\ (UNCHANGED ipc \/ CrashAll)
  BY <1>1 DEF FreshOK, CrashAll, NotMade, NotAttached
<1>2. ASSUME NEW i \in Imports,
             ReceiveImport(i) \/ ImportStep(i) \/ ErrorIgnored(i) \/ ErrorReported(i)
      PROVE  /\ ipc'[j] \in NotMade => ipc[j] \in NotMade /\ made'[j] = made[j]
             /\ ipc'[j] \in NotAttached => ipc[j] \in NotAttached /\ attach'[j] = attach[j]
  <2>1. CASE j # i
    BY <1>0, <1>2, <2>1 DEF ReceiveImport, ImportStep, ErrorIgnored, ErrorReported,
       InsertExplicit, InsertAuto, InsertConflict, ReadLastValue, SetVal, InsertRanking,
       SeedRating, RatingsSeeded, PutFile, PutThumbnail, RegisterAttach, ImportGoto
  <2>2. CASE j = i
    BY <1>0, <1>2, <2>2 DEF ReceiveImport, ImportStep, ErrorIgnored, ErrorReported,
       InsertExplicit, InsertAuto, InsertConflict, ReadLastValue, SetVal, InsertRanking,
       SeedRating, RatingsSeeded, PutFile, PutThumbnail, RegisterAttach, ImportGoto,
       AfterRatings, AfterThumbnail, NotMade, NotAttached
  <2> QED
    BY <2>1, <2>2
<1> QED
  BY <1>0, <1>1, <1>2, PlayersOrImport DEF FreshOK

\* Who made a row stays its maker, and so does whom it was made for.
LEMMA MakersStay ==
  ASSUME ImportInv, DrawOK, FreshOK, [ImportNext]_allVars,
         NEW id \in DataIds, NEW c \in Creators(id)
  PROVE  c \in Creators(id)' /\ CreatedFor(c)' = CreatedFor(c)
<1>0. /\ TypeOK /\ ImportTypeOK /\ PathOK /\ WorkOK /\ id # AutoId
      /\ made \in [Imports -> DataIds \cup {AutoId}]
      /\ attach \in [Imports -> DataIds \cup {AutoId}]
  BY ImportAssumption DEF ImportInv, ImportTypeOK
<1>1. ASSUME NEW r \in Prepared(id)
      PROVE  r \in Prepared(id)' /\ call'[r] = call[r]
  <2>1. CASE [Next]_vars
    <3>1. pc[r] # "idle" /\ r \in Requests
      BY <1>1 DEF Prepared
    <3>2. call'[r] = call[r]
      BY <1>0, <2>1, <3>1, Moves, ArriveStarts, StepMoves
    <3> QED
      BY <1>0, <1>1, <2>1, <3>2, PreparedStay
  <2>2. CASE UNCHANGED <<pc, call, ids>>
    BY <1>1, <2>2 DEF Prepared
  <2> QED
    BY <1>0, <2>1, <2>2, PlayersOrImport, RequestsAlone
<1>2. ASSUME NEW j \in Imports, made[j] = id \/ attach[j] = id
      PROVE  /\ course'[j] = course[j] /\ (made[j] = id => made'[j] = id)
             /\ (attach[j] = id => attach'[j] = id)
  <2>1. ipc[j] # "idle" /\ (made[j] = id => ipc[j] \notin NotMade)
        /\ (attach[j] = id => ipc[j] \notin NotAttached)
    BY <1>0, <1>2 DEF FreshOK, NotMade, NotAttached
  <2>2. ASSUME NEW i \in Imports,
               ReceiveImport(i) \/ ImportStep(i) \/ ErrorIgnored(i) \/ ErrorReported(i)
        PROVE  /\ course'[j] = course[j] /\ (made[j] = id => made'[j] = id)
               /\ (attach[j] = id => attach'[j] = id)
    <3>1. course \in [Imports -> Course \cup {NoCall}]
      BY <1>0 DEF ImportTypeOK
    <3>2. CASE ReceiveImport(i)
      BY <2>1, <3>1, <3>2 DEF ReceiveImport
    <3>3. CASE InsertExplicit(i) \/ InsertAuto(i)
      BY <1>0, <2>1, <3>3 DEF InsertExplicit, InsertAuto, NotMade
    <3>4. CASE RegisterAttach(i)
      BY <1>0, <2>1, <3>4 DEF RegisterAttach, NotAttached
    <3>5. CASE UNCHANGED <<course, made, attach>>
      BY <3>5
    <3> QED
      BY <2>2, <3>2, <3>3, <3>4, <3>5 DEF ImportStep, ErrorIgnored, ErrorReported,
         InsertConflict, ReadLastValue, SetVal, InsertRanking,
         SeedRating, RatingsSeeded, PutFile, PutThumbnail
  <2> QED
    BY <1>0, <1>2, <2>2, PlayersOrImport
<1>3. CASE \E r \in Prepared(id) : c = <<"player", r>>
  <2>1. PICK r \in Prepared(id) : c = <<"player", r>>
    BY <1>3
  <2> QED
    BY <1>1, <2>1, CreatorsAre DEF CreatedFor
<1>4. CASE \E j \in Imports : c = <<"course", j>> /\ made[j] = id
  <2>1. PICK j \in Imports : c = <<"course", j>> /\ made[j] = id
    BY <1>4
  <2> QED
    BY <1>2, <2>1, CreatorsAre DEF CreatedFor
<1>5. CASE \E j \in Imports : c = <<"thumbnail", j>> /\ attach[j] = id
  <2>1. PICK j \in Imports : c = <<"thumbnail", j>> /\ attach[j] = id
    BY <1>5
  <2> QED
    BY <1>2, <2>1, CreatorsAre DEF CreatedFor
<1> QED
  BY <1>3, <1>4, <1>5, CreatorsAre

\* A row that comes with the step of a request is one a prepare call has drawn.
LEMMA NewRowIsDrawn ==
  ASSUME TypeOK, PathOK, [Next]_vars, NEW id \in DataIds, ~Exists(id), Exists(id)'
  PROVE  \E r \in Prepared(id)' : rows'[id].owner = call'[r].pid
<1>0. rows \in [DataIds -> Row \cup {NoRow}] /\ NoRow \notin Row
  BY DataAssumption DEF TypeOK
<1>1. PICK r \in Requests : InsertObject(r)
  <2>1. ~UNCHANGED rows
    BY DEF Exists
  <2>2. ASSUME NEW r \in Requests PROVE ~Publish(r) /\ ~Delete(r)
    <3>1. Publish(r) => rows' = UploadCompleted(Head(ids[r]))
      BY DEF Publish
    <3>2. Delete(r) => rows' = Deleted(Head(ids[r]))
      BY DEF Delete
    <3> QED
      BY <1>0, <3>1, <3>2 DEF UploadCompleted, Deleted, Exists
  <2>3. ASSUME NEW o \in DataIds PROVE ~Moderate(o)
    BY <1>0 DEF Moderate, Exists
  <2> QED
    BY <2>1, <2>2, <2>3, ArriveIsReceive DEF Next, Receive, Step, InsertRefused,
       InitializeRating, ReplyPrepared, CheckNotUploaded, CheckOwner, ReadFileSize,
       CompareSizes, CheckAvailable, ReplyDownload, ReplyAttached, CallFails, Upload, Crash, vars,
       dbVars, reqVars
<1>2. /\ id = lastId + 1 /\ rows'[id] = NewRow(call[r].pid, call[r].size)
      /\ pc[r] = "insert" /\ pc'[r] = "rate" /\ ids'[r] = <<id>> /\ call' = call
  BY <1>0, <1>1 DEF InsertObject, Goto, TypeOK, Exists
<1>3. call[r].method \in PrepareMethods
  BY <1>2 DEF PathOK, MethodsAt, Ended
<1> QED
  BY <1>2, <1>3 DEF Prepared, NewRow

\* A new row belongs to the player or the maker it was made for.
LEMMA NewRowHasMaker ==
  ASSUME ImportInv, [ImportNext]_allVars, NEW id \in DataIds, ~Exists(id), Exists(id)'
  PROVE  \E c \in Creators(id)' : rows'[id].owner = CreatedFor(c)'
<1>0. /\ TypeOK /\ ImportTypeOK /\ PathOK /\ CourseOK
      /\ rows \in [DataIds -> Row \cup {NoRow}] /\ NoRow \notin Row
  BY DataAssumption DEF ImportInv, ImportTypeOK, TypeOK
<1>1. CASE [Next]_vars /\ UNCHANGED <<made, attach, course>>
  <2>1. PICK r \in Prepared(id)' : rows'[id].owner = call'[r].pid
    BY <1>0, <1>1, NewRowIsDrawn
  <2>2. <<"player", r>> \in Creators(id)'
    BY <2>1, CreatorsAre
  <2> QED
    BY <2>1, <2>2 DEF CreatedFor
<1>2. ASSUME NEW i \in Imports,
             ReceiveImport(i) \/ ImportStep(i) \/ ErrorIgnored(i) \/ ErrorReported(i)
      PROVE  \E c \in Creators(id)' : rows'[id].owner = CreatedFor(c)'
  <2>0. ImportTypeOK /\ (course[i] \in Course => ImportedRow(i).owner = course[i].owner)
    BY <1>0, ImportedRowType
  <2>1. CASE InsertExplicit(i) \/ InsertAuto(i)
    <3>1. course[i] \in Course /\ UNCHANGED course
      BY <1>0, <2>1 DEF InsertExplicit, InsertAuto, CourseOK
    <3>2. PICK n \in DataIds :
            rows' = [rows EXCEPT ![n] = ImportedRow(i)] /\ made' = [made EXCEPT ![i] = n]
      BY <2>1, <3>1 DEF InsertExplicit, InsertAuto, Course
    <3>3. n = id /\ rows'[id] = ImportedRow(i) /\ made'[i] = id
      BY <1>0, <3>2 DEF Exists, ImportTypeOK
    <3>4. <<"course", i>> \in Creators(id)'
      BY <3>3, CreatorsAre
    <3> QED
      BY <2>0, <3>1, <3>3, <3>4 DEF CreatedFor
  <2>2. CASE RegisterAttach(i)
    <3>1. course[i] \in Course /\ UNCHANGED course
      BY <1>0, <2>2 DEF RegisterAttach, CourseOK
    <3>2. ~UNCHANGED rows
      BY DEF Exists
    <3>3. PICK n \in DataIds :
            rows' = [rows EXCEPT ![n] = ImportedRow(i)] /\ attach' = [attach EXCEPT ![i] = n]
      BY <2>2, <3>2 DEF RegisterAttach
    <3>4. n = id /\ rows'[id] = ImportedRow(i) /\ attach'[i] = id
      BY <1>0, <3>3 DEF Exists, ImportTypeOK
    <3>5. <<"thumbnail", i>> \in Creators(id)'
      BY <3>4, CreatorsAre
    <3> QED
      BY <2>0, <3>1, <3>4, <3>5 DEF CreatedFor
  <2>3. CASE UNCHANGED rows
    BY <2>3 DEF Exists
  <2> QED
    BY <1>2, <2>1, <2>2, <2>3 DEF ImportStep, ReceiveImport, ErrorIgnored, ErrorReported,
       InsertConflict, ReadLastValue, SetVal, InsertRanking, SeedRating, RatingsSeeded,
       PutFile, PutThumbnail, vars, dbVars
<1> QED
  BY <1>0, <1>1, <1>2, PlayersOrImport

\* An owner that is there stays.
LEMMA OwnersStay ==
  ASSUME ImportInv, [ImportNext]_allVars, NEW id \in DataIds, Exists(id)
  PROVE  Exists(id)' /\ rows'[id].owner = rows[id].owner
<1>0. TypeOK /\ PathOK /\ WorkOK /\ ImportTypeOK /\ CourseOK
  BY DEF ImportInv, ImportTypeOK
<1>1. CASE [Next]_vars
  BY <1>0, <1>1, Monotonic
<1>2. CASE \E i \in Imports :
             ReceiveImport(i) \/ ImportStep(i) \/ ErrorIgnored(i) \/ ErrorReported(i)
  BY <1>0, <1>2, MadeNext DEF Exists
<1> QED
  BY <1>0, <1>1, <1>2, PlayersOrImport

\* The row of the event id keeps its one maker.
LEMMA MakerNext ==
  ASSUME BootInv, [BootNext]_everything
  PROVE  EventRowHasOneMaker'
<1>0. TypeOK /\ ImportInv /\ DrawOK /\ FreshOK /\ EventId \in DataIds /\ OneCreator
      /\ EventRowHasOneMaker /\ (Creators(EventId) # {} => Exists(EventId))
  BY EventAssumption DEF BootInv, ImportInv, ImportTypeOK, CreatedExist
<1>1. CASE BootPut \/ BootInsert \/ BootUpdate
  <2>1. /\ Exists(EventId) => Exists(EventId)' /\ rows'[EventId].owner = rows[EventId].owner
        /\ Creators(EventId)' = Creators(EventId)
        /\ \A c : CreatedFor(c)' = CreatedFor(c)
        /\ ~Exists(EventId) /\ Exists(EventId)' => rows'[EventId].owner = System
    BY <1>0, <1>1, BootKeeps
  <2> QED
    BY <1>0, <2>1 DEF EventRowHasOneMaker
<1>2. CASE [ImportNext]_allVars
  <2> SUFFICES ASSUME Exists(EventId)'
               PROVE  \/ Creators(EventId)' = {} /\ rows'[EventId].owner = System
                      \/ \E c \in Creators(EventId)' :
                           /\ Creators(EventId)' = {c}
                           /\ rows'[EventId].owner = CreatedFor(c)'
    BY DEF EventRowHasOneMaker
  <2>1. OneCreator'
    BY <1>0, <1>2, ImportNextInv DEF ImportInv
  <2>2. \A c, d \in Creators(EventId)' : c = d
    BY <1>0, <2>1 DEF OneCreator
  <2>3. CASE ~Exists(EventId)
    <3>1. PICK c \in Creators(EventId)' : rows'[EventId].owner = CreatedFor(c)'
      BY <1>0, <1>2, <2>3, NewRowHasMaker
    <3> QED
      BY <2>2, <3>1
  <2>4. CASE Exists(EventId)
    <3>1. rows'[EventId].owner = rows[EventId].owner
      BY <1>0, <1>2, <2>4, OwnersStay
    <3>2. Creators(EventId)' \subseteq Creators(EventId)
      BY <1>0, <1>2, <2>4, CreatorsNext
    <3>3. CASE Creators(EventId) = {} /\ rows[EventId].owner = System
      BY <3>1, <3>2, <3>3
    <3>4. ASSUME NEW c \in Creators(EventId), rows[EventId].owner = CreatedFor(c)
          PROVE  \E d \in Creators(EventId)' : /\ Creators(EventId)' = {d}
                                               /\ rows'[EventId].owner = CreatedFor(d)'
      <4>1. c \in Creators(EventId)' /\ CreatedFor(c)' = CreatedFor(c)
        BY <1>0, <1>2, MakersStay
      <4> QED
        BY <2>2, <3>1, <3>4, <4>1
    <3> QED
      BY <1>0, <2>4, <3>3, <3>4 DEF EventRowHasOneMaker
  <2> QED
    BY <2>3, <2>4
<1> QED
  BY <1>0, <1>1, <1>2, BootSteps

\* The start itself.
LEMMA BootMoves ==
  ASSUME BootInv, [BootNext]_everything
  PROVE  /\ boot' \in BootLabels /\ boots' \in 1..MaxBoots
         /\ boot' = "update" => Exists(EventId)'
<1>0. /\ boot \in BootLabels /\ boots \in 1..MaxBoots /\ MaxBoots \in Nat
      /\ boot = "update" => Exists(EventId)
      /\ ImportInv /\ TypeOK /\ EventId \in DataIds
  BY EventAssumption DEF BootInv, ImportInv, ImportTypeOK
<1>1. boot' \in BootLabels
  BY <1>0 DEF BootNext, BootStep, BootPut, BootExists, BootInsert, BootUpdate, BootFails,
     Restart, ServedNext, PanelNext, BootLabels, Listening, bootVars, everything
<1>2. boots' \in 1..MaxBoots
  <2>1. boots' = boots \/ (boots < MaxBoots /\ boots' = boots + 1)
    BY DEF BootNext, BootStep, BootPut, BootExists, BootInsert, BootUpdate, BootFails,
       Restart, ServedNext, PanelNext, bootVars, everything
  <2> QED
    BY <1>0, <2>1
<1>3. boot' = "update" => Exists(EventId)'
  <2>1. CASE BootExists
    BY <2>1 DEF BootExists, allVars, vars, dbVars, Exists
  <2>2. CASE BootPut \/ BootInsert \/ BootUpdate \/ BootFails \/ Restart
    BY <2>2 DEF BootPut, BootInsert, BootUpdate, BootFails, Restart
  <2>3. CASE ServedNext \/ PanelNext \/ UNCHANGED everything
    <3>1. boot' = boot /\ [ImportNext]_allVars
      BY <2>3 DEF ServedNext, PanelNext, PlayerNext, ImportNext, everything, bootVars
    <3> QED
      BY <1>0, <3>1, OwnersStay
  <2> QED
    BY <2>1, <2>2, <2>3 DEF BootNext, BootStep
<1> QED
  BY <1>1, <1>2, <1>3

LEMMA BootNextInv == BootInv /\ [BootNext]_everything => BootInv'
<1> SUFFICES ASSUME BootInv, [BootNext]_everything PROVE BootInv'
  OBVIOUS
<1>1. ImportInv' /\ DrawOK' /\ FreshOK'
  <2>1. CASE [ImportNext]_allVars
    BY <2>1, ImportNextInv, DrawStays, FreshNext DEF BootInv
  <2>2. CASE BootPut \/ BootInsert \/ BootUpdate
    BY <2>2, BootKeeps
  <2> QED
    BY <2>1, <2>2, BootSteps DEF BootInv, ImportInv, ImportTypeOK
<1> QED
  BY <1>1, BootMoves, MakerNext DEF BootInv

LEMMA BootInitInv == BootInit => BootInv
<1> SUFFICES ASSUME BootInit PROVE BootInv
  OBVIOUS
<1>1. ImportInv
  BY ImportInitInv DEF BootInit
<1>2. \A r \in Requests : pc[r] = "idle"
  BY DEF BootInit, ImportInit, Init
<1>3. DrawOK /\ FreshOK
  BY <1>2 DEF BootInit, ImportInit, DrawOK, Preparing, FreshOK
<1>4. boot = "put" /\ boots = 1 /\ MaxBoots \in Nat \ {0}
  BY EventAssumption DEF BootInit
<1>5. boot \in BootLabels /\ boots \in 1..MaxBoots
  BY <1>4 DEF BootLabels
<1>6. Creators(EventId) = {}
  <2>1. \A i \in Imports : made[i] # EventId /\ attach[i] # EventId
    BY EventAssumption, ImportAssumption DEF BootInit, ImportInit
  <2> QED
    BY <1>2, <2>1 DEF Creators
<1>7. Exists(EventId) => rows[EventId].owner = System
  BY EventAssumption DEF BootInit, ImportInit, Init, Exists, LeftRow, NewRow
<1> QED
  BY <1>1, <1>3, <1>4, <1>5, <1>6, <1>7 DEF BootInv, EventRowHasOneMaker

LEMMA BootInvariance == BootSpec => []BootInv
BY BootInitInv, BootNextInv, PTL DEF BootSpec
-----------------------------------------------------------------------------
\* Starts, imports and requests keep the types of all tables.
THEOREM BootTypeCorrect == BootSpec => []BootTypeOK
<1>1. BootInv => BootTypeOK
  BY DEF BootInv, ImportInv, BootTypeOK
<1> QED
  BY <1>1, BootInvariance, PTL

\* The row of the event course's id never changes hands: whoever is first, the
\* start, an import or a player's post, keeps it over every later start.
THEOREM EventRowKeepsMaker == BootSpec => []EventRowHasOneMaker
<1>1. BootInv => EventRowHasOneMaker
  BY DEF BootInv
<1> QED
  BY <1>1, BootInvariance, PTL

\* A start moves the objects as ObjectLifecycle allows: the placeholder comes
\* as an import does, and a later start changes no stage and no owner.
THEOREM LifecycleWithStarts == BootSpec => ImplementsLifecycle
<1>1. BootInit => Lifecycle!Init
  BY LifeInit DEF BootInit, ImportInit
<1>2. ASSUME BootInv, [BootNext]_everything
      PROVE  [Lifecycle!Next]_(Lifecycle!lifeVars)
  <2>0. TypeOK /\ ImportInv /\ EventId \in DataIds /\ (boot = "update" => Exists(EventId))
    BY <1>2, EventAssumption DEF BootInv, ImportInv, ImportTypeOK
  <2>1. CASE [ImportNext]_allVars
    BY <2>0, <2>1, ImportLifeNext
  <2>2. CASE UNCHANGED rows
    BY <2>2, SameLife
  <2>3. CASE ~Exists(EventId) /\ rows' = [rows EXCEPT ![EventId] = PlaceholderRow]
    <3>1. /\ rows'[EventId] = PlaceholderRow /\ rows[EventId] = NoRow /\ NoRow \notin Row
          /\ \A j \in DataIds \ {EventId} : rows'[j] = rows[j]
      BY <2>0, <2>3, DataAssumption DEF TypeOK, Exists
    <3>2. /\ StageOf(rows[EventId]) = "absent" /\ StageOf(rows'[EventId]) = "published"
          /\ OwnerOf(rows'[EventId]) = System /\ System \in Pids
      BY <3>1, PlaceholderRowType, EventAssumption DEF StageOf, OwnerOf, PlaceholderRow, NewRow
    <3>3. Lifecycle!Import(EventId)
      BY <2>0, <3>1, <3>2, OneLife DEF Lifecycle!Import
    <3> QED
      BY <2>0, <3>3 DEF Lifecycle!Next
  <2>4. CASE Exists(EventId) /\ rows' = [rows EXCEPT ![EventId].size = EventSize]
    <3>1. rows \in [DataIds -> Row \cup {NoRow}] /\ NoRow \notin Row
          /\ rows[EventId] \in Row /\ EventSize \in Nat
      BY <2>0, <2>4, DataAssumption, EventAssumption DEF TypeOK, Exists
    <3>2. rows'[EventId] = [rows[EventId] EXCEPT !.size = EventSize]
          /\ \A j \in DataIds \ {EventId} : rows'[j] = rows[j]
      BY <2>0, <2>4, <3>1
    <3>3. /\ StageOf(rows'[EventId]) = StageOf(rows[EventId])
          /\ OwnerOf(rows'[EventId]) = OwnerOf(rows[EventId])
      <4>1. /\ rows'[EventId] \in Row /\ rows'[EventId].owner = rows[EventId].owner
            /\ rows'[EventId].deleted = rows[EventId].deleted
            /\ rows'[EventId].completed = rows[EventId].completed
        BY <3>1, <3>2 DEF Row
      <4> QED
        BY <3>1, <4>1 DEF StageOf, OwnerOf
    <3> QED
      BY <3>2, <3>3, SameLife
  <2> QED
    BY <1>2, <2>0, <2>1, <2>2, <2>3, <2>4, BootSteps, BootRows
<1> QED
  BY <1>1, <1>2, BootInvariance, PTL DEF BootSpec, ImplementsLifecycle, Lifecycle!Spec
-----------------------------------------------------------------------------
(* What a start that says it is ready has left.                            *)

\* Beside the start nobody holds a row back, the row of the event id is not
\* completed only if a post has drawn the id, and past PutObject its file is
\* there.
NoReview == \A id \in DataIds : Exists(id) => ~rows[id].review
PendingIsDrawn == Exists(EventId) /\ ~rows[EventId].completed => Prepared(EventId) # {}
FilePut == boot \in {"exists", "insert", "update", "ready"} => HasFile(EventId)

ServedInv == BootInv /\ RequestInv /\ NoReview /\ PendingIsDrawn /\ FilePut

\* The start adds a published row, and a file; else it changes a size.
LEMMA BootRowsStay ==
  ASSUME ServedInv, BootPut \/ BootInsert \/ BootUpdate
  PROVE  RowsStay /\ NoReview' /\ PendingIsDrawn'
<1>0. /\ TypeOK /\ (boot = "update" => Exists(EventId)) /\ EventId \in DataIds
      /\ rows \in [DataIds -> Row \cup {NoRow}] /\ NoRow \notin Row /\ EventSize \in Nat
      /\ s3 \in [Keys -> Sizes \cup {NoFile}] /\ EventSize \in Sizes /\ NoFile \notin Sizes
  BY EventAssumption, DataAssumption DEF ServedInv, RequestInv, BootInv, TypeOK
<1>1. \/ UNCHANGED rows
      \/ ~Exists(EventId) /\ rows' = [rows EXCEPT ![EventId] = PlaceholderRow]
      \/ Exists(EventId) /\ rows' = [rows EXCEPT ![EventId].size = EventSize]
  BY <1>0, BootRows
<1>2. ASSUME NEW id \in DataIds
      PROVE  /\ Exists(id) => /\ Exists(id)' /\ rows'[id].owner = rows[id].owner
                              /\ rows'[id].completed = rows[id].completed
                              /\ rows'[id].deleted = rows[id].deleted
                              /\ rows'[id].review = rows[id].review
             /\ ~Exists(id) /\ Exists(id)' =>
                  rows'[id].completed /\ ~rows'[id].deleted /\ ~rows'[id].review
  <2>1. CASE UNCHANGED rows
    BY <2>1 DEF Exists
  <2>2. CASE ~Exists(EventId) /\ rows' = [rows EXCEPT ![EventId] = PlaceholderRow]
    <3>1. /\ PlaceholderRow.completed /\ ~PlaceholderRow.deleted /\ ~PlaceholderRow.review
      BY DEF PlaceholderRow, NewRow
    <3> QED
      BY <1>0, <2>2, <3>1 DEF Exists
  <2>3. CASE Exists(EventId) /\ rows' = [rows EXCEPT ![EventId].size = EventSize]
    BY <1>0, <2>3 DEF Exists, Row
  <2> QED
    BY <1>1, <2>1, <2>2, <2>3
<1>3. ASSUME NEW id \in DataIds, HasFile(id) PROVE HasFile(id)'
  <2>1. CASE BootPut
    <3> DEFINE key == <<"bin", id>>
               eventKey == <<"bin", EventId>>
    <3>1. s3' = [s3 EXCEPT ![eventKey] = EventSize] /\ key \in Keys
      BY <2>1 DEF BootPut, Keys
    <3> HIDE DEF key, eventKey
    <3>2. s3[key] # NoFile
      BY <1>3 DEF HasFile, key
    <3>3. s3'[key] # NoFile
      BY <1>0, <3>1, <3>2
    <3> QED
      BY <3>3 DEF HasFile, key
  <2>2. CASE UNCHANGED s3
    BY <1>3, <2>2 DEF HasFile
  <2> QED
    BY <2>1, <2>2 DEF BootInsert, BootUpdate
<1>4. PendingIsDrawn'
  <2>1. Prepared(EventId)' = Prepared(EventId)
    BY BootAlone DEF Prepared
  <2> QED
    BY <1>0, <1>2, <2>1 DEF ServedInv, PendingIsDrawn
<1> QED
  BY <1>2, <1>3, <1>4 DEF RowsStay, ServedInv, NoReview

\* Requests and imports hold no row back: review is written by moderators.
LEMMA ReviewNext ==
  ASSUME TypeOK, CourseOK, NoReview, [ImportNext]_allVars
  PROVE  NoReview'
<1>0. rows \in [DataIds -> Row \cup {NoRow}] /\ NoRow \notin Row
  BY DataAssumption DEF TypeOK
<1>1. ASSUME NEW n \in DataIds, NEW row, ~row.review, rows' = [rows EXCEPT ![n] = row]
      PROVE  NoReview'
  BY <1>0, <1>1 DEF NoReview, Exists
<1>2. CASE UNCHANGED rows
  BY <1>2 DEF NoReview, Exists
<1>3. ASSUME NEW r \in Requests, InsertObject(r) PROVE NoReview'
  <2>1. ~NewRow(call[r].pid, call[r].size).review
    BY DEF NewRow
  <2>2. /\ lastId + 1 \in DataIds
        /\ rows' = [rows EXCEPT ![lastId + 1] = NewRow(call[r].pid, call[r].size)]
    BY <1>3 DEF InsertObject
  <2> QED
    BY <1>1, <2>1, <2>2
<1>4. ASSUME NEW r \in Requests, Publish(r) \/ Delete(r) PROVE NoReview'
  <2>1. rows' = UploadCompleted(Head(ids[r])) \/ rows' = Deleted(Head(ids[r]))
    BY <1>4 DEF Publish, Delete
  <2> QED
    BY <1>0, <2>1 DEF UploadCompleted, Deleted, NoReview, Exists, Row
<1>5. ASSUME NEW i \in Imports,
             ReceiveImport(i) \/ ImportStep(i) \/ ErrorIgnored(i) \/ ErrorReported(i)
      PROVE  NoReview'
  <2>1. ~ImportedRow(i).review
    BY DEF ImportedRow, NewRow
  <2> QED
    BY <1>1, <1>2, <1>5, <2>1, ImportAddsRow
<1>6. CASE PlayerNext
  <2>1. ASSUME NEW r \in Requests, Arrive(r) \/ Step(r) \/ CallFails(r)
        PROVE  NoReview'
    BY <1>2, <1>3, <1>4, <2>1, ArriveIsReceive DEF Receive, Step, InsertRefused,
       InitializeRating, ReplyPrepared, CheckNotUploaded, CheckOwner, ReadFileSize,
       CompareSizes, CheckAvailable, ReplyDownload, ReplyAttached, CallFails, dbVars
  <2>2. ASSUME NEW k \in Keys, NEW n \in Sizes, Upload(k, n) PROVE NoReview'
    BY <1>2, <2>2 DEF Upload, dbVars
  <2> QED
    BY <1>6, <2>1, <2>2 DEF PlayerNext
<1>7. CASE CrashAll \/ UNCHANGED allVars
  BY <1>2, <1>7 DEF CrashAll, allVars, vars, dbVars
<1> QED
  BY <1>5, <1>6, <1>7 DEF ImportNext, AdminNext

\* A row without its upload stays that of the post which has drawn the id.
LEMMA PendingNext ==
  ASSUME ServedInv, [ImportNext]_allVars
  PROVE  PendingIsDrawn' /\ (HasFile(EventId) => HasFile(EventId)')
<1>0. /\ TypeOK /\ PathOK /\ WorkOK /\ DrawOK /\ PendingIsDrawn /\ EventId \in DataIds
      /\ ImportTypeOK /\ CourseOK /\ rows \in [DataIds -> Row \cup {NoRow}]
  BY EventAssumption DEF ServedInv, BootInv, ImportInv, RequestInv, TypeOK
<1>1. CASE [Next]_vars
  <2>1. /\ Exists(EventId) /\ rows[EventId].completed => rows'[EventId].completed
        /\ HasFile(EventId) => HasFile(EventId)'
    BY <1>0, <1>1, Monotonic
  <2>2. Exists(EventId) /\ ~rows[EventId].completed => Prepared(EventId)' # {}
    BY <1>0, <1>1, PreparedStay DEF PendingIsDrawn
  <2>3. ~Exists(EventId) /\ Exists(EventId)' => Prepared(EventId)' # {}
    BY <1>0, <1>1, NewRowIsDrawn
  <2> QED
    BY <2>1, <2>2, <2>3 DEF PendingIsDrawn
<1>2. ASSUME NEW i \in Imports,
             ReceiveImport(i) \/ ImportStep(i) \/ ErrorIgnored(i) \/ ErrorReported(i)
      PROVE  PendingIsDrawn' /\ (HasFile(EventId) => HasFile(EventId)')
  <2>1. HasFile(EventId) => HasFile(EventId)'
    BY <1>0, <1>2, ImportRowsStay DEF RowsStay
  <2>2. Prepared(EventId)' = Prepared(EventId)
    BY <1>2, RequestsAlone DEF Prepared
  <2>3. ImportedRow(i).completed
    BY DEF ImportedRow, NewRow
  <2>4. Exists(EventId)' /\ ~rows'[EventId].completed => Exists(EventId) /\ ~rows[EventId].completed
    BY <1>0, <1>2, <2>3, ImportAddsRow DEF Exists
  <2> QED
    BY <1>0, <2>1, <2>2, <2>4 DEF PendingIsDrawn
<1> QED
  BY <1>0, <1>1, <1>2, PlayersOrImport

\* The start says it is ready only past PutObject, and the file stays.
LEMMA FileNext ==
  ASSUME ServedInv, [BootNext]_everything
  PROVE  FilePut'
<1>0. /\ TypeOK /\ EventId \in DataIds /\ s3 \in [Keys -> Sizes \cup {NoFile}]
      /\ EventSize \in Sizes /\ NoFile \notin Sizes
  BY EventAssumption, DataAssumption DEF ServedInv, RequestInv, TypeOK
<1>1. CASE BootPut
  <2>1. <<"bin", EventId>> \in Keys
    BY <1>0 DEF Keys
  <2> QED
    BY <1>0, <1>1, <2>1 DEF BootPut, FilePut, HasFile
<1>2. CASE BootExists \/ BootInsert \/ BootUpdate \/ BootFails \/ Restart
  <2>1. boot' \in {"exists", "insert", "update", "ready"} => HasFile(EventId) /\ UNCHANGED s3
    BY <1>2 DEF BootExists, BootInsert, BootUpdate, BootFails, Restart, allVars, vars,
       ServedInv, FilePut
  <2> QED
    BY <2>1 DEF FilePut, HasFile
<1>3. CASE ServedNext \/ PanelNext \/ UNCHANGED everything
  <2>1. boot' = boot /\ [ImportNext]_allVars
    BY <1>3 DEF ServedNext, PanelNext, PlayerNext, ImportNext, everything, bootVars
  <2> QED
    BY <2>1, PendingNext DEF ServedInv, FilePut
<1> QED
  BY <1>1, <1>2, <1>3 DEF BootNext, BootStep

LEMMA ServedNextInv == ServedInv /\ [BootNext]_everything => ServedInv'
<1> SUFFICES ASSUME ServedInv, [BootNext]_everything PROVE ServedInv'
  OBVIOUS
<1>0. TypeOK /\ CourseOK /\ ImportInv /\ RequestInv /\ BootInv /\ NoReview
  BY DEF ServedInv, BootInv, ImportInv, RequestInv
<1>1. BootInv' /\ FilePut'
  BY <1>0, BootNextInv, FileNext
<1>2. RequestInv' /\ NoReview' /\ PendingIsDrawn'
  <2>1. CASE [ImportNext]_allVars
    BY <1>0, <2>1, RequestsBesideImports, ReviewNext, PendingNext
  <2>2. CASE BootPut \/ BootInsert \/ BootUpdate
    <3>1. TypeOK'
      BY <1>1 DEF BootInv, ImportInv, ImportTypeOK
    <3> QED
      BY <1>0, <2>2, <3>1, BootAlone, BootRowsStay, RequestsUndisturbed
  <2> QED
    BY <1>0, <2>1, <2>2, BootSteps
<1> QED
  BY <1>1, <1>2 DEF ServedInv

LEMMA ServedInvariance == BootSpec => []ServedInv
<1>1. BootInit => ServedInv
  <2> SUFFICES ASSUME BootInit PROVE ServedInv
    OBVIOUS
  <2>1. BootInv /\ RequestInv
    BY BootInitInv, InitInv DEF BootInit, ImportInit, IInv
  <2>2. \A id \in DataIds : Exists(id) => ~rows[id].review /\ rows[id].completed
    BY DEF BootInit, ImportInit, Init, Exists, LeftRow, NewRow
  <2>3. FilePut
    BY DEF BootInit, FilePut
  <2> QED
    BY <2>1, <2>2, <2>3, EventAssumption DEF ServedInv, NoReview, PendingIsDrawn
<1> QED
  BY <1>1, ServedNextInv, PTL DEF BootSpec

\* When a start says it is ready, the event course can be played; only where
\* somebody has deleted it, or a player's post was given its id, it may not.
\* The check for the row and the statement that follows it need not be one.
THEOREM ReadyStartServes == BootSpec => ReadyIsServed
<1> DEFINE Served == boot' = "ready" /\ boot # "ready" =>
                       /\ Exists(EventId)' /\ HasFile(EventId)'
                       /\ IsObjectAvailable(EventId)' \/ Removed \/ Drawn
<1>1. ASSUME ServedInv, [BootNext]_everything PROVE [Served]_everything
  <2> SUFFICES ASSUME boot' = "ready", boot # "ready"
               PROVE  /\ Exists(EventId)' /\ HasFile(EventId)'
                      /\ IsObjectAvailable(EventId)' \/ Removed \/ Drawn
    OBVIOUS
  <2>0. /\ rows \in [DataIds -> Row \cup {NoRow}] /\ NoRow \notin Row /\ EventId \in DataIds
        /\ EventSize \in Nat /\ NoReview /\ PendingIsDrawn /\ FilePut /\ DeletedByOwnerOrAdmin
        /\ boot = "update" => Exists(EventId)
    BY <1>1, DataAssumption, EventAssumption DEF ServedInv, RequestInv, BootInv, TypeOK
  <2>1. BootInsert \/ BootUpdate
    BY <1>1 DEF BootNext, BootStep, BootPut, BootExists, BootFails, Restart, ServedNext,
       PanelNext, bootVars, everything, Listening
  <2>2. HasFile(EventId)'
    BY <2>0, <2>1 DEF BootInsert, BootUpdate, FilePut, HasFile
  <2>3. CASE BootInsert
    <3>1. rows' = [rows EXCEPT ![EventId] = PlaceholderRow]
      BY <2>3 DEF BootInsert
    <3>2. rows'[EventId] = PlaceholderRow
      BY <2>0, <3>1
    <3>3. /\ PlaceholderRow \in Row /\ PlaceholderRow.completed /\ ~PlaceholderRow.deleted
          /\ ~PlaceholderRow.review
      BY PlaceholderRowType DEF PlaceholderRow, NewRow
    <3> QED
      BY <2>0, <2>2, <3>2, <3>3 DEF Exists, IsObjectAvailable
  <2>4. CASE BootUpdate
    <3>1. Exists(EventId) /\ rows' = [rows EXCEPT ![EventId].size = EventSize]
      BY <2>0, <2>4 DEF BootUpdate
    <3>2. /\ Exists(EventId)' /\ rows'[EventId].completed = rows[EventId].completed
          /\ rows'[EventId].deleted = rows[EventId].deleted
          /\ rows'[EventId].review = rows[EventId].review
      BY <2>0, <3>1 DEF Exists, Row
    <3>3. rows[EventId].deleted => Removed
      BY <2>0, <3>1 DEF DeletedByOwnerOrAdmin, Removed
    <3>4. ~rows[EventId].completed => Drawn
      BY <2>0, <3>1 DEF PendingIsDrawn, Prepared, Drawn
    <3>5. ~rows[EventId].review
      BY <2>0, <3>1 DEF NoReview
    <3> QED
      BY <2>2, <3>2, <3>3, <3>4, <3>5 DEF IsObjectAvailable
  <2> QED
    BY <2>1, <2>3, <2>4
<1> QED
  BY <1>1, ServedInvariance, PTL DEF BootSpec, ReadyIsServed
=============================================================================

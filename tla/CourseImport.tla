---------------------------- MODULE CourseImport ----------------------------
(***************************************************************************)
(* The admin panel's course import, running beside the players' requests   *)
(* of DataStore on the same tables, id sequence and bucket.  An import is  *)
(* an HTTP handler in a goroutine of its own: about a dozen SQL statements *)
(* and S3 calls without a transaction, the errors of most of which are     *)
(* dropped or only logged.                                                 *)
(***************************************************************************)
EXTENDS DataStore

CONSTANTS Imports,      \* the import requests
          Courses,      \* what the admin submits in this instance
          AutoId,       \* stands for an import without an explicit data id
          MayFail       \* whether the statements whose errors are dropped fail

\* A submission: the maker, the course file, the id it was exported under, and
\* whether a metadata file comes with it.
Course == [owner : Pids, size : Sizes, id : DataIds \cup {AutoId}, meta : BOOLEAN]

ASSUME ImportAssumption ==
  /\ AutoId \notin DataIds /\ AutoId \in Nat
  /\ Courses \subseteq Course /\ MayFail \in BOOLEAN

VARIABLES ipc,      \* the next call of each import
          course,   \* what it was given
          made,     \* the data id of the course it created, or AutoId
          attach,   \* the data id of its thumbnail's row, or AutoId
          unseeded, \* the rating slots it has still to write
          lastRead, \* the sequence value its setval statement read
          ranked    \* ids with a row for application 0 in
                    \* object_custom_rankings: the courses players can find

importVars == <<ipc, course, made, attach, unseeded, lastRead, ranked>>
allVars    == <<vars, importVars>>

ImportLabels == {"idle", "insert", "lastvalue", "setval", "ranking", "ratings",
                 "file", "thumbnail", "attach", "stars", "metadata",
                 "ok", "conflict", "error", "lost"}
ImportEnded == {"ok", "conflict", "error", "lost"}
Importing(i) == ipc[i] \notin ImportEnded \cup {"idle"}

ImportTypeOK ==
  /\ TypeOK
  /\ ipc \in [Imports -> ImportLabels]
  /\ course \in [Imports -> Course \cup {NoCall}]
  /\ made \in [Imports -> DataIds \cup {AutoId}]
  /\ attach \in [Imports -> DataIds \cup {AutoId}]
  /\ unseeded \in [Imports -> SUBSET Slots]
  /\ lastRead \in [Imports -> Nat]
  /\ ranked \subseteq DataIds

ImportInit ==
  /\ Init
  /\ ipc = [i \in Imports |-> "idle"]
  /\ course = [i \in Imports |-> NoCall]
  /\ made = [i \in Imports |-> AutoId]
  /\ attach = [i \in Imports |-> AutoId]
  /\ unseeded = [i \in Imports |-> Slots]
  /\ lastRead = [i \in Imports |-> 0]
  /\ ranked = {}

ImportGoto(i, label) == ipc' = [ipc EXCEPT ![i] = label]
-----------------------------------------------------------------------------
\* handleImport has parsed the form, the course file and the metadata.
ReceiveImport(i) ==
  /\ ipc[i] = "idle"
  /\ \E c \in Courses : course' = [course EXCEPT ![i] = c]
  /\ ImportGoto(i, "insert")
  /\ UNCHANGED <<vars, made, attach, unseeded, lastRead, ranked>>

ImportedRow(i) == [NewRow(course[i].owner, course[i].size) EXCEPT !.completed = TRUE]

\* Fault: the import overwrites a row that has its id.
InsertExplicitFault(i) ==
  /\ ipc[i] = "insert" /\ course[i].id # AutoId
  /\ rows' = [rows EXCEPT ![course[i].id] = ImportedRow(i)]
  /\ made' = [made EXCEPT ![i] = course[i].id]
  /\ ImportGoto(i, "lastvalue")
  /\ UNCHANGED <<lastId, ratings, s3, grants, reqVars,
                 course, attach, unseeded, lastRead, ranked>>

\* INSERT under the id the course was exported with.
InsertExplicit(i) ==
  /\ ipc[i] = "insert" /\ course[i].id # AutoId
  /\ ~Exists(course[i].id)
  /\ rows' = [rows EXCEPT ![course[i].id] = ImportedRow(i)]
  /\ made' = [made EXCEPT ![i] = course[i].id]
  /\ ImportGoto(i, "lastvalue")
  /\ UNCHANGED <<lastId, ratings, s3, grants, reqVars,
                 course, attach, unseeded, lastRead, ranked>>

\* INSERT under the next id of the sequence.
InsertAuto(i) ==
  /\ ipc[i] = "insert" /\ course[i].id = AutoId
  /\ lastId + 1 \in DataIds /\ ~Exists(lastId + 1)
  /\ lastId' = lastId + 1
  /\ rows' = [rows EXCEPT ![lastId + 1] = ImportedRow(i)]
  /\ made' = [made EXCEPT ![i] = lastId + 1]
  /\ ImportGoto(i, "ranking")
  /\ UNCHANGED <<ratings, s3, grants, reqVars,
                 course, attach, unseeded, lastRead, ranked>>

\* Code 23505, ErrCourseAlreadyExists: answered with 409.  An id drawn from
\* the sequence is spent.
InsertConflict(i) ==
  /\ ipc[i] = "insert"
  /\ \/ course[i].id # AutoId /\ Exists(course[i].id) /\ UNCHANGED lastId
     \/ /\ course[i].id = AutoId /\ lastId + 1 \in DataIds /\ Exists(lastId + 1)
        /\ lastId' = lastId + 1
  /\ ImportGoto(i, "conflict")
  /\ UNCHANGED <<rows, ratings, s3, grants, reqVars,
                 course, made, attach, unseeded, lastRead, ranked>>

\* SELECT setval(..., GREATEST(id, (SELECT last_value ...))) first reads the
\* sequence ...
ReadLastValue(i) ==
  /\ ipc[i] = "lastvalue"
  /\ lastRead' = [lastRead EXCEPT ![i] = lastId]
  /\ ImportGoto(i, "setval")
  /\ UNCHANGED <<vars, course, made, attach, unseeded, ranked>>

\* ... and then sets it; nothing locks the sequence in between.
SetVal(i) ==
  /\ ipc[i] = "setval"
  /\ lastId' = IF made[i] > lastRead[i] THEN made[i] ELSE lastRead[i]
  /\ ImportGoto(i, "ranking")
  /\ UNCHANGED <<rows, ratings, s3, grants, reqVars,
                 course, made, attach, unseeded, lastRead, ranked>>

\* The row of application 0, by AdminImportCourse and again by AdminSetStars.
InsertRanking(i) ==
  /\ ipc[i] \in {"ranking", "stars"}
  /\ ranked' = ranked \cup {made[i]}
  /\ ImportGoto(i, IF ipc[i] = "ranking" THEN "ratings" ELSE "metadata")
  /\ UNCHANGED <<vars, course, made, attach, unseeded, lastRead>>

AfterRatings(i) == IF ipc[i] = "ratings" THEN "file" ELSE "ok"

\* AdminSetCourseRatings upserts one slot after the other; it runs once with
\* zeros and once more with the metadata.
SeedRating(i) ==
  /\ ipc[i] \in {"ratings", "metadata"}
  /\ \E slot \in unseeded[i] :
       /\ ratings' = [ratings EXCEPT ![made[i]] = @ \cup {slot}]
       /\ unseeded' = [unseeded EXCEPT ![i] = @ \ {slot}]
  /\ UNCHANGED <<rows, lastId, s3, grants, reqVars,
                 ipc, course, made, attach, lastRead, ranked>>

RatingsSeeded(i) ==
  /\ ipc[i] \in {"ratings", "metadata"} /\ unseeded[i] = {}
  /\ unseeded' = [unseeded EXCEPT ![i] = Slots]
  /\ ImportGoto(i, AfterRatings(i))
  /\ UNCHANGED <<vars, course, made, attach, lastRead, ranked>>

\* Fault: the error of the course file's PutObject is only logged.
PutFileFault(i) ==
  /\ ipc[i] = "file"
  /\ s3' \in {s3, [s3 EXCEPT ![<<"bin", made[i]>>] = course[i].size]}
  /\ ImportGoto(i, "thumbnail")
  /\ UNCHANGED <<dbVars, grants, reqVars,
                 course, made, attach, unseeded, lastRead, ranked>>

\* PutObject of smm/<id>.bin
PutFile(i) ==
  /\ ipc[i] = "file"
  /\ s3' = [s3 EXCEPT ![<<"bin", made[i]>>] = course[i].size]
  /\ ImportGoto(i, "thumbnail")
  /\ UNCHANGED <<dbVars, grants, reqVars,
                 course, made, attach, unseeded, lastRead, ranked>>

\* PutObject of smm/<id>.jpg, the id being the course's.  Nothing depends on
\* the size of a thumbnail: as good as any is that of the course.
PutThumbnail(i) ==
  /\ ipc[i] = "thumbnail"
  /\ s3' = [s3 EXCEPT ![<<"jpg", made[i]>>] = course[i].size]
  /\ ImportGoto(i, "attach")
  /\ UNCHANGED <<dbVars, grants, reqVars,
                 course, made, attach, unseeded, lastRead, ranked>>

AfterThumbnail(i) == IF course[i].meta THEN "stars" ELSE "ok"

\* Fault: the thumbnail's id is counted on, past the end of the sequence.
RegisterAttachFault(i) ==
  /\ ipc[i] = "attach"
  /\ lastId' = lastId + 1
  /\ rows' = [id \in DataIds |->
                IF id = lastId + 1 /\ ~Exists(id) THEN ImportedRow(i) ELSE rows[id]]
  /\ attach' = [attach EXCEPT ![i] = lastId + 1]
  /\ ImportGoto(i, AfterThumbnail(i))
  /\ UNCHANGED <<ratings, s3, grants, reqVars,
                 course, made, unseeded, lastRead, ranked>>

\* AdminRegisterCourseAttachFile: a row of its own for the thumbnail, under
\* the next id of the sequence.  A refused INSERT is only logged.
RegisterAttach(i) ==
  /\ ipc[i] = "attach" /\ lastId + 1 \in DataIds
  /\ lastId' = lastId + 1
  /\ IF Exists(lastId + 1) THEN UNCHANGED <<rows, attach>>
     ELSE /\ rows' = [rows EXCEPT ![lastId + 1] = ImportedRow(i)]
          /\ attach' = [attach EXCEPT ![i] = lastId + 1]
  /\ ImportGoto(i, AfterThumbnail(i))
  /\ UNCHANGED <<ratings, s3, grants, reqVars,
                 course, made, unseeded, lastRead, ranked>>
-----------------------------------------------------------------------------
\* The errors that are dropped or logged: the import goes on without.
ErrorIgnored(i) ==
  /\ MayFail
  /\ \/ ipc[i] \in {"lastvalue", "setval"} /\ ImportGoto(i, "ranking")
     \/ ipc[i] = "ranking" /\ ImportGoto(i, "ratings")
     \/ ipc[i] = "stars" /\ ImportGoto(i, "metadata")
     \/ ipc[i] \in {"ratings", "metadata"} /\ ImportGoto(i, AfterRatings(i))
     \/ ipc[i] \in {"thumbnail", "attach"} /\ ImportGoto(i, AfterThumbnail(i))
  /\ unseeded' = [unseeded EXCEPT ![i] = Slots]
  /\ UNCHANGED <<vars, course, made, attach, lastRead, ranked>>

\* Fault: the row goes when its file fails.
ErrorReportedFault(i) ==
  /\ ipc[i] \in {"insert", "file"}
  /\ rows' = IF ipc[i] = "file" THEN [rows EXCEPT ![made[i]] = NoRow] ELSE rows
  /\ ImportGoto(i, "error")
  /\ UNCHANGED <<lastId, ratings, s3, grants, reqVars,
                 course, made, attach, unseeded, lastRead, ranked>>

\* The errors that end the import with a 500 (and the sequence used up).
ErrorReported(i) ==
  /\ ipc[i] \in {"insert", "file"}
  /\ ImportGoto(i, "error")
  /\ UNCHANGED <<vars, course, made, attach, unseeded, lastRead, ranked>>

\* The process ends in the middle of requests and imports.
CrashAll ==
  /\ \/ \E r \in Requests : InFlight(r)
     \/ \E i \in Imports : Importing(i)
  /\ pc' = [r \in Requests |-> IF InFlight(r) THEN "lost" ELSE pc[r]]
  /\ ipc' = [i \in Imports |-> IF Importing(i) THEN "lost" ELSE ipc[i]]
  /\ UNCHANGED <<dbVars, s3, grants, call, ids, todo, seen,
                 course, made, attach, unseeded, lastRead, ranked>>

ImportStep(i) ==
  \/ InsertExplicit(i) \/ InsertAuto(i) \/ InsertConflict(i)
  \/ ReadLastValue(i) \/ SetVal(i) \/ InsertRanking(i)
  \/ SeedRating(i) \/ RatingsSeeded(i)
  \/ PutFile(i) \/ PutThumbnail(i) \/ RegisterAttach(i)

\* A step of the players' requests or of their consoles.
PlayerNext ==
  /\ \/ \E r \in Requests : Arrive(r) \/ Step(r) \/ CallFails(r)
     \/ \E k \in Keys, n \in Sizes : Upload(k, n)
  /\ UNCHANGED importVars

\* A step of the admin panel.
AdminNext ==
  \E i \in Imports :
    ReceiveImport(i) \/ ImportStep(i) \/ ErrorIgnored(i) \/ ErrorReported(i)

ImportNext == PlayerNext \/ AdminNext \/ CrashAll

ImportSpec == ImportInit /\ [][ImportNext]_allVars
-----------------------------------------------------------------------------
\* Who made the row of an id: the prepare requests and the imports that are
\* past their INSERT.
Creators(id) ==
  ({"player"} \X {r \in Requests : /\ pc[r] # "idle" /\ call[r].method \in PrepareMethods
                                   /\ ids[r] = <<id>>})
  \cup ({"course"} \X {i \in Imports : made[i] = id})
  \cup ({"thumbnail"} \X {i \in Imports : attach[i] = id})

\* No two creators are given the same id, although concurrent imports can set
\* the id sequence back: the primary key refuses the second one.
OneCreator == \A id \in DataIds : \A c, d \in Creators(id) : c = d

\* A course whose import was answered with success has the file the admin
\* sent: no upload form of a player ever pointed at its key.
ImportedKeepsFile ==
  \A i \in Imports : ipc[i] = "ok" =>
    /\ Exists(made[i])
    /\ rows[made[i]].completed /\ rows[made[i]].owner = course[i].owner
    /\ s3[<<"bin", made[i]>>] = course[i].size

\* admin.go:411: "The sequence is bumped past any explicitly-supplied ID so
\* later auto-generated imports never collide with it."
SequenceIsAhead ==
  \A i \in Imports :
    course[i] # NoCall /\ course[i].id # AutoId /\ ipc[i] = "ok" =>
      made[i] <= lastId

\* server.go:576: the thumbnail is uploaded "under the same key a real client
\* would have used", which is the one of the attach object's own id
\* (PrepareAttachFile).
ThumbnailIsAtItsKey ==
  \A i \in Imports :
    attach[i] # AutoId => s3[<<"jpg", attach[i]>>] # NoFile
=============================================================================

----------------------------- MODULE DataStore -----------------------------
(***************************************************************************)
(* The life of a DataStore object: its row in Postgres, its file in S3 and *)
(* the RMC requests that create, publish, read and delete it.              *)
(*                                                                         *)
(* Every request runs in a goroutine of its own and takes no lock and no   *)
(* transaction: between two SQL statements or S3 calls of one request, any *)
(* statement of another may run.  A step of this module is one such call,  *)
(* with the Go code that follows it up to the next call.                   *)
(***************************************************************************)
EXTENDS Naturals, Sequences

CONSTANTS Requests,     \* the goroutines; each one serves one request
          Pids,         \* the players
          DataIds,      \* the data ids that a behaviour may use
          Sizes,        \* file sizes
          Slots,        \* rating slots
          Methods,      \* the methods the players call in this instance
          MaxBatch,     \* longest list given to CompletePostObjects
          SeqStart,     \* last value of the id sequence at the start
          Left,         \* what earlier runs have published: ids with rows
          NoRow, NoFile, NoCall

PrepareMethods == {"preparePostObject", "postMetaBinary", "PrepareAttachFile"}
AllMethods == PrepareMethods \cup
   {"completePostObject", "completePostObjects", "CompleteAttachFile",
    "prepareGetObject", "AdminDeleteCourse"}

\* The columns of datastore.objects that decide who may do what.
Row == [owner : Pids, size : Nat,
        completed : BOOLEAN, deleted : BOOLEAN, review : BOOLEAN]

ASSUME DataAssumption ==
  /\ DataIds \subseteq Nat /\ Sizes \subseteq Nat /\ SeqStart \in Nat
  /\ DOMAIN Left \subseteq DataIds
  /\ \A id \in DOMAIN Left : Left[id] \in [owner : Pids, size : Sizes]
  /\ MaxBatch \in Nat /\ Methods \subseteq AllMethods
  /\ NoFile \notin Nat /\ NoRow \notin Row /\ NoRow \notin Pids

VARIABLES rows,     \* datastore.objects: a row or NoRow for every id
          lastId,   \* last value handed out by object_data_id_seq
          ratings,  \* datastore.object_ratings: the slots that have a row
          s3,       \* the size of the file stored under a key, or NoFile
          grants,   \* the keys a presigned POST form was handed out for
          pc,       \* the next call of each request
          call,     \* the parameters a request was sent with
          ids,      \* the data ids a request has still to work on
          todo,     \* the rating slots it has still to initialize
          seen      \* the S3 size it read

dbVars  == <<rows, lastId, ratings>>
reqVars == <<pc, call, ids, todo, seen>>
vars    == <<rows, lastId, ratings, s3, grants, pc, call, ids, todo, seen>>

\* The keys smm/<id>.bin and smm/<id>.jpg of the bucket.
Keys == {"bin", "jpg"} \X DataIds

Labels == {"idle", "insert", "rate", "info", "select", "owner", "s3size",
           "dbsize", "update", "presign", "delete", "ok", "error", "lost"}
Ended == {"ok", "error", "lost"}
InFlight(r) == pc[r] \notin Ended \cup {"idle"}

Call == [method : AllMethods, pid : Pids, ids : Seq(DataIds),
         size : Nat, slots : SUBSET Slots, success : BOOLEAN]

TypeOK ==
  /\ rows \in [DataIds -> Row \cup {NoRow}]
  /\ lastId \in Nat
  /\ ratings \in [DataIds -> SUBSET Slots]
  /\ s3 \in [Keys -> Sizes \cup {NoFile}]
  /\ grants \subseteq Keys
  /\ pc \in [Requests -> Labels]
  /\ call \in [Requests -> Call \cup {NoCall}]
  /\ ids \in [Requests -> Seq(DataIds)]
  /\ todo \in [Requests -> SUBSET Slots]
  /\ seen \in [Requests -> Nat]
-----------------------------------------------------------------------------
(* SQL statements, as conditions on rows and as new values of rows.        *)

Exists(id) == rows[id] # NoRow

\* IsObjectAvailable: the row is there, uploaded, kept, and not held back.
IsObjectAvailable(id) ==
  /\ Exists(id)
  /\ rows[id].completed /\ ~rows[id].deleted
  /\ ~rows[id].review

\* INSERT without upload_completed: the row waits for its file.
NewRow(pid, size) == [owner |-> pid, size |-> size, completed |-> FALSE,
                      deleted |-> FALSE, review |-> FALSE]

\* UpdateObjectUploadCompletedByDataID(id, TRUE); no row, no effect.
UploadCompleted(id) ==
  IF Exists(id) THEN [rows EXCEPT ![id].completed = TRUE] ELSE rows

\* Fault: the row is removed.
DeletedFault(id) == [rows EXCEPT ![id] = NoRow]

\* DeleteObjectByDataID and AdminDeleteCourse mark the row and keep it.
Deleted(id) ==
  IF Exists(id) THEN [rows EXCEPT ![id].deleted = TRUE] ELSE rows

LeftRow(id) == [NewRow(Left[id].owner, Left[id].size) EXCEPT !.completed = TRUE]

\* The server starts on empty tables, or on what earlier runs have left.
Init ==
  /\ rows = [id \in DataIds |->
       IF id \in DOMAIN Left THEN LeftRow(id) ELSE NoRow]
  /\ s3 = [k \in Keys |->
       IF k[1] = "bin" /\ k[2] \in DOMAIN Left THEN Left[k[2]].size ELSE NoFile]
  /\ lastId = SeqStart
  /\ ratings = [id \in DataIds |-> {}]
  /\ grants = {}
  /\ pc = [r \in Requests |-> "idle"]
  /\ call = [r \in Requests |-> NoCall]
  /\ ids = [r \in Requests |-> <<>>]
  /\ todo = [r \in Requests |-> {}]
  /\ seen = [r \in Requests |-> 0]

Goto(r, label) == pc' = [pc EXCEPT ![r] = label]
-----------------------------------------------------------------------------
(* The arrival of a request.                                               *)

Receive(r, c, label) ==
  /\ pc[r] = "idle" /\ c.method \in Methods
  /\ call' = [call EXCEPT ![r] = c]
  /\ ids' = [ids EXCEPT ![r] = c.ids]
  /\ todo' = [todo EXCEPT ![r] = c.slots]
  /\ Goto(r, label)
  /\ UNCHANGED <<dbVars, s3, grants, seen>>

\* preparePostObject, postMetaBinary, PrepareAttachFile: insert comes first.
ReceivePrepare(r) ==
  \E m \in PrepareMethods, p \in Pids, n \in Sizes, ss \in SUBSET Slots :
    Receive(r, [method |-> m, pid |-> p, ids |-> <<>>, size |-> n,
                slots |-> ss, success |-> TRUE], "insert")

OnIds(m, p, list, success) ==
  [method |-> m, pid |-> p, ids |-> list, size |-> 0, slots |-> {},
   success |-> success]

ReceiveCompletePost(r) ==
  \E p \in Pids, id \in DataIds, success \in BOOLEAN :
    Receive(r, OnIds("completePostObject", p, <<id>>, success), "info")

\* An empty list is answered at once with success.
ReceiveCompletePosts(r) ==
  \E p \in Pids, n \in 0..MaxBatch : \E list \in [1..n -> DataIds] :
    Receive(r, OnIds("completePostObjects", p, list, TRUE),
            IF n = 0 THEN "ok" ELSE "s3size")

\* CompleteAttachFile refuses a failed upload before it touches anything.
ReceiveCompleteAttach(r) ==
  \E p \in Pids, id \in DataIds, success \in BOOLEAN :
    Receive(r, OnIds("CompleteAttachFile", p, <<id>>, success),
            IF success THEN "update" ELSE "error")

\* By data id, or by owner and persistence slot: the lookup of the slot then
\* gives the id, and the request is the one for that id from there on.
ReceiveGet(r) ==
  \E p \in Pids, id \in DataIds :
    Receive(r, OnIds("prepareGetObject", p, <<id>>, TRUE), "info")

\* The admin panel's delete button: one UPDATE, whatever the row's state.
ReceiveAdminDelete(r) ==
  \E p \in Pids, id \in DataIds :
    Receive(r, OnIds("AdminDeleteCourse", p, <<id>>, TRUE), "delete")
-----------------------------------------------------------------------------
(* Creating an object.                                                     *)

\* INSERT ... RETURNING data_id draws the next id from the sequence.
InsertObject(r) ==
  /\ pc[r] = "insert"
  /\ lastId + 1 \in DataIds
  /\ ~Exists(lastId + 1)
  /\ lastId' = lastId + 1
  /\ rows' = [rows EXCEPT ![lastId + 1] = NewRow(call[r].pid, call[r].size)]
  /\ ids' = [ids EXCEPT ![r] = <<lastId + 1>>]
  /\ Goto(r, "rate")
  /\ UNCHANGED <<ratings, s3, grants, call, todo, seen>>

\* The sequence is used up, or the id it gives is taken and the primary key
\* refuses the row.  The id drawn is spent all the same.
InsertRefused(r) ==
  /\ pc[r] = "insert"
  /\ \/ lastId + 1 \notin DataIds /\ UNCHANGED lastId
     \/ /\ lastId + 1 \in DataIds /\ Exists(lastId + 1)
        /\ lastId' = lastId + 1
  /\ Goto(r, "error")
  /\ UNCHANGED <<rows, ratings, s3, grants, call, ids, todo, seen>>

\* INSERT ... ON CONFLICT DO NOTHING, once for each slot asked for.
InitializeRating(r) ==
  /\ pc[r] = "rate"
  /\ \E slot \in todo[r] :
       /\ ratings' = [ratings EXCEPT ![Head(ids[r])] = @ \cup {slot}]
       /\ todo' = [todo EXCEPT ![r] = @ \ {slot}]
  /\ UNCHANGED <<rows, lastId, s3, grants, pc, call, ids, seen>>

\* Fault: the error of the rating loop is not looked at after the loop.
ReplyPreparedFault(r) ==
  /\ pc[r] = "rate"
  /\ grants' = grants \cup {<<"bin", Head(ids[r])>>}
  /\ Goto(r, "ok")
  /\ UNCHANGED <<dbVars, s3, call, ids, todo, seen>>

\* All slots are there: the reply carries the upload form for the new key.
ReplyPrepared(r) ==
  /\ pc[r] = "rate" /\ todo[r] = {}
  /\ grants' = grants \cup
       (CASE call[r].method = "preparePostObject" -> {<<"bin", Head(ids[r])>>}
          [] call[r].method = "PrepareAttachFile" -> {<<"jpg", Head(ids[r])>>}
          [] OTHER -> {})
  /\ Goto(r, "ok")
  /\ UNCHANGED <<dbVars, s3, call, ids, todo, seen>>

\* A console sends a file with a form it was given, possibly a wrong one,
\* possibly more than once while the form lasts.
Upload(k, n) ==
  /\ k \in grants
  /\ s3' = [s3 EXCEPT ![k] = n]
  /\ UNCHANGED <<dbVars, grants, reqVars>>
-----------------------------------------------------------------------------
(* Completing an upload.                                                   *)

\* completePostObject gives up when the object can be read already.  Any
\* error of the lookup, a database error included, lets it go on.
CheckNotUploaded(r) ==
  /\ pc[r] = "info" /\ call[r].method = "completePostObject"
  /\ \/ IsObjectAvailable(Head(ids[r])) /\ Goto(r, "error")
     \/ Goto(r, "owner")
  /\ UNCHANGED <<dbVars, s3, grants, call, ids, todo, seen>>

\* Fault: anybody may complete an upload.
CheckOwnerFault(r) ==
  /\ pc[r] = "owner"
  /\ IF ~Exists(Head(ids[r])) THEN Goto(r, "error")
     ELSE Goto(r, IF call[r].success THEN "s3size" ELSE "delete")
  /\ UNCHANGED <<dbVars, s3, grants, call, ids, todo, seen>>

\* Only the owner goes on, with what the parameter says of the upload.
CheckOwner(r) ==
  /\ pc[r] = "owner"
  /\ LET id == Head(ids[r]) IN
     IF ~Exists(id) \/ rows[id].owner # call[r].pid THEN Goto(r, "error")
     ELSE Goto(r, IF call[r].success THEN "s3size" ELSE "delete")
  /\ UNCHANGED <<dbVars, s3, grants, call, ids, todo, seen>>

\* Fault: the error of S3 is not looked at.
ReadFileSizeFault(r) ==
  /\ pc[r] = "s3size"
  /\ Goto(r, "dbsize")
  /\ seen' = [seen EXCEPT ![r] = s3[<<"bin", Head(ids[r])>>]]
  /\ UNCHANGED <<dbVars, s3, grants, call, ids, todo>>

\* Fault: a missing file counts as an empty one.
ReadFileSizeZeroFault(r) ==
  /\ pc[r] = "s3size"
  /\ LET file == s3[<<"bin", Head(ids[r])>>] IN
     seen' = [seen EXCEPT ![r] = IF file = NoFile THEN 0 ELSE file]
  /\ Goto(r, "dbsize")
  /\ UNCHANGED <<dbVars, s3, grants, call, ids, todo>>

\* Fault: the loop of completePostObjects continues where it should break.
ReadFileSizeSkipFault(r) ==
  /\ pc[r] = "s3size"
  /\ LET file == s3[<<"bin", Head(ids[r])>>] IN
     IF file # NoFile
     THEN Goto(r, "dbsize") /\ seen' = [seen EXCEPT ![r] = file] /\ UNCHANGED ids
     ELSE /\ ids' = [ids EXCEPT ![r] = Tail(@)]
          /\ Goto(r, IF Len(ids[r]) = 1 THEN "ok" ELSE "s3size")
          /\ UNCHANGED seen
  /\ UNCHANGED <<dbVars, s3, grants, call, todo>>

\* S3ObjectSize of smm/<id>.bin
ReadFileSize(r) ==
  /\ pc[r] = "s3size"
  /\ LET file == s3[<<"bin", Head(ids[r])>>] IN
     IF file = NoFile THEN Goto(r, "error") /\ UNCHANGED seen
     ELSE Goto(r, "dbsize") /\ seen' = [seen EXCEPT ![r] = file]
  /\ UNCHANGED <<dbVars, s3, grants, call, ids, todo>>

\* GetObjectSizeByDataID, compared with the size S3 gave.
CompareSizes(r) ==
  /\ pc[r] = "dbsize"
  /\ LET id == Head(ids[r]) IN
     Goto(r, IF Exists(id) /\ rows[id].size = seen[r] THEN "update" ELSE "error")
  /\ UNCHANGED <<dbVars, s3, grants, call, ids, todo, seen>>

\* Fault: the batch loop does not advance.
PublishFault(r) ==
  /\ pc[r] = "update"
  /\ rows' = UploadCompleted(Head(ids[r]))
  /\ Goto(r, IF call[r].method = "completePostObjects" THEN "s3size" ELSE "ok")
  /\ UNCHANGED <<lastId, ratings, s3, grants, call, ids, todo, seen>>

\* The row becomes visible; a batch goes on with its next object, an attach
\* file with the URL of its thumbnail.
Publish(r) ==
  /\ pc[r] = "update"
  /\ rows' = UploadCompleted(Head(ids[r]))
  /\ ids' = [ids EXCEPT ![r] = Tail(@)]
  /\ Goto(r, IF call[r].method = "CompleteAttachFile" THEN "presign"
             ELSE IF Tail(ids[r]) = <<>> THEN "ok" ELSE "s3size")
  /\ UNCHANGED <<lastId, ratings, s3, grants, call, todo, seen>>

\* The reply to CompleteAttachFile carries a URL for smm/<id>.jpg.  When the
\* presigner fails (CallFails), the row stays published under an error reply.
ReplyAttached(r) ==
  /\ pc[r] = "presign"
  /\ Goto(r, "ok")
  /\ UNCHANGED <<dbVars, s3, grants, call, ids, todo, seen>>

\* A failed upload, or the admin, takes the object away.
Delete(r) ==
  /\ pc[r] = "delete"
  /\ rows' = Deleted(Head(ids[r]))
  /\ Goto(r, "ok")
  /\ UNCHANGED <<lastId, ratings, s3, grants, call, ids, todo, seen>>
-----------------------------------------------------------------------------
(* Reading an object.                                                      *)

\* Fault: the availability check of a read is dropped.
CheckAvailableFault(r) ==
  /\ pc[r] = "info" /\ call[r].method = "prepareGetObject"
  /\ Goto(r, "select")
  /\ UNCHANGED <<dbVars, s3, grants, call, ids, todo, seen>>

\* GetObjectInfoByDataID checks that the object is available ...
CheckAvailable(r) ==
  /\ pc[r] = "info" /\ call[r].method = "prepareGetObject"
  /\ Goto(r, IF IsObjectAvailable(Head(ids[r])) THEN "select" ELSE "error")
  /\ UNCHANGED <<dbVars, s3, grants, call, ids, todo, seen>>

\* ... and reads the row in a second statement that does not check again.
\* The reply carries a download URL for smm/<id>.bin, unless the object's
\* permission or password refuses the player, which ends like a failing call.
ReplyDownload(r) ==
  /\ pc[r] = "select"
  /\ Goto(r, IF Exists(Head(ids[r])) THEN "ok" ELSE "error")
  /\ UNCHANGED <<dbVars, s3, grants, call, ids, todo, seen>>
-----------------------------------------------------------------------------
(* Failures and what happens outside the program.                          *)

\* A statement or an S3 call fails: the handler returns its error at once
\* and leaves what it did.  (completePostObject ignores a failing lookup.)
CallFails(r) ==
  /\ InFlight(r)
  /\ ~(pc[r] = "info" /\ call[r].method = "completePostObject")
  /\ Goto(r, "error")
  /\ UNCHANGED <<dbVars, s3, grants, call, ids, todo, seen>>

\* The process ends and restarts; Postgres and S3 keep what they have.
Crash ==
  /\ \E r \in Requests : InFlight(r)
  /\ pc' = [r \in Requests |-> IF InFlight(r) THEN "lost" ELSE pc[r]]
  /\ UNCHANGED <<dbVars, s3, grants, call, ids, todo, seen>>

\* under_review is a column that only moderators' own tools write.
Moderate(id) ==
  /\ Exists(id)
  /\ rows' = [rows EXCEPT ![id].review = ~@]
  /\ UNCHANGED <<lastId, ratings, s3, grants, reqVars>>

Step(r) ==
  \/ InsertObject(r) \/ InsertRefused(r)
  \/ InitializeRating(r) \/ ReplyPrepared(r)
  \/ CheckNotUploaded(r) \/ CheckOwner(r)
  \/ ReadFileSize(r) \/ CompareSizes(r) \/ Publish(r) \/ ReplyAttached(r)
  \/ Delete(r)
  \/ CheckAvailable(r) \/ ReplyDownload(r)

Arrive(r) ==
  \/ ReceivePrepare(r) \/ ReceiveCompletePost(r) \/ ReceiveCompletePosts(r)
  \/ ReceiveCompleteAttach(r) \/ ReceiveGet(r) \/ ReceiveAdminDelete(r)

Next ==
  \/ \E r \in Requests : Arrive(r) \/ Step(r) \/ CallFails(r)
  \/ \E k \in Keys, n \in Sizes : Upload(k, n)
  \/ \E id \in DataIds : Moderate(id)
  \/ Crash

Spec == Init /\ [][Next]_vars

\* The Go scheduler runs every goroutine and every storage call returns.
FairSpec == Spec /\ \A r \in Requests : WF_vars(Step(r))
-----------------------------------------------------------------------------
(* What the requests leave behind.                                         *)

Asked(method, id) ==
  {r \in Requests : /\ pc[r] # "idle" /\ call[r].method = method
                    /\ \E i \in DOMAIN call[r].ids : call[r].ids[i] = id}

\* The attach-file path publishes without looking at S3.  A request has no id
\* left once its UPDATE has run, whatever became of its reply.
AttachCompleted(id) ==
  \E r \in Asked("CompleteAttachFile", id) : ids[r] = <<>>

HasFile(id) == s3[<<"bin", id>>] # NoFile

\* A published object has its file in S3, whatever requests and failures ran
\* in between: completePostObject(s) look at the file long before the UPDATE.
\* Only CompleteAttachFile, which checks nothing, is excepted, also when its
\* reply is an error or is lost.
PublishedHasFile ==
  \A id \in DataIds :
    Exists(id) /\ rows[id].completed => HasFile(id) \/ AttachCompleted(id)

\* An object is only ever deleted by the admin panel or by its own owner's
\* report of a failed upload.
DeletedByOwnerOrAdmin ==
  \A id \in DataIds : Exists(id) /\ rows[id].deleted =>
    \/ Asked("AdminDeleteCourse", id) # {}
    \/ \E r \in Asked("completePostObject", id) :
         ~call[r].success /\ call[r].pid = rows[id].owner

\* A success reply to completePostObject(s) tells the truth of every object
\* named: published with its file, or deleted when a failure was reported.
\* A batch that breaks off half-way must not answer success.
OkMeansDone ==
  \A r \in Requests : pc[r] = "ok" =>
    /\ call[r].method \in {"completePostObject", "completePostObjects"}
         /\ call[r].success =>
           \A i \in DOMAIN call[r].ids :
             LET id == call[r].ids[i] IN
             Exists(id) /\ rows[id].completed /\ HasFile(id)
    /\ call[r].method = "completePostObject" /\ ~call[r].success =>
         LET id == call[r].ids[1] IN Exists(id) /\ rows[id].deleted

\* A download URL is only handed out for an object whose file exists, although
\* the row may be deleted between the check and the reply.
DownloadHasFile ==
  \A r \in Requests :
    pc[r] = "ok" /\ call[r].method = "prepareGetObject" =>
      LET id == call[r].ids[1] IN HasFile(id) \/ AttachCompleted(id)

\* A client that got its reply to a prepare call has a row of its own, with
\* all the rating rows it asked for: later ratings of a missing slot would
\* be lost without an error (RateObjectWithPassword updates zero rows).
PreparedIsComplete ==
  \A r \in Requests :
    pc[r] = "ok" /\ call[r].method \in PrepareMethods =>
      LET id == Head(ids[r]) IN
      /\ rows[id].owner = call[r].pid /\ rows[id].size = call[r].size
      /\ call[r].slots \subseteq ratings[id]
      /\ \A q \in Requests \ {r} :
           pc[q] # "idle" /\ call[q].method \in PrepareMethods => ids[q] # ids[r]

\* Every request that arrives is answered, unless the process ends.
Answered == \A r \in Requests : InFlight(r) ~> pc[r] \in Ended

\* complete_post_object.go:51: an object that can be read "has already been
\* marked as uploaded. So do nothing".  Only the admin may then delete it.
UploadedIsLeftAlone ==
  [][\A id \in DataIds :
       IsObjectAvailable(id) /\ rows'[id].deleted =>
         \E r \in Asked("AdminDeleteCourse", id) : pc[r] = "delete"]_vars

\* The rows seen as the abstract life of an object.
Stage(id) ==
  IF ~Exists(id) THEN "absent"
  ELSE IF rows[id].deleted THEN "withdrawn"
  ELSE IF rows[id].completed THEN "published" ELSE "pending"

Owner(id) == IF Exists(id) THEN rows[id].owner ELSE NoRow

Lifecycle == INSTANCE ObjectLifecycle WITH
  Objects <- DataIds, Owners <- Pids, NoOwner <- NoRow,
  stage <- [id \in DataIds |-> Stage(id)],
  owner <- [id \in DataIds |-> Owner(id)]

\* Every behaviour of the rows is one of the abstract life cycle.
ImplementsLifecycle == Lifecycle!Spec
=============================================================================

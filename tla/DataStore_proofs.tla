-------------------------- MODULE DataStore_proofs --------------------------
(***************************************************************************)
(* Proofs about DataStore: type correctness, the safety invariants of      *)
(* preparing, publishing and deleting, and the refinement of               *)
(* ObjectLifecycle, for any number of requests, players, objects, sizes    *)
(* and slots.                                                              *)
(***************************************************************************)
EXTENDS DataStore, SequenceTheorems, TLAPS

\* The labels at which a request works on the head of ids[r].
Working == {"rate", "info", "select", "owner", "s3size", "dbsize", "update",
            "delete"}

\* The methods on one object.
OneObject == {"completePostObject", "CompleteAttachFile", "prepareGetObject",
              "AdminDeleteCourse"}

\* The methods that pass through a label.
MethodsAt(label) ==
  CASE label \in {"insert", "rate"} -> PrepareMethods
    [] label = "info" -> {"completePostObject", "prepareGetObject"}
    [] label = "select" -> {"prepareGetObject"}
    [] label = "owner" -> {"completePostObject"}
    [] label \in {"s3size", "dbsize"} -> {"completePostObject", "completePostObjects"}
    [] label = "update" ->
         {"completePostObject", "completePostObjects", "CompleteAttachFile"}
    [] label = "presign" -> {"CompleteAttachFile"}
    [] label = "delete" -> {"completePostObject", "AdminDeleteCourse"}
    [] label \in Ended -> AllMethods

\* A request has parameters and stays on the path of its method.
PathOK == \A r \in Requests : pc[r] # "idle" =>
  /\ call[r] \in Call
  /\ call[r].method \in MethodsAt(pc[r])

\* It has an object to work on, and for the methods on one object it is the
\* one the parameters name, until the request has published it.
WorkOK == \A r \in Requests :
  /\ pc[r] \in Working => ids[r] # <<>>
  /\ pc[r] \in Working /\ call[r].method \notin PrepareMethods =>
       \A j \in DOMAIN ids[r] : \E i \in DOMAIN call[r].ids : ids[r][j] = call[r].ids[i]
  /\ pc[r] # "idle" /\ call[r].method \in OneObject
     => /\ DOMAIN call[r].ids = {1}
        /\ pc[r] \in Working => ids[r] = call[r].ids

\* An object readers may see, with its file.
Published(id) == Exists(id) /\ rows[id].completed /\ HasFile(id)

\* Between the size check and the UPDATE the file cannot go away.
CheckedHasFile == \A r \in Requests :
  /\ pc[r] = "dbsize" => HasFile(Head(ids[r]))
  /\ pc[r] = "update" /\ call[r].method # "CompleteAttachFile" =>
       Exists(Head(ids[r])) /\ HasFile(Head(ids[r]))

\* What a completion has gone past is published.
PastIsPublished == \A r \in Requests :
  /\ pc[r] \in {"s3size", "dbsize", "update"} /\ call[r].method # "CompleteAttachFile" =>
       /\ call[r].success
       /\ \A i \in DOMAIN call[r].ids :
           \/ Published(call[r].ids[i])
           \/ \E j \in DOMAIN ids[r] : ids[r][j] = call[r].ids[i]
  /\ pc[r] = "ok" /\ call[r].success
       /\ call[r].method \in {"completePostObject", "completePostObjects"} =>
           \A i \in DOMAIN call[r].ids : Published(call[r].ids[i])

\* A deleting request is the admin's or the owner's report of a failure.
DeleteOK == \A r \in Requests :
  /\ pc[r] = "delete" /\ call[r].method = "completePostObject" =>
       /\ ~call[r].success
       /\ Exists(call[r].ids[1]) /\ rows[call[r].ids[1]].owner = call[r].pid
  /\ pc[r] = "ok" /\ call[r].method = "completePostObject" /\ ~call[r].success =>
       Exists(call[r].ids[1]) /\ rows[call[r].ids[1]].deleted

\* A reader past its check reads an object that has been published.
ReadOK == \A r \in Requests :
  pc[r] \in {"select", "ok"} /\ call[r].method = "prepareGetObject" =>
    Exists(call[r].ids[1]) /\ rows[call[r].ids[1]].completed

\* What the requests know, also while imports add rows beside them ...
RequestInv ==
  /\ TypeOK /\ PathOK /\ WorkOK /\ CheckedHasFile /\ PastIsPublished
  /\ DeleteOK /\ ReadOK /\ DeletedByOwnerOrAdmin

\* ... and the inductive invariant of DataStore.
IInv == RequestInv /\ PublishedHasFile
-----------------------------------------------------------------------------
\* Every SQL statement keeps the table of rows well-formed.
LEMMA RowUpdates ==
  ASSUME TypeOK, NEW id \in DataIds
  PROVE  /\ UploadCompleted(id) \in [DataIds -> Row \cup {NoRow}]
         /\ Deleted(id) \in [DataIds -> Row \cup {NoRow}]
BY DEF TypeOK, UploadCompleted, Deleted, Exists, Row

\* A received request fills in its parameters and nothing else.
LEMMA ReceiveType ==
  ASSUME TypeOK, NEW r \in Requests, NEW c \in Call, NEW label \in Labels,
         Receive(r, c, label)
  PROVE  TypeOK'
BY DEF TypeOK, Receive, Goto, Call, dbVars

\* The requests that arrive are well-formed.
LEMMA ArriveIsReceive ==
  ASSUME NEW r \in Requests, Arrive(r)
  PROVE  \E c \in Call, label \in Labels : Receive(r, c, label)
<1>0. /\ <<>> \in Seq(DataIds) /\ 0 \in Nat /\ {} \in SUBSET Slots
      /\ \A id \in DataIds : <<id>> \in Seq(DataIds)
  OBVIOUS
<1>a. ASSUME NEW m \in AllMethods, NEW p \in Pids, NEW list \in Seq(DataIds),
             NEW success \in BOOLEAN
      PROVE  OnIds(m, p, list, success) \in Call
  BY <1>0 DEF OnIds, Call
<1>1. CASE ReceivePrepare(r)
  <2>1. PICK m \in PrepareMethods, p \in Pids, n \in Sizes, ss \in SUBSET Slots :
          Receive(r, [method |-> m, pid |-> p, ids |-> <<>>, size |-> n,
                      slots |-> ss, success |-> TRUE], "insert")
    BY <1>1 DEF ReceivePrepare
  <2>2. [method |-> m, pid |-> p, ids |-> <<>>, size |-> n,
         slots |-> ss, success |-> TRUE] \in Call
    BY <1>0, DataAssumption DEF Call, AllMethods
  <2> QED
    BY <2>1, <2>2 DEF Labels
<1>2. CASE ReceiveCompletePost(r)
  BY <1>2, <1>0, <1>a DEF ReceiveCompletePost, Labels, AllMethods
<1>3. CASE ReceiveCompletePosts(r)
  <2>1. PICK p \in Pids, n \in 0..MaxBatch :
          \E list \in [1..n -> DataIds] :
            Receive(r, OnIds("completePostObjects", p, list, TRUE),
                    IF n = 0 THEN "ok" ELSE "s3size")
    BY <1>3 DEF ReceiveCompletePosts
  <2>2. PICK list \in [1..n -> DataIds] :
          Receive(r, OnIds("completePostObjects", p, list, TRUE),
                  IF n = 0 THEN "ok" ELSE "s3size")
    BY <2>1
  <2>3. n \in Nat
    BY DataAssumption
  <2>4. list \in Seq(DataIds)
    BY <2>3, SeqDef
  <2>5. OnIds("completePostObjects", p, list, TRUE) \in Call
    BY <2>4, <1>a DEF AllMethods
  <2> QED
    BY <2>2, <2>5 DEF Labels
<1>4. CASE ReceiveCompleteAttach(r)
  BY <1>4, <1>0, <1>a DEF ReceiveCompleteAttach, Labels, AllMethods
<1>5. CASE ReceiveGet(r)
  BY <1>5, <1>0, <1>a DEF ReceiveGet, Labels, AllMethods
<1>6. CASE ReceiveAdminDelete(r)
  BY <1>6, <1>0, <1>a DEF ReceiveAdminDelete, Labels, AllMethods
<1> QED
  BY <1>1, <1>2, <1>3, <1>4, <1>5, <1>6 DEF Arrive

\* PathOK and WorkOK say which request can be at which label.
LEMMA AtLabel ==
  ASSUME TypeOK, PathOK, WorkOK, NEW r \in Requests, pc[r] \in Working
  PROVE  /\ call[r] \in Call
         /\ ids[r] \in Seq(DataIds) /\ ids[r] # <<>>
         /\ Head(ids[r]) \in DataIds /\ Tail(ids[r]) \in Seq(DataIds)
         /\ Head(ids[r]) = ids[r][1] /\ 1 \in DOMAIN ids[r]
<1>1. call[r] \in Call
  BY DEF PathOK, Working
<1>2. ids[r] \in Seq(DataIds) /\ ids[r] # <<>>
  BY DEF TypeOK, WorkOK
<1>3. Head(ids[r]) \in DataIds /\ Tail(ids[r]) \in Seq(DataIds)
  BY <1>2, HeadTailProperties
<1>4. Head(ids[r]) = ids[r][1] /\ 1 \in DOMAIN ids[r]
  BY <1>2, EmptySeq, LenProperties
<1> QED
  BY <1>1, <1>2, <1>3, <1>4

\* What each disjunct of Next keeps well-typed.
LEMMA NextType ==
  ASSUME TypeOK, PathOK, WorkOK, [Next]_vars
  PROVE  TypeOK'
<1> USE DEF TypeOK, Goto, Labels, dbVars, reqVars
<1>1. ASSUME NEW r \in Requests, Arrive(r) PROVE TypeOK'
  <2>1. PICK c \in Call, label \in Labels : Receive(r, c, label)
    BY <1>1, ArriveIsReceive
  <2> QED
    BY <2>1, ReceiveType
<1>2. ASSUME NEW r \in Requests, InsertObject(r) PROVE TypeOK'
  <2>1. call[r].pid \in Pids /\ call[r].size \in Nat
    BY <1>2 DEF InsertObject, PathOK, Call
  <2>2. <<lastId + 1>> \in Seq(DataIds)
    BY <1>2 DEF InsertObject
  <2>3. rows' \in [DataIds -> Row \cup {NoRow}]
    BY <1>2, <2>1 DEF InsertObject, NewRow, Row
  <2> QED
    BY <1>2, <2>2, <2>3 DEF InsertObject
<1>3. ASSUME NEW r \in Requests, InsertRefused(r) PROVE TypeOK'
  BY <1>3 DEF InsertRefused
<1>4. ASSUME NEW r \in Requests, InitializeRating(r) PROVE TypeOK'
  BY <1>4, AtLabel DEF InitializeRating, Working
<1>5. ASSUME NEW r \in Requests, ReplyPrepared(r) PROVE TypeOK'
  <2>1. Head(ids[r]) \in DataIds
    BY <1>5, AtLabel DEF ReplyPrepared, Working
  <2>2. grants' \subseteq Keys
    BY <1>5, <2>1 DEF ReplyPrepared, Keys
  <2> QED
    BY <1>5, <2>2 DEF ReplyPrepared
<1>6. ASSUME NEW r \in Requests,
             CheckNotUploaded(r) \/ CheckOwner(r) \/ CompareSizes(r)
             \/ CheckAvailable(r) \/ ReplyDownload(r) \/ ReplyAttached(r) \/ CallFails(r)
      PROVE  TypeOK'
  BY <1>6 DEF CheckNotUploaded, CheckOwner, CompareSizes, CheckAvailable,
              ReplyDownload, ReplyAttached, CallFails
<1>7. ASSUME NEW r \in Requests, ReadFileSize(r) PROVE TypeOK'
  <2>1. <<"bin", Head(ids[r])>> \in Keys
    BY <1>7, AtLabel DEF ReadFileSize, Working, Keys
  <2>2. seen' \in [Requests -> Nat]
    BY <1>7, <2>1, DataAssumption DEF ReadFileSize
  <2> QED
    BY <1>7, <2>2 DEF ReadFileSize
<1>8. ASSUME NEW r \in Requests, Publish(r) PROVE TypeOK'
  <2>1. Head(ids[r]) \in DataIds /\ Tail(ids[r]) \in Seq(DataIds)
    BY <1>8, AtLabel DEF Publish, Working
  <2>2. rows' \in [DataIds -> Row \cup {NoRow}]
    BY <1>8, <2>1, RowUpdates DEF Publish
  <2> QED
    BY <1>8, <2>1, <2>2 DEF Publish
<1>9. ASSUME NEW r \in Requests, Delete(r) PROVE TypeOK'
  <2>1. rows' \in [DataIds -> Row \cup {NoRow}]
    BY <1>9, AtLabel, RowUpdates DEF Delete, Working
  <2> QED
    BY <1>9, <2>1 DEF Delete
<1>10. ASSUME NEW k \in Keys, NEW n \in Sizes, Upload(k, n) PROVE TypeOK'
  BY <1>10 DEF Upload
<1>11. ASSUME NEW id \in DataIds, Moderate(id) PROVE TypeOK'
  <2>1. rows' \in [DataIds -> Row \cup {NoRow}]
    <3>1. rows[id] \in Row /\ rows \in [DataIds -> Row \cup {NoRow}]
      BY <1>11 DEF Moderate, Exists
    <3>2. [rows[id] EXCEPT !.review = ~@] \in Row
      BY <3>1 DEF Row
    <3>3. rows' = [rows EXCEPT ![id] = [rows[id] EXCEPT !.review = ~@]]
      BY <1>11 DEF Moderate
    <3> QED
      BY <3>1, <3>2, <3>3
  <2> QED
    BY <1>11, <2>1 DEF Moderate
<1>12. CASE Crash
  BY <1>12 DEF Crash
<1>13. CASE UNCHANGED vars
  BY <1>13 DEF vars
<1> QED
  BY <1>1, <1>2, <1>3, <1>4, <1>5, <1>6, <1>7, <1>8, <1>9, <1>10, <1>11,
     <1>12, <1>13 DEF Next, Step
-----------------------------------------------------------------------------
\* Rows, completions, deletions and files only ever come, and the owner stays.
LEMMA Monotonic ==
  ASSUME TypeOK, PathOK, WorkOK, [Next]_vars, NEW id \in DataIds
  PROVE  /\ Exists(id) => /\ Exists(id)'
                          /\ rows'[id].owner = rows[id].owner
                          /\ rows[id].completed => rows'[id].completed
                          /\ rows[id].deleted => rows'[id].deleted
         /\ HasFile(id) => HasFile(id)'
<1> USE DEF Exists, HasFile, dbVars, reqVars
<1>1. ASSUME NEW r \in Requests, Arrive(r) PROVE UNCHANGED <<rows, s3>>
  BY <1>1, ArriveIsReceive DEF Receive
<1>2. ASSUME NEW r \in Requests, InsertObject(r)
      PROVE  /\ Exists(id) => rows'[id] = rows[id]
             /\ UNCHANGED s3
  BY <1>2 DEF InsertObject, TypeOK
<1>3. ASSUME NEW r \in Requests,
             InsertRefused(r) \/ InitializeRating(r) \/ ReplyPrepared(r)
             \/ CheckNotUploaded(r) \/ CheckOwner(r) \/ ReadFileSize(r)
             \/ CompareSizes(r) \/ CheckAvailable(r) \/ ReplyDownload(r) \/ ReplyAttached(r)
             \/ CallFails(r)
      PROVE  UNCHANGED <<rows, s3>>
  BY <1>3 DEF InsertRefused, InitializeRating, ReplyPrepared, CheckNotUploaded,
       CheckOwner, ReadFileSize, CompareSizes, CheckAvailable, ReplyDownload, ReplyAttached, CallFails
<1>4. ASSUME NEW r \in Requests, Publish(r) \/ Delete(r)
      PROVE  /\ Exists(id) => /\ Exists(id)'
                              /\ rows'[id].owner = rows[id].owner
                              /\ rows[id].completed => rows'[id].completed
                              /\ rows[id].deleted => rows'[id].deleted
             /\ UNCHANGED s3
  <2>1. rows' = UploadCompleted(Head(ids[r])) \/ rows' = Deleted(Head(ids[r]))
    BY <1>4 DEF Publish, Delete
  <2>2. Head(ids[r]) \in DataIds /\ rows' \in [DataIds -> Row \cup {NoRow}]
    BY <1>4, <2>1, AtLabel, RowUpdates DEF Publish, Delete, Working
  <2>3. Exists(id) => rows[id] \in Row
    BY DEF TypeOK
  <2>4. Exists(id) => \/ rows'[id] = rows[id]
                      \/ rows'[id] = [rows[id] EXCEPT !.completed = TRUE]
                      \/ rows'[id] = [rows[id] EXCEPT !.deleted = TRUE]
    BY <2>1, <2>2 DEF UploadCompleted, Deleted, TypeOK
  <2>5. Exists(id) => /\ rows'[id] \in Row
                      /\ rows'[id].owner = rows[id].owner
                      /\ rows[id].completed => rows'[id].completed
                      /\ rows[id].deleted => rows'[id].deleted
    BY <2>3, <2>4 DEF Row
  <2> QED
    BY <1>4, <2>5, DataAssumption DEF Publish, Delete
<1>5. ASSUME NEW k \in Keys, NEW n \in Sizes, Upload(k, n)
      PROVE  UNCHANGED rows /\ (HasFile(id) => HasFile(id)')
  BY <1>5, DataAssumption DEF Upload, TypeOK, Keys
<1>6. ASSUME NEW i \in DataIds, Moderate(i)
      PROVE  /\ Exists(id) => /\ Exists(id)'
                              /\ rows'[id].owner = rows[id].owner
                              /\ rows[id].completed => rows'[id].completed
                              /\ rows[id].deleted => rows'[id].deleted
             /\ UNCHANGED s3
  <2>1. Exists(id) => rows[id] \in Row
    BY DEF TypeOK
  <2>2. Exists(id) => /\ rows'[id] \in Row
                      /\ rows'[id].owner = rows[id].owner
                      /\ rows'[id].completed = rows[id].completed
                      /\ rows'[id].deleted = rows[id].deleted
    BY <1>6, <2>1 DEF Moderate, TypeOK, Row
  <2> QED
    BY <1>6, <2>2, DataAssumption DEF Moderate
<1>7. CASE Crash
  BY <1>7 DEF Crash
<1>8. CASE UNCHANGED vars
  BY <1>8 DEF vars
<1> QED
  BY <1>1, <1>2, <1>3, <1>4, <1>5, <1>6, <1>7, <1>8 DEF Next, Step

\* One request moves at a time, except in a crash; an answer is final.
LEMMA Moves ==
  ASSUME TypeOK, [Next]_vars, NEW q \in Requests
  PROVE  \/ UNCHANGED <<pc[q], call[q], ids[q]>>
         \/ /\ InFlight(q) /\ pc'[q] \in {"error", "lost"}
            /\ UNCHANGED <<call[q], ids[q]>>
         \/ Arrive(q)
         \/ InFlight(q) /\ Step(q)
<1> USE DEF TypeOK, Goto, dbVars, reqVars, InFlight, Ended
<1>1. ASSUME NEW r \in Requests, Arrive(r), r # q
      PROVE  UNCHANGED <<pc[q], call[q], ids[q]>>
  BY <1>1, ArriveIsReceive DEF Receive
<1>2. ASSUME NEW r \in Requests, Step(r)
      PROVE  /\ InFlight(r)
             /\ r # q => UNCHANGED <<pc[q], call[q], ids[q]>>
  BY <1>2 DEF Step, InsertObject, InsertRefused, InitializeRating, ReplyPrepared,
       CheckNotUploaded, CheckOwner, ReadFileSize, CompareSizes, Publish,
       Delete, CheckAvailable, ReplyDownload, ReplyAttached
<1>3. ASSUME NEW r \in Requests, CallFails(r)
      PROVE  \/ UNCHANGED <<pc[q], call[q], ids[q]>>
             \/ /\ InFlight(q) /\ pc'[q] = "error"
                /\ UNCHANGED <<call[q], ids[q]>>
  BY <1>3 DEF CallFails
<1>4. ASSUME NEW k \in Keys, NEW n \in Sizes, Upload(k, n)
      PROVE  UNCHANGED <<pc[q], call[q], ids[q]>>
  BY <1>4 DEF Upload
<1>5. ASSUME NEW id \in DataIds, Moderate(id)
      PROVE  UNCHANGED <<pc[q], call[q], ids[q]>>
  BY <1>5 DEF Moderate
<1>6. CASE Crash
  BY <1>6 DEF Crash
<1>7. CASE UNCHANGED vars
  BY <1>7 DEF vars
<1> QED
  BY <1>1, <1>2, <1>3, <1>4, <1>5, <1>6, <1>7 DEF Next

\* A new request starts on the path of its method, with its objects at hand.
LEMMA ArriveStarts ==
  ASSUME TypeOK, NEW q \in Requests, Arrive(q)
  PROVE  /\ pc[q] = "idle" /\ call'[q] \in Call
         /\ call'[q].method \in MethodsAt(pc'[q])
         /\ pc'[q] = "ok" => call'[q].method = "completePostObjects"
                              /\ call'[q].ids = <<>>
         /\ ids'[q] = call'[q].ids
         /\ pc'[q] \in Working => ids'[q] # <<>>
         /\ call'[q].method \in OneObject => DOMAIN call'[q].ids = {1}
         /\ call'[q].method = "completePostObjects" => call'[q].success
         /\ pc'[q] \notin {"dbsize", "select", "rate"}
         /\ pc'[q] = "update" => call'[q].method = "CompleteAttachFile"
         /\ pc'[q] = "s3size" => call'[q].method = "completePostObjects"
         /\ pc'[q] = "delete" => call'[q].method = "AdminDeleteCourse"
         /\ call'[q].method \in PrepareMethods => ids'[q] = <<>>
<1>0. \A c \in Call, label \in Labels : Receive(q, c, label) =>
        pc[q] = "idle" /\ call'[q] = c /\ pc'[q] = label /\ ids'[q] = c.ids
  BY DEF TypeOK, Receive, Goto
<1> USE DEF MethodsAt, OneObject, PrepareMethods, AllMethods, Working, Ended, Labels
<1>a. ASSUME NEW c, NEW label, Receive(q, c, label)
      PROVE  pc[q] = "idle" /\ call'[q] = c /\ pc'[q] = label /\ ids'[q] = c.ids
  BY <1>a DEF TypeOK, Receive, Goto
<1>b. call'[q] \in Call
  BY ArriveIsReceive, <1>0
<1>1. CASE ReceivePrepare(q)
  <2>1. PICK m \in PrepareMethods, p \in Pids, n \in Sizes, ss \in SUBSET Slots :
          Receive(q, [method |-> m, pid |-> p, ids |-> <<>>, size |-> n,
                      slots |-> ss, success |-> TRUE], "insert")
    BY <1>1 DEF ReceivePrepare
  <2>2. pc'[q] = "insert" /\ call'[q].method \in PrepareMethods
        /\ ids'[q] = call'[q].ids /\ ids'[q] = <<>> /\ pc[q] = "idle"
    BY <2>1, <1>a
  <2> QED
    BY <2>2, <1>b
<1>2. CASE ReceiveCompletePost(q)
  <2>1. PICK p \in Pids, id \in DataIds, success \in BOOLEAN :
          Receive(q, OnIds("completePostObject", p, <<id>>, success), "info")
    BY <1>2 DEF ReceiveCompletePost
  <2>2. /\ pc'[q] = "info" /\ call'[q].method = "completePostObject"
        /\ ids'[q] = call'[q].ids /\ call'[q].ids = <<id>> /\ pc[q] = "idle"
    BY <2>1, <1>a DEF OnIds
  <2> QED
    BY <2>2, <1>b
<1>3. CASE ReceiveCompletePosts(q)
  <2>1. PICK p \in Pids, n \in 0..MaxBatch :
          \E list \in [1..n -> DataIds] :
            Receive(q, OnIds("completePostObjects", p, list, TRUE),
                    IF n = 0 THEN "ok" ELSE "s3size")
    BY <1>3 DEF ReceiveCompletePosts
  <2>2. PICK list \in [1..n -> DataIds] :
          Receive(q, OnIds("completePostObjects", p, list, TRUE),
                  IF n = 0 THEN "ok" ELSE "s3size")
    BY <2>1
  <2>3. /\ pc'[q] = IF n = 0 THEN "ok" ELSE "s3size"
        /\ call'[q].method = "completePostObjects" /\ call'[q].success
        /\ ids'[q] = call'[q].ids /\ call'[q].ids = list /\ pc[q] = "idle"
    BY <2>2, <1>a DEF OnIds
  <2>4. list \in Seq(DataIds) /\ n \in Nat
    BY DataAssumption, SeqDef
  <2>5. Len(list) = n
    BY <2>4, LenProperties
  <2>6. n = 0 => list = <<>>
    BY <2>4, <2>5, EmptySeq
  <2>7. n # 0 => list # <<>>
    BY <2>4, <2>5, EmptySeq
  <2> QED
    BY <2>3, <2>6, <2>7, <1>b
<1>4. CASE ReceiveCompleteAttach(q)
  <2>1. PICK p \in Pids, id \in DataIds, success \in BOOLEAN :
          Receive(q, OnIds("CompleteAttachFile", p, <<id>>, success),
                  IF success THEN "update" ELSE "error")
    BY <1>4 DEF ReceiveCompleteAttach
  <2>2. /\ pc'[q] \in {"update", "error"} /\ call'[q].method = "CompleteAttachFile"
        /\ ids'[q] = call'[q].ids /\ call'[q].ids = <<id>> /\ pc[q] = "idle"
    BY <2>1, <1>a DEF OnIds
  <2> QED
    BY <2>2, <1>b
<1>5. CASE ReceiveGet(q)
  <2>1. PICK p \in Pids, id \in DataIds :
          Receive(q, OnIds("prepareGetObject", p, <<id>>, TRUE), "info")
    BY <1>5 DEF ReceiveGet
  <2>2. /\ pc'[q] = "info" /\ call'[q].method = "prepareGetObject"
        /\ ids'[q] = call'[q].ids /\ call'[q].ids = <<id>> /\ pc[q] = "idle"
    BY <2>1, <1>a DEF OnIds
  <2> QED
    BY <2>2, <1>b
<1>6. CASE ReceiveAdminDelete(q)
  <2>1. PICK p \in Pids, id \in DataIds :
          Receive(q, OnIds("AdminDeleteCourse", p, <<id>>, TRUE), "delete")
    BY <1>6 DEF ReceiveAdminDelete
  <2>2. /\ pc'[q] = "delete" /\ call'[q].method = "AdminDeleteCourse"
        /\ ids'[q] = call'[q].ids /\ call'[q].ids = <<id>> /\ pc[q] = "idle"
    BY <2>1, <1>a DEF OnIds
  <2> QED
    BY <2>2, <1>b
<1> QED
  BY <1>1, <1>2, <1>3, <1>4, <1>5, <1>6 DEF Arrive

\* What a step of request q does to its label and its list of objects.
LEMMA StepMoves ==
  ASSUME TypeOK, NEW q \in Requests, Step(q)
  PROVE  /\ UNCHANGED call
         /\ \/ pc[q] = "insert" /\ pc'[q] \in {"rate", "error"}
               /\ (pc'[q] = "rate" => ids'[q] # <<>>)
            \/ pc[q] = "rate" /\ pc'[q] \in {"rate", "ok"} /\ ids'[q] = ids[q]
            \/ pc[q] = "info" /\ call[q].method = "completePostObject"
               /\ pc'[q] \in {"owner", "error"} /\ ids'[q] = ids[q]
            \/ pc[q] = "info" /\ call[q].method = "prepareGetObject"
               /\ pc'[q] \in {"select", "error"} /\ ids'[q] = ids[q]
            \/ pc[q] = "owner" /\ ids'[q] = ids[q]
               /\ \/ pc'[q] = "error"
                  \/ pc'[q] = "s3size" /\ call[q].success
                  \/ pc'[q] = "delete" /\ ~call[q].success
            \/ pc[q] = "s3size" /\ pc'[q] \in {"dbsize", "error"} /\ ids'[q] = ids[q]
            \/ pc[q] = "dbsize" /\ pc'[q] \in {"update", "error"} /\ ids'[q] = ids[q]
            \/ pc[q] = "update" /\ ids'[q] = Tail(ids[q])
               /\ pc'[q] = IF call[q].method = "CompleteAttachFile" THEN "presign"
                           ELSE IF Tail(ids[q]) = <<>> THEN "ok" ELSE "s3size"
            \/ pc[q] = "presign" /\ pc'[q] = "ok" /\ ids'[q] = ids[q]
            \/ pc[q] = "delete" /\ pc'[q] = "ok" /\ ids'[q] = ids[q]
            \/ pc[q] = "select" /\ pc'[q] \in {"ok", "error"} /\ ids'[q] = ids[q]
<1> USE DEF TypeOK, Goto
<1>1. CASE InsertObject(q)
  BY <1>1 DEF InsertObject
<1>2. CASE InsertRefused(q)
  BY <1>2 DEF InsertRefused
<1>3. CASE InitializeRating(q)
  BY <1>3 DEF InitializeRating
<1>4. CASE ReplyPrepared(q)
  BY <1>4 DEF ReplyPrepared
<1>5. CASE CheckNotUploaded(q)
  BY <1>5 DEF CheckNotUploaded
<1>6. CASE CheckOwner(q)
  BY <1>6 DEF CheckOwner
<1>7. CASE ReadFileSize(q)
  BY <1>7 DEF ReadFileSize
<1>8. CASE CompareSizes(q)
  BY <1>8 DEF CompareSizes
<1>9. CASE Publish(q)
  BY <1>9 DEF Publish
<1>10. CASE Delete(q)
  BY <1>10 DEF Delete
<1>11. CASE CheckAvailable(q)
  BY <1>11 DEF CheckAvailable
<1>12. CASE ReplyDownload(q)
  BY <1>12 DEF ReplyDownload
<1>13. CASE ReplyAttached(q)
  BY <1>13 DEF ReplyAttached
<1> QED
  BY <1>1, <1>2, <1>3, <1>4, <1>5, <1>6, <1>7, <1>8, <1>9, <1>10, <1>11, <1>12,
     <1>13 DEF Step

\* A method on one object is done after it.
LEMMA OneIsLast ==
  ASSUME TypeOK, PathOK, WorkOK, NEW q \in Requests,
         pc[q] \in Working, call[q].method \in OneObject
  PROVE  Tail(ids[q]) = <<>>
<1>1. ids[q] \in Seq(DataIds) /\ ids[q] # <<>> /\ Tail(ids[q]) \in Seq(DataIds)
  BY AtLabel
<1>2. DOMAIN ids[q] = {1}
  BY DEF WorkOK, Working
<1>3. Len(ids[q]) \in Nat /\ 1..Len(ids[q]) = {1}
  BY <1>1, <1>2, LenProperties
<1>4. Len(ids[q]) = 1
  <2> DEFINE n == Len(ids[q])
  <2>1. n \in Nat /\ 1..n = {1}
    BY <1>3
  <2> HIDE DEF n
  <2>2. n >= 1
    BY <2>1
  <2>3. n \in 1..n
    BY <2>1, <2>2
  <2>4. n = 1
    BY <2>1, <2>3
  <2> QED
    BY <2>4 DEF n
<1>5. Len(Tail(ids[q])) = 0
  BY <1>1, <1>4, HeadTailProperties
<1> QED
  BY <1>1, <1>5, EmptySeq

\* Every step keeps requests on the path of their method.
LEMMA PathNext ==
  ASSUME TypeOK, PathOK, WorkOK, [Next]_vars
  PROVE  PathOK'
<1> SUFFICES ASSUME NEW q \in Requests, pc'[q] # "idle"
             PROVE  /\ call'[q] \in Call
                    /\ call'[q].method \in MethodsAt(pc'[q])
  BY DEF PathOK
<1>1. CASE UNCHANGED <<pc[q], call[q], ids[q]>>
  BY <1>1 DEF PathOK
<1>2. CASE /\ InFlight(q) /\ pc'[q] \in {"error", "lost"}
           /\ UNCHANGED <<call[q], ids[q]>>
  BY <1>2 DEF PathOK, InFlight, Ended, MethodsAt, Call
<1>3. CASE Arrive(q)
  BY <1>3, ArriveStarts
<1>4. CASE InFlight(q) /\ Step(q)
  <2>1. call'[q] = call[q] /\ call[q] \in Call /\ call[q].method \in AllMethods
    BY <1>4, StepMoves DEF InFlight, PathOK, Call
  <2>2. call[q].method \in MethodsAt(pc[q])
    BY <1>4 DEF InFlight, PathOK
  <2>3. pc[q] = "update" /\ call[q].method = "CompleteAttachFile" => pc'[q] = "presign"
    BY <1>4, StepMoves
  <2> QED
    BY <1>4, <2>1, <2>2, <2>3, StepMoves DEF MethodsAt, PrepareMethods, AllMethods, Ended
<1> QED
  BY <1>1, <1>2, <1>3, <1>4, Moves

\* Every step leaves a working request an object of its parameters.
LEMMA WorkNext ==
  ASSUME TypeOK, PathOK, WorkOK, [Next]_vars
  PROVE  WorkOK'
<1> DEFINE W(q) ==
             /\ pc[q] \in Working => ids[q] # <<>>
             /\ pc[q] \in Working /\ call[q].method \notin PrepareMethods =>
                  \A j \in DOMAIN ids[q] :
                    \E i \in DOMAIN call[q].ids : ids[q][j] = call[q].ids[i]
             /\ pc[q] # "idle" /\ call[q].method \in OneObject
                  => /\ DOMAIN call[q].ids = {1}
                     /\ pc[q] \in Working => ids[q] = call[q].ids
<1>0. WorkOK <=> \A q \in Requests : W(q)
  BY DEF WorkOK
<1> SUFFICES ASSUME NEW q \in Requests PROVE W(q)'
  BY DEF WorkOK
<1>1. CASE UNCHANGED <<pc[q], call[q], ids[q]>>
  BY <1>1, <1>0
<1>2. CASE /\ InFlight(q) /\ pc'[q] \in {"error", "lost"}
           /\ UNCHANGED <<call[q], ids[q]>>
  BY <1>2, <1>0 DEF InFlight, Working
<1>3. CASE Arrive(q)
  BY <1>3, ArriveStarts
<1>4. CASE InFlight(q) /\ Step(q)
  <2>1. call'[q] = call[q]
    BY <1>4, StepMoves
  <2>2. CASE pc[q] = "insert"
    <3>1. call[q].method \in PrepareMethods
      BY <2>2 DEF PathOK, MethodsAt, Ended
    <3>2. pc'[q] \in {"rate", "error"} /\ (pc'[q] = "rate" => ids'[q] # <<>>)
      BY <1>4, <2>2, StepMoves
    <3> QED
      BY <2>1, <3>1, <3>2 DEF Working, PrepareMethods, OneObject
  <2>3. CASE pc[q] = "update"
    <3>1. ids'[q] = Tail(ids[q]) /\ (pc'[q] \in Working => ids'[q] # <<>>)
      BY <1>4, <2>3, StepMoves DEF Working
    <3>2. ids[q] \in Seq(DataIds) /\ ids[q] # <<>> /\ Tail(ids[q]) \in Seq(DataIds)
      BY <2>3, AtLabel DEF Working
    <3>3. \A j \in DOMAIN Tail(ids[q]) : j + 1 \in DOMAIN ids[q] /\ Tail(ids[q])[j] = ids[q][j + 1]
      BY <3>2, LenProperties
    <3>4. call[q].method \in OneObject => Tail(ids[q]) = <<>>
      BY <2>3, OneIsLast DEF Working
    <3>5. call[q].method \in OneObject => pc'[q] \in {"presign", "ok"}
      BY <1>4, <2>3, <3>4, StepMoves
    <3> QED
      BY <2>1, <2>3, <3>1, <3>3, <3>5, <1>0 DEF Working
  <2>4. CASE pc[q] \notin {"insert", "update", "presign"}
    <3>1. ids'[q] = ids[q] /\ pc[q] \in Working
      BY <1>4, <2>4, StepMoves DEF Working
    <3> QED
      BY <2>1, <3>1, <1>0 DEF Working
  <2>5. CASE pc[q] = "presign"
    <3>1. pc'[q] = "ok"
      BY <1>4, <2>5, StepMoves
    <3> QED
      BY <2>1, <2>5, <3>1, <1>0 DEF Working
  <2> QED
    BY <2>2, <2>3, <2>4, <2>5
<1> QED
  BY <1>1, <1>2, <1>3, <1>4, Moves
-----------------------------------------------------------------------------
\* A published object stays published, with its file.
LEMMA PublishedStays ==
  ASSUME RequestInv, [Next]_vars, NEW id \in DataIds, Published(id)
  PROVE  Published(id)'
BY Monotonic DEF RequestInv, Published

\* The file found by the size check is there when the UPDATE runs.
LEMMA CheckedNext ==
  ASSUME RequestInv, [Next]_vars
  PROVE  CheckedHasFile'
<1> USE DEF RequestInv
<1> DEFINE C(q) ==
      /\ pc[q] = "dbsize" => HasFile(Head(ids[q]))
      /\ pc[q] = "update" /\ call[q].method # "CompleteAttachFile" =>
           Exists(Head(ids[q])) /\ HasFile(Head(ids[q]))
<1> SUFFICES ASSUME NEW q \in Requests PROVE C(q)'
  BY DEF CheckedHasFile
<1>0. C(q)
  BY DEF CheckedHasFile
<1>1. CASE UNCHANGED <<pc[q], call[q], ids[q]>>
  <2>1. CASE pc[q] \in {"dbsize", "update"}
    <3>1. Head(ids[q]) \in DataIds
      BY <2>1, AtLabel DEF Working
    <3> QED
      BY <1>0, <1>1, <3>1, Monotonic
  <2>2. CASE pc[q] \notin {"dbsize", "update"}
    BY <1>1, <2>2
  <2> QED
    BY <2>1, <2>2
<1>2. CASE pc'[q] \in {"error", "lost"}
  BY <1>2
<1>3. CASE Arrive(q)
  BY <1>3, ArriveStarts
<1>4. CASE Step(q)
  <2>1. CASE ReadFileSize(q)
    <3>1. Head(ids[q]) \in DataIds /\ pc[q] = "s3size"
      BY <2>1, AtLabel DEF Working, ReadFileSize
    <3> QED
      BY <2>1, <3>1 DEF ReadFileSize, Goto, TypeOK, HasFile
  <2>2. CASE CompareSizes(q)
    <3>1. Head(ids[q]) \in DataIds /\ pc[q] = "dbsize"
      BY <2>2, AtLabel DEF Working, CompareSizes
    <3> QED
      BY <2>2, <3>1, <1>0, Monotonic DEF CompareSizes, Goto, TypeOK
  <2>3. CASE pc'[q] \notin {"dbsize", "update"}
    BY <2>3
  <2>4. pc'[q] \in {"dbsize", "update"} => ReadFileSize(q) \/ CompareSizes(q)
    BY <1>4 DEF Step, InsertObject, InsertRefused, InitializeRating, ReplyPrepared,
       CheckNotUploaded, CheckOwner, Publish, Delete, CheckAvailable,
       ReplyDownload, ReplyAttached, Goto, TypeOK
  <2> QED
    BY <2>1, <2>2, <2>3, <2>4
<1> QED
  BY <1>1, <1>2, <1>3, <1>4, Moves

\* A completing request leaves behind published objects only.
LEMMA PastNext ==
  ASSUME RequestInv, [Next]_vars
  PROVE  PastIsPublished'
<1> USE DEF RequestInv
<1> DEFINE Completing == {"s3size", "dbsize", "update"}
           P(q) ==
             /\ pc[q] \in Completing /\ call[q].method # "CompleteAttachFile" =>
                  /\ call[q].success
                  /\ \A i \in DOMAIN call[q].ids :
                      \/ Published(call[q].ids[i])
                      \/ \E j \in DOMAIN ids[q] : ids[q][j] = call[q].ids[i]
             /\ pc[q] = "ok" /\ call[q].success
                  /\ call[q].method \in {"completePostObject", "completePostObjects"} =>
                      \A i \in DOMAIN call[q].ids : Published(call[q].ids[i])
<1> SUFFICES ASSUME NEW q \in Requests PROVE P(q)'
  BY DEF PastIsPublished
<1>0. P(q)
  BY DEF PastIsPublished
<1>a. call[q] \in Call => \A i \in DOMAIN call[q].ids : call[q].ids[i] \in DataIds
  BY LenProperties, ElementOfSeq DEF Call
<1>b. \A id \in DataIds : Published(id) => Published(id)'
  BY PublishedStays
<1>1. CASE UNCHANGED <<pc[q], call[q], ids[q]>>
  BY <1>0, <1>1, <1>a, <1>b DEF PathOK
<1>2. CASE pc'[q] \in {"error", "lost"}
  BY <1>2
<1>3. CASE Arrive(q)
  BY <1>3, ArriveStarts
<1>4. CASE Step(q) /\ InFlight(q)
  <2>0. call'[q] = call[q] /\ call[q] \in Call
    BY <1>4, StepMoves DEF PathOK, InFlight
  <2>1. CASE CheckOwner(q)
    <3>1. /\ pc[q] = "owner" /\ call[q].method = "completePostObject"
          /\ ids'[q] = ids[q] /\ ids[q] = call[q].ids
      BY <2>1 DEF CheckOwner, PathOK, MethodsAt, Ended, WorkOK, Working, OneObject
    <3>2. pc'[q] \in {"error", "delete"} \/ (pc'[q] = "s3size" /\ call[q].success)
      BY <2>1 DEF CheckOwner, Goto, TypeOK
    <3> QED
      BY <2>0, <3>1, <3>2
  <2>2. CASE ReadFileSize(q) \/ CompareSizes(q)
    <3>1. /\ pc[q] \in Completing /\ pc'[q] \in {"dbsize", "update", "error"}
          /\ ids'[q] = ids[q]
      BY <2>2 DEF ReadFileSize, CompareSizes, Goto, TypeOK
    <3> QED
      BY <2>0, <3>1, <1>0, <1>a, <1>b
  <2>3. CASE Publish(q)
    <3>1. /\ pc[q] = "update" /\ ids'[q] = Tail(ids[q])
          /\ call[q].method # "CompleteAttachFile" =>
               pc'[q] = IF Tail(ids[q]) = <<>> THEN "ok" ELSE "s3size"
      BY <2>3 DEF Publish, Goto, TypeOK
    <3>2. CASE call[q].method = "CompleteAttachFile"
      BY <2>0, <3>2
    <3>3. CASE call[q].method # "CompleteAttachFile"
      <4>0. PICK h \in DataIds : h = Head(ids[q])
        BY <3>1, AtLabel DEF Working
      <4>1. h = Head(ids[q]) /\ ids[q] \in Seq(DataIds) /\ ids[q] # <<>> /\ ids[q][1] = h
        BY <3>1, <4>0, AtLabel DEF Working
      <4>2. Published(h)'
        <5>1. Exists(h) /\ HasFile(h)
          BY <3>1, <3>3, <4>1 DEF CheckedHasFile
        <5>2. rows'[h].completed
          BY <2>3, <4>1, <5>1 DEF Publish, UploadCompleted, TypeOK, Row
        <5> QED
          BY <4>1, <5>1, <5>2, Monotonic DEF Published
      <4>3. \A j \in DOMAIN ids[q] :
              ids[q][j] = h \/ \E k \in DOMAIN Tail(ids[q]) : Tail(ids[q])[k] = ids[q][j]
        <5> SUFFICES ASSUME NEW j \in DOMAIN ids[q], j # 1
                     PROVE  \E k \in DOMAIN Tail(ids[q]) : Tail(ids[q])[k] = ids[q][j]
          BY <4>1
        <5>1. /\ Tail(ids[q]) \in Seq(DataIds) /\ Len(Tail(ids[q])) = Len(ids[q]) - 1
              /\ \A i \in 1..Len(Tail(ids[q])) : Tail(ids[q])[i] = ids[q][i + 1]
          BY <4>1, HeadTailProperties
        <5>2. DOMAIN ids[q] = 1..Len(ids[q]) /\ DOMAIN Tail(ids[q]) = 1..Len(Tail(ids[q]))
              /\ Len(ids[q]) \in Nat
          BY <4>1, <5>1, LenProperties
        <5>3. j - 1 \in DOMAIN Tail(ids[q]) /\ (j - 1) + 1 = j
          BY <5>1, <5>2
        <5> QED
          BY <5>1, <5>2, <5>3
      <4>4. \A i \in DOMAIN call[q].ids, id \in DataIds : id = call[q].ids[i] =>
              \/ Published(id)'
              \/ \E k \in DOMAIN Tail(ids[q]) : Tail(ids[q])[k] = call[q].ids[i]
        BY <1>0, <1>a, <1>b, <2>0, <3>1, <3>3, <4>2, <4>3
      <4>5. Tail(ids[q]) = <<>> => DOMAIN Tail(ids[q]) = {}
        OBVIOUS
      <4> QED
        <5>1. call'[q].success
          BY <1>0, <2>0, <3>1, <3>3
        <5>2. \A i \in DOMAIN call'[q].ids :
                \/ Published(call[q].ids[i])'
                \/ \E k \in DOMAIN ids'[q] : ids'[q][k] = call'[q].ids[i]
          BY <1>a, <2>0, <3>1, <4>4
        <5> QED
          BY <2>0, <3>1, <4>5, <5>1, <5>2
    <3> QED
      BY <3>2, <3>3
  <2>4. CASE Delete(q)
    <3>1. pc[q] = "delete" /\ pc'[q] = "ok"
      BY <2>4 DEF Delete, Goto, TypeOK
    <3>2. call[q].method = "AdminDeleteCourse" \/ ~call[q].success
      BY <3>1 DEF PathOK, MethodsAt, Ended, DeleteOK
    <3> QED
      BY <2>0, <3>1, <3>2
  <2>5. CASE ReplyPrepared(q) \/ ReplyDownload(q) \/ ReplyAttached(q)
    <3>1. pc[q] \in {"rate", "select", "presign"} /\ pc'[q] \in {"ok", "error"}
      BY <2>5 DEF ReplyPrepared, ReplyDownload, ReplyAttached, Goto, TypeOK
    <3>2. call[q].method \notin {"completePostObject", "completePostObjects"}
      BY <3>1 DEF PathOK, MethodsAt, Ended, PrepareMethods
    <3> QED
      BY <2>0, <3>1, <3>2
  <2>6. CASE \/ InsertObject(q) \/ InsertRefused(q) \/ InitializeRating(q)
             \/ CheckNotUploaded(q) \/ CheckAvailable(q)
    <3>1. pc'[q] \notin Completing \cup {"ok"}
      BY <2>6 DEF InsertObject, InsertRefused, InitializeRating, CheckNotUploaded,
         CheckAvailable, Goto, TypeOK
    <3> QED
      BY <3>1
  <2> QED
    BY <1>4, <2>1, <2>2, <2>3, <2>4, <2>5, <2>6 DEF Step
<1> QED
  BY <1>1, <1>2, <1>3, <1>4, Moves

\* Only a failure reported by the owner, or the admin, gets to the deletion.
LEMMA DeleteNext ==
  ASSUME RequestInv, [Next]_vars
  PROVE  DeleteOK'
<1> USE DEF RequestInv
<1> DEFINE D(q, id) ==
      /\ pc[q] = "delete" /\ call[q].method = "completePostObject" =>
           /\ ~call[q].success
           /\ Exists(id) /\ rows[id].owner = call[q].pid
      /\ pc[q] = "ok" /\ call[q].method = "completePostObject" /\ ~call[q].success =>
           Exists(id) /\ rows[id].deleted
<1> SUFFICES ASSUME NEW q \in Requests,
                    pc'[q] \in {"delete", "ok"}, call'[q].method = "completePostObject"
             PROVE  D(q, call[q].ids[1])'
  BY DEF DeleteOK
<1>3. CASE Arrive(q)
  BY <1>3, ArriveStarts
<1>4. CASE ~Arrive(q)
  <2>1. UNCHANGED call[q] /\ pc[q] # "idle"
    BY <1>4, Moves, StepMoves DEF InFlight
  <2>2. PICK id \in DataIds : id = call[q].ids[1]
    <3>1. call[q].ids \in Seq(DataIds) /\ DOMAIN call[q].ids = {1}
      BY <2>1 DEF PathOK, WorkOK, Call, OneObject
    <3> QED
      BY <3>1, LenProperties, ElementOfSeq
  <2>3. D(q, id)
    BY <2>1, <2>2 DEF DeleteOK
  <2>4. CASE UNCHANGED pc[q]
    BY <2>1, <2>2, <2>3, <2>4, Monotonic
  <2>5. CASE Step(q)
    <3>1. pc[q] \in Working => Head(ids[q]) = id
      BY <2>1, <2>2, AtLabel DEF WorkOK, OneObject
    <3>2. CASE CheckOwner(q)
      BY <2>1, <2>2, <3>1, <3>2 DEF CheckOwner, Goto, TypeOK, Working, Exists, dbVars
    <3>3. CASE Delete(q)
      <4>1. pc[q] = "delete" /\ Head(ids[q]) = id /\ pc'[q] = "ok"
        BY <3>1, <3>3 DEF Delete, Goto, TypeOK, Working
      <4>2. Exists(id)
        BY <2>1, <2>3, <4>1
      <4>3. rows'[id].deleted
        BY <3>3, <4>1, <4>2 DEF Delete, Deleted, TypeOK, Row
      <4> QED
        BY <2>1, <2>2, <4>1, <4>2, <4>3, Monotonic
    <3>4. CASE Publish(q)
      <4>1. pc[q] = "update" /\ call[q].success /\ pc'[q] # "delete"
        BY <2>1, <3>4 DEF Publish, PastIsPublished, Goto, TypeOK
      <4> QED
        BY <2>1, <4>1
    <3>5. CASE ReplyPrepared(q) \/ ReplyDownload(q) \/ ReplyAttached(q)
      <4>1. pc[q] \in {"rate", "select", "presign"}
        BY <3>5 DEF ReplyPrepared, ReplyDownload, ReplyAttached
      <4> QED
        BY <2>1, <4>1 DEF PathOK, MethodsAt, Ended, PrepareMethods
    <3>6. CASE \/ InsertObject(q) \/ InsertRefused(q) \/ InitializeRating(q)
               \/ CheckNotUploaded(q) \/ CheckAvailable(q)
               \/ ReadFileSize(q) \/ CompareSizes(q)
      <4>1. pc'[q] \notin {"delete", "ok"}
        BY <3>6 DEF InsertObject, InsertRefused, InitializeRating, CheckNotUploaded,
           CheckAvailable, ReadFileSize, CompareSizes, Goto, TypeOK
      <4> QED
        BY <4>1
    <3> QED
      BY <2>5, <3>2, <3>3, <3>4, <3>5, <3>6 DEF Step
  <2> QED
    BY <1>4, <2>4, <2>5, Moves
<1> QED
  BY <1>3, <1>4

\* A reader that found the object available finds it published ever after.
LEMMA ReadNext ==
  ASSUME RequestInv, [Next]_vars
  PROVE  ReadOK'
<1> USE DEF RequestInv
<1> SUFFICES ASSUME NEW q \in Requests,
                    pc'[q] \in {"select", "ok"}, call'[q].method = "prepareGetObject"
             PROVE  (Exists(call[q].ids[1]) /\ rows[call[q].ids[1]].completed)'
  BY DEF ReadOK
<1>1. CASE Arrive(q)
  BY <1>1, ArriveStarts
<1>2. CASE ~Arrive(q)
  <2>1. UNCHANGED call[q] /\ pc[q] # "idle"
    BY <1>2, Moves, StepMoves DEF InFlight
  <2>2. PICK id \in DataIds : id = call[q].ids[1]
    <3>1. call[q].ids \in Seq(DataIds) /\ DOMAIN call[q].ids = {1}
      BY <2>1 DEF PathOK, WorkOK, Call, OneObject
    <3> QED
      BY <3>1, LenProperties, ElementOfSeq
  <2>3. Exists(id) /\ rows[id].completed
    <3>1. CASE pc[q] \in {"select", "ok"}
      BY <2>1, <2>2, <3>1 DEF ReadOK
    <3>2. CASE pc[q] \notin {"select", "ok"}
      <4>1. Step(q)
        BY <1>2, <3>2, Moves
      <4>2. pc[q] = "info"
        BY <2>1, <3>2, <4>1, StepMoves DEF PathOK, MethodsAt, Ended, PrepareMethods
      <4>3. CheckAvailable(q)
        BY <2>1, <4>1, <4>2 DEF Step, InsertObject, InsertRefused, InitializeRating,
           ReplyPrepared, CheckNotUploaded, CheckOwner, ReadFileSize, CompareSizes,
           Publish, Delete, ReplyDownload, ReplyAttached
      <4>4. Head(ids[q]) = id
        BY <2>1, <2>2, <4>2, AtLabel DEF WorkOK, OneObject, Working
      <4> QED
        BY <4>3, <4>4 DEF CheckAvailable, IsObjectAvailable, Goto, TypeOK
    <3> QED
      BY <3>1, <3>2
  <2> QED
    BY <2>1, <2>2, <2>3, Monotonic
<1> QED
  BY <1>1, <1>2

\* Requests once asked stay asked, and their answers stay.
LEMMA AskedStays ==
  ASSUME RequestInv, [Next]_vars, NEW method, NEW id, NEW r \in Asked(method, id)
  PROVE  r \in Asked(method, id)' /\ call'[r] = call[r] /\ (pc[r] \in Ended => pc'[r] = pc[r])
<1>1. r \in Requests /\ pc[r] # "idle"
  BY DEF Asked
<1>2. ~Arrive(r)
  BY <1>1, ArriveStarts DEF RequestInv
<1>3. call'[r] = call[r] /\ pc'[r] # "idle" /\ (pc[r] \in Ended => pc'[r] = pc[r])
  BY <1>1, <1>2, Moves, StepMoves DEF RequestInv, InFlight, Ended
<1> QED
  BY <1>1, <1>3 DEF Asked

\* An attach file is completed once and for all: a later failure of the
\* request does not undo its UPDATE.
LEMMA AttachedStays ==
  ASSUME RequestInv, [Next]_vars, NEW id,
         NEW r \in Asked("CompleteAttachFile", id), ids[r] = <<>>
  PROVE  r \in Asked("CompleteAttachFile", id)' /\ ids'[r] = <<>>
<1>1. r \in Requests /\ pc[r] # "idle" /\ call[r].method = "CompleteAttachFile"
  BY DEF Asked
<1>2. ~Arrive(r)
  BY <1>1, ArriveStarts DEF RequestInv
<1>3. pc[r] \notin Working \cup {"insert"}
  BY <1>1 DEF RequestInv, WorkOK, PathOK, MethodsAt, PrepareMethods, Ended, Working
<1>4. ids'[r] = ids[r]
  BY <1>1, <1>2, <1>3, Moves, StepMoves DEF RequestInv, Working
<1> QED
  BY <1>4, AskedStays

\* Where a row's flags come from.
LEMMA RowOrigin ==
  ASSUME RequestInv, [Next]_vars, NEW id \in DataIds, Exists(id)'
  PROVE  \/ /\ Exists(id)
            /\ rows'[id].completed = rows[id].completed
            /\ rows'[id].deleted = rows[id].deleted
         \/ ~rows'[id].completed /\ ~rows'[id].deleted
         \/ \E r \in Requests : /\ Exists(id) /\ Publish(r) /\ Head(ids[r]) = id
                                 /\ rows'[id].deleted = rows[id].deleted
         \/ \E r \in Requests : /\ Exists(id) /\ Delete(r) /\ Head(ids[r]) = id
                                 /\ rows'[id].completed = rows[id].completed
<1> USE DEF RequestInv, Exists, dbVars, reqVars
<1>1. ASSUME NEW r \in Requests, Arrive(r) PROVE UNCHANGED rows
  BY <1>1, ArriveIsReceive DEF Receive
<1>2. ASSUME NEW r \in Requests, InsertObject(r)
      PROVE  rows'[id] = rows[id] \/ (~rows'[id].completed /\ ~rows'[id].deleted)
  BY <1>2 DEF InsertObject, NewRow, TypeOK
<1>3. ASSUME NEW r \in Requests,
             InsertRefused(r) \/ InitializeRating(r) \/ ReplyPrepared(r)
             \/ CheckNotUploaded(r) \/ CheckOwner(r) \/ ReadFileSize(r)
             \/ CompareSizes(r) \/ CheckAvailable(r) \/ ReplyDownload(r) \/ ReplyAttached(r)
             \/ CallFails(r)
      PROVE  UNCHANGED rows
  BY <1>3 DEF InsertRefused, InitializeRating, ReplyPrepared, CheckNotUploaded,
       CheckOwner, ReadFileSize, CompareSizes, CheckAvailable, ReplyDownload, ReplyAttached, CallFails
<1>4. ASSUME NEW r \in Requests, Publish(r)
      PROVE  \/ rows'[id] = rows[id]
             \/ /\ Exists(id) /\ Head(ids[r]) = id
                /\ rows'[id].deleted = rows[id].deleted
  <2>1. CASE Head(ids[r]) = id /\ Exists(id)
    <3>1. rows[id] \in Row /\ rows'[id] = [rows[id] EXCEPT !.completed = TRUE]
      BY <1>4, <2>1 DEF Publish, UploadCompleted, TypeOK
    <3> QED
      BY <2>1, <3>1 DEF Row
  <2>2. CASE ~(Head(ids[r]) = id /\ Exists(id))
    BY <1>4, <2>2 DEF Publish, UploadCompleted, TypeOK
  <2> QED
    BY <2>1, <2>2
<1>5. ASSUME NEW r \in Requests, Delete(r)
      PROVE  \/ rows'[id] = rows[id]
             \/ /\ Exists(id) /\ Head(ids[r]) = id
                /\ rows'[id].completed = rows[id].completed
  <2>1. CASE Head(ids[r]) = id /\ Exists(id)
    <3>1. rows[id] \in Row /\ rows'[id] = [rows[id] EXCEPT !.deleted = TRUE]
      BY <1>5, <2>1 DEF Delete, Deleted, TypeOK
    <3> QED
      BY <2>1, <3>1 DEF Row
  <2>2. CASE ~(Head(ids[r]) = id /\ Exists(id))
    BY <1>5, <2>2 DEF Delete, Deleted, TypeOK
  <2> QED
    BY <2>1, <2>2
<1>6. ASSUME NEW k \in Keys, NEW n \in Sizes, Upload(k, n) PROVE UNCHANGED rows
  BY <1>6 DEF Upload
<1>7. ASSUME NEW i \in DataIds, Moderate(i)
      PROVE  \/ rows'[id] = rows[id]
             \/ /\ Exists(id)
                /\ rows'[id].completed = rows[id].completed
                /\ rows'[id].deleted = rows[id].deleted
  <2>1. CASE i = id
    <3>1. rows[id] \in Row /\ rows'[id] = [rows[id] EXCEPT !.review = ~rows[id].review]
      BY <1>7, <2>1 DEF Moderate, TypeOK
    <3> QED
      BY <1>7, <2>1, <3>1 DEF Row, Moderate
  <2>2. CASE i # id
    BY <1>7, <2>2 DEF Moderate, TypeOK
  <2> QED
    BY <2>1, <2>2
<1>8. CASE Crash
  BY <1>8 DEF Crash
<1>9. CASE UNCHANGED vars
  BY <1>9 DEF vars
<1> QED
  BY <1>1, <1>2, <1>3, <1>4, <1>5, <1>6, <1>7, <1>8, <1>9 DEF Next, Step

\* Nothing is published without its file, except by CompleteAttachFile.
LEMMA PublishedNext ==
  ASSUME IInv, [Next]_vars
  PROVE  PublishedHasFile'
<1> USE DEF IInv, RequestInv
<1> SUFFICES ASSUME NEW id \in DataIds, Exists(id)', rows'[id].completed
             PROVE  HasFile(id)' \/ AttachCompleted(id)'
  BY DEF PublishedHasFile
<1>1. CASE Exists(id) /\ rows[id].completed
  <2>1. CASE HasFile(id)
    BY <2>1, Monotonic
  <2>2. CASE AttachCompleted(id)
    <3>1. PICK r \in Asked("CompleteAttachFile", id) : ids[r] = <<>>
      BY <2>2 DEF AttachCompleted
    <3>2. r \in Asked("CompleteAttachFile", id)' /\ ids'[r] = <<>>
      BY <3>1, AttachedStays
    <3> QED
      BY <3>2 DEF AttachCompleted
  <2> QED
    BY <1>1, <2>1, <2>2 DEF PublishedHasFile
<1>2. ASSUME NEW r \in Requests, Exists(id), Publish(r), Head(ids[r]) = id
      PROVE  HasFile(id)' \/ AttachCompleted(id)'
  <2>1. pc[r] = "update"
    BY <1>2 DEF Publish
  <2>2. CASE call[r].method # "CompleteAttachFile"
    BY <1>2, <2>1, <2>2, Monotonic DEF CheckedHasFile
  <2>3. CASE call[r].method = "CompleteAttachFile"
    <3>1. pc'[r] = "presign" /\ ids'[r] = <<>> /\ call' = call
      BY <1>2, <2>1, <2>3, OneIsLast DEF Publish, Goto, TypeOK, Working, OneObject
    <3>2. \E i \in DOMAIN call[r].ids : call[r].ids[i] = id
      BY <1>2, <2>1, <2>3, AtLabel DEF WorkOK, Working, OneObject
    <3> QED
      BY <2>3, <3>1, <3>2 DEF AttachCompleted, Asked
  <2> QED
    BY <2>2, <2>3
<1> QED
  BY <1>1, <1>2, RowOrigin

\* Nobody but the admin and the owner deletes.
LEMMA DeletedNext ==
  ASSUME RequestInv, [Next]_vars
  PROVE  DeletedByOwnerOrAdmin'
<1> USE DEF RequestInv
<1> DEFINE Deleter(id) ==
      \/ Asked("AdminDeleteCourse", id) # {}
      \/ \E r \in Asked("completePostObject", id) :
           ~call[r].success /\ call[r].pid = rows[id].owner
<1> SUFFICES ASSUME NEW id \in DataIds, Exists(id)', rows'[id].deleted
             PROVE  Deleter(id)'
  BY DEF DeletedByOwnerOrAdmin
<1>1. ASSUME Exists(id), Deleter(id) PROVE Deleter(id)'
  <2>1. rows'[id].owner = rows[id].owner
    BY <1>1, Monotonic
  <2>2. CASE Asked("AdminDeleteCourse", id) # {}
    BY <2>2, AskedStays
  <2>3. ASSUME NEW r \in Asked("completePostObject", id),
               ~call[r].success, call[r].pid = rows[id].owner
        PROVE  Deleter(id)'
    <3>1. r \in Asked("completePostObject", id)' /\ call'[r] = call[r]
      BY AskedStays
    <3> QED
      BY <2>1, <2>3, <3>1
  <2> QED
    BY <1>1, <2>2, <2>3
<1>2. ASSUME NEW r \in Requests, Exists(id), Delete(r), Head(ids[r]) = id
      PROVE  Deleter(id)
  <2>1. pc[r] = "delete" /\ call[r].method \in {"completePostObject", "AdminDeleteCourse"}
    BY <1>2 DEF Delete, PathOK, MethodsAt, Ended
  <2>2. call[r].ids[1] = id /\ 1 \in DOMAIN call[r].ids
    BY <1>2, <2>1, AtLabel DEF WorkOK, Working, OneObject
  <2> QED
    BY <2>1, <2>2 DEF DeleteOK, Asked
<1>3. ASSUME Exists(id), rows[id].deleted PROVE Deleter(id)
  BY <1>3 DEF DeletedByOwnerOrAdmin
<1> QED
  BY <1>1, <1>2, <1>3, RowOrigin

\* The first state satisfies the invariant: nothing has been asked, and what
\* is there has its file.
LEMMA InitInv == Init => IInv
<1> SUFFICES ASSUME Init PROVE IInv
  OBVIOUS
<1>1. \A r \in Requests : pc[r] = "idle" /\ ids[r] = <<>>
  BY DEF Init
<1>2. \A id \in DOMAIN Left : LeftRow(id) \in Row /\ LeftRow(id).completed /\ ~LeftRow(id).deleted
  BY DataAssumption DEF LeftRow, NewRow, Row
<1>3. TypeOK
  <2>1. rows \in [DataIds -> Row \cup {NoRow}]
    BY <1>2 DEF Init, LeftRow
  <2>2. s3 \in [Keys -> Sizes \cup {NoFile}]
    BY DataAssumption DEF Init, Keys
  <2> QED
    BY <2>1, <2>2, DataAssumption DEF Init, TypeOK, Labels
<1>6. ASSUME NEW id \in DataIds, Exists(id)
      PROVE rows[id] = LeftRow(id) /\ id \in DOMAIN Left /\ HasFile(id)
  <2>1. id \in DOMAIN Left /\ rows[id] = LeftRow(id)
    BY <1>6 DEF Init, Exists, LeftRow
  <2>2. <<"bin", id>> \in Keys /\ s3[<<"bin", id>>] = Left[id].size
    BY <2>1 DEF Init, Keys
  <2> QED
    BY <2>1, <2>2, DataAssumption DEF HasFile
<1>4. PathOK /\ WorkOK /\ CheckedHasFile /\ PastIsPublished /\ DeleteOK /\ ReadOK
  BY <1>1 DEF PathOK, WorkOK, CheckedHasFile, PastIsPublished, DeleteOK, ReadOK, Working
<1>5. PublishedHasFile /\ DeletedByOwnerOrAdmin
  BY <1>2, <1>6 DEF PublishedHasFile, DeletedByOwnerOrAdmin
<1> QED
  BY <1>3, <1>4, <1>5 DEF IInv, RequestInv

\* The invariant is inductive: every statement of every request keeps it.
LEMMA RequestNextInv == RequestInv /\ [Next]_vars => RequestInv'
<1> SUFFICES ASSUME RequestInv, [Next]_vars PROVE RequestInv'
  OBVIOUS
<1> QED
  BY NextType, PathNext, WorkNext, CheckedNext, PastNext, DeleteNext, ReadNext,
     DeletedNext DEF RequestInv

LEMMA NextInv == IInv /\ [Next]_vars => IInv'
BY RequestNextInv, PublishedNext DEF IInv

\* The invariant holds in every reachable state.
THEOREM Invariance == Spec => []IInv
BY InitInv, NextInv, PTL DEF Spec
-----------------------------------------------------------------------------
\* The tables, the bucket and the requests keep their types, whatever the
\* order of the statements of concurrent requests.
THEOREM TypeCorrect == Spec => []TypeOK
<1>1. IInv => TypeOK
  BY DEF IInv, RequestInv
<1> QED
  BY <1>1, Invariance, PTL

\* The size check of completePostObject(s), made long before the UPDATE, is
\* enough to never publish an object that has no file in S3.
THEOREM PublishedHaveFiles == Spec => []PublishedHasFile
<1>1. IInv => PublishedHasFile
  BY DEF IInv, RequestInv
<1> QED
  BY <1>1, Invariance, PTL

\* The owner check of completePostObject, made before the DELETE, is enough
\* to keep players from deleting what is not theirs.
THEOREM OnlyOwnersDelete == Spec => []DeletedByOwnerOrAdmin
<1>1. IInv => DeletedByOwnerOrAdmin
  BY DEF IInv, RequestInv
<1> QED
  BY <1>1, Invariance, PTL

\* A success reply of completePostObject(s) is true of every object named,
\* and stays true.
THEOREM OkIsTrue == Spec => []OkMeansDone
<1>1. IInv => OkMeansDone
  BY DEF IInv, RequestInv, PastIsPublished, DeleteOK, Published, OkMeansDone
<1> QED
  BY <1>1, Invariance, PTL

\* A download URL is only given out for a file that exists, although the row
\* is read again, without the check, before the reply.
THEOREM DownloadsHaveFiles == Spec => []DownloadHasFile
<1>1. IInv => DownloadHasFile
  <2> SUFFICES ASSUME IInv, NEW r \in Requests, pc[r] = "ok",
                      call[r].method = "prepareGetObject"
               PROVE  HasFile(call[r].ids[1]) \/ AttachCompleted(call[r].ids[1])
    BY DEF DownloadHasFile
  <2>1. call[r].ids \in Seq(DataIds) /\ 1 \in DOMAIN call[r].ids
    BY DEF IInv, RequestInv, PathOK, WorkOK, Call, OneObject
  <2>2. call[r].ids[1] \in DataIds
    BY <2>1, LenProperties, ElementOfSeq
  <2> QED
    BY <2>2 DEF IInv, RequestInv, ReadOK, PublishedHasFile
<1> QED
  BY <1>1, Invariance, PTL
-----------------------------------------------------------------------------
(* What a prepare call leaves.                                             *)

Preparing(r) == pc[r] # "idle" /\ call[r].method \in PrepareMethods

\* The id that a prepare call has drawn, if it has one, is its own.
DrawnOK == \A r \in Requests : Preparing(r) =>
  /\ ids[r] = <<>> \/ \E id \in DataIds : ids[r] = <<id>> /\ id <= lastId
  /\ pc[r] \in {"rate", "ok"} => ids[r] # <<>>
  /\ \A q \in Requests : Preparing(q) /\ q # r /\ ids[r] # <<>> => ids[q] # ids[r]

\* Its row is there, with the rating rows of the slots that are done.
Filled(r, id) ==
  /\ Exists(id) /\ rows[id].owner = call[r].pid /\ rows[id].size = call[r].size
  /\ call[r].slots \subseteq ratings[id] \cup todo[r]
  /\ pc[r] = "ok" => call[r].slots \subseteq ratings[id]

FilledOK == \A r \in Requests : Preparing(r) =>
  /\ pc[r] = "insert" => call[r].slots \subseteq todo[r]
  /\ \A id \in DataIds : pc[r] \in {"rate", "ok"} /\ ids[r] = <<id>> => Filled(r, id)

\* What stays of a row, beside what Monotonic says.
LEMMA RowsKept ==
  ASSUME TypeOK, PathOK, WorkOK, [Next]_vars
  PROVE  /\ lastId <= lastId'
         /\ \A id \in DataIds : ratings[id] \subseteq ratings'[id]
         /\ \A id \in DataIds : Exists(id) => rows'[id].size = rows[id].size
<1> USE DEF dbVars, reqVars
<1>1. lastId <= lastId' /\ \A id \in DataIds : ratings[id] \subseteq ratings'[id]
  <2>1. \/ UNCHANGED lastId
        \/ lastId' = lastId + 1
    BY ArriveIsReceive DEF Next, Receive, Step, InsertObject, InsertRefused, InitializeRating,
         ReplyPrepared, CheckNotUploaded, CheckOwner, ReadFileSize, CompareSizes, Publish,
         Delete, CheckAvailable, ReplyDownload, ReplyAttached, CallFails, Upload, Moderate, Crash, vars
  <2>2. \/ UNCHANGED ratings
        \/ \E r \in Requests : InitializeRating(r)
    BY ArriveIsReceive DEF Next, Receive, Step, InsertObject, InsertRefused,
         ReplyPrepared, CheckNotUploaded, CheckOwner, ReadFileSize, CompareSizes, Publish,
         Delete, CheckAvailable, ReplyDownload, ReplyAttached, CallFails, Upload, Moderate, Crash, vars
  <2>3. lastId \in Nat /\ ratings \in [DataIds -> SUBSET Slots]
    BY DEF TypeOK
  <2>4. lastId <= lastId'
    BY <2>1, <2>3
  <2>5. \A id \in DataIds : ratings[id] \subseteq ratings'[id]
    BY <2>2, <2>3 DEF InitializeRating
  <2> QED
    BY <2>4, <2>5
<1>2. ASSUME NEW id \in DataIds, Exists(id)
      PROVE  rows'[id].size = rows[id].size
  <2>0. rows \in [DataIds -> Row \cup {NoRow}] /\ rows[id] \in Row
    BY <1>2 DEF TypeOK, Exists
  <2>1. CASE UNCHANGED rows
    BY <2>1
  <2>2. CASE \E r \in Requests : InsertObject(r)
    BY <1>2, <2>0, <2>2 DEF InsertObject, Exists
  <2>3. CASE \E r \in Requests : Publish(r)
    BY <2>0, <2>3 DEF Publish, UploadCompleted, Row
  <2>4. CASE \E r \in Requests : Delete(r)
    BY <2>0, <2>4 DEF Delete, Deleted, Row
  <2>5. CASE \E o \in DataIds : Moderate(o)
    BY <2>0, <2>5 DEF Moderate, Row
  <2>6. \/ UNCHANGED rows
        \/ \E r \in Requests : InsertObject(r) \/ Publish(r) \/ Delete(r)
        \/ \E o \in DataIds : Moderate(o)
    BY ArriveIsReceive DEF Next, Receive, Step, InsertRefused, InitializeRating,
         ReplyPrepared, CheckNotUploaded, CheckOwner, ReadFileSize, CompareSizes,
         CheckAvailable, ReplyDownload, ReplyAttached, CallFails, Upload, Crash, vars
  <2> QED
    BY <2>1, <2>2, <2>3, <2>4, <2>5, <2>6
<1> QED
  BY <1>1, <1>2

\* How a prepare call comes to be where it is.
LEMMA PrepareMoves ==
  ASSUME TypeOK, PathOK, WorkOK, [Next]_vars, NEW q \in Requests, Preparing(q)'
  PROVE  \/ /\ Preparing(q) /\ UNCHANGED <<call[q], ids[q], todo[q]>>
            /\ pc'[q] \in {pc[q], "error", "lost"}
         \/ /\ ids'[q] = <<>> /\ pc'[q] \notin {"rate", "ok"}
            /\ call'[q].slots \subseteq todo'[q]
         \/ Preparing(q) /\ InsertObject(q)
         \/ Preparing(q) /\ UNCHANGED <<call[q], ids[q]>> /\ InitializeRating(q)
         \/ Preparing(q) /\ UNCHANGED <<call[q], ids[q]>> /\ ReplyPrepared(q)
<1>0. TypeOK /\ PathOK /\ WorkOK
  OBVIOUS
<1>1. CASE Arrive(q)
  <2>1. ids'[q] = <<>> /\ call'[q].method \in MethodsAt(pc'[q])
    BY <1>0, <1>1, ArriveStarts DEF Preparing
  <2>2. pc'[q] # "rate"
    BY <1>0, <1>1, ArriveStarts
  <2>3. pc'[q] # "ok"
    BY <1>0, <1>1, ArriveStarts DEF Preparing, PrepareMethods
  <2>4. call'[q].slots \subseteq todo'[q]
    <3>1. PICK c \in Call, label \in Labels : Receive(q, c, label)
      BY <1>1, ArriveIsReceive
    <3>2. call'[q] = c /\ todo'[q] = c.slots
      BY <1>0, <3>1 DEF Receive, TypeOK
    <3> QED
      BY <3>2
  <2> QED
    BY <2>1, <2>2, <2>3, <2>4
<1>2. CASE Step(q) /\ InFlight(q)
  <2>1. call'[q] = call[q] /\ Preparing(q)
    BY <1>0, <1>2, StepMoves DEF Preparing, InFlight
  <2>2. pc[q] \in {"insert", "rate"}
    <3>1. call[q].method \in MethodsAt(pc[q]) /\ pc[q] \in Labels
      BY <1>0, <2>1 DEF PathOK, Preparing, TypeOK
    <3> QED
      BY <1>2, <2>1, <3>1 DEF MethodsAt, Preparing, PrepareMethods, InFlight, Labels, Ended
  <2>3. \/ InsertObject(q) \/ InsertRefused(q) \/ InitializeRating(q) \/ ReplyPrepared(q)
    BY <1>2, <2>2 DEF Step, CheckNotUploaded, CheckOwner, ReadFileSize, CompareSizes,
         Publish, Delete, CheckAvailable, ReplyDownload, ReplyAttached
  <2>4. pc \in [Requests -> Labels]
    BY <1>0 DEF TypeOK
  <2> QED
    BY <2>1, <2>3, <2>4 DEF InsertRefused, InitializeRating, ReplyPrepared, Goto
<1>3. CASE ~Arrive(q) /\ ~(Step(q) /\ InFlight(q))
  <2>1. UNCHANGED <<call[q], ids[q]>> /\ pc'[q] \in {pc[q], "error", "lost"} /\ Preparing(q)
    BY <1>0, <1>3, Moves DEF Preparing, InFlight, Ended
  <2>2. todo'[q] = todo[q]
    <3>1. todo \in [Requests -> SUBSET Slots] /\ pc \in [Requests -> Labels]
      BY <1>0 DEF TypeOK
    <3>2. \A r \in Requests : Step(r) => InFlight(r)
      BY DEF Step, InsertObject, InsertRefused, InitializeRating, ReplyPrepared,
         CheckNotUploaded, CheckOwner, ReadFileSize, CompareSizes, Publish,
         Delete, CheckAvailable, ReplyDownload, ReplyAttached, InFlight, Ended
    <3>3. ASSUME NEW r \in Requests, Arrive(r) PROVE todo'[q] = todo[q]
      BY <1>3, <3>1, <3>3, ArriveIsReceive DEF Receive
    <3>4. ASSUME NEW r \in Requests, Step(r) PROVE todo'[q] = todo[q]
      BY <1>3, <3>1, <3>2, <3>4 DEF Step, InsertObject, InsertRefused, InitializeRating,
         ReplyPrepared, CheckNotUploaded, CheckOwner, ReadFileSize, CompareSizes, Publish,
         Delete, CheckAvailable, ReplyDownload, ReplyAttached
    <3> QED
      BY <3>3, <3>4 DEF Next, CallFails, Upload, Moderate, Crash, vars, reqVars
  <2> QED
    BY <2>1, <2>2
<1> QED
  BY <1>1, <1>2, <1>3

\* No other call was given the id, for the sequence gives each id once.
LEMMA DrawnNext ==
  ASSUME IInv, DrawnOK, [Next]_vars
  PROVE  DrawnOK'
<1>0. TypeOK /\ PathOK /\ WorkOK /\ lastId \in Nat /\ lastId' \in Nat /\ DataIds \subseteq Nat
  BY NextType, DataAssumption DEF IInv, RequestInv, TypeOK
<1>1. lastId <= lastId'
  BY <1>0, RowsKept
\* What a call has now it had before, or it is the new id.
<1>2. ASSUME NEW q \in Requests, Preparing(q)'
      PROVE  /\ \/ ids'[q] = <<>>
                \/ Preparing(q) /\ ids'[q] = ids[q]
                \/ InsertObject(q) /\ ids'[q] = <<lastId + 1>> /\ lastId' = lastId + 1
             /\ pc'[q] \in {"rate", "ok"} /\ ~InsertObject(q) =>
                  Preparing(q) /\ ids'[q] = ids[q] /\ pc[q] \in {"rate", "ok"}
  <2>1. InsertObject(q) => ids'[q] = <<lastId + 1>> /\ lastId' = lastId + 1
    BY <1>0 DEF InsertObject, TypeOK
  <2> QED
    BY <1>0, <1>2, <2>1, PrepareMoves DEF InitializeRating, ReplyPrepared
<1>3. ASSUME NEW r \in Requests, InsertObject(r) PROVE lastId + 1 \in DataIds
  BY <1>3 DEF InsertObject
<1>4. ASSUME NEW q \in Requests, Preparing(q)'
      PROVE  /\ ids'[q] = <<>> \/ \E id \in DataIds : ids'[q] = <<id>> /\ id <= lastId'
             /\ pc'[q] \in {"rate", "ok"} => ids'[q] # <<>>
  <2>1. CASE InsertObject(q)
    <3>1. ids'[q] = <<lastId + 1>> /\ lastId' = lastId + 1
      BY <1>0, <2>1 DEF InsertObject, TypeOK
    <3>2. lastId + 1 \in DataIds /\ lastId + 1 <= lastId'
      BY <1>0, <1>3, <2>1, <3>1
    <3> QED
      BY <3>1, <3>2
  <2>2. CASE ~InsertObject(q)
    <3>1. ids'[q] = <<>> \/ (Preparing(q) /\ ids'[q] = ids[q])
      BY <1>2, <1>4, <2>2
    <3>2. \A id \in DataIds : id <= lastId => id <= lastId'
      BY <1>0, <1>1
    <3> QED
      BY <1>2, <1>4, <2>2, <3>1, <3>2 DEF DrawnOK
  <2> QED
    BY <2>1, <2>2
<1>5. ASSUME NEW r \in Requests, NEW q \in Requests, r # q, Preparing(r)', Preparing(q)',
             ids'[r] # <<>>
      PROVE  ids'[q] # ids'[r]
  <2>1. ASSUME NEW x \in Requests, Preparing(x), ids[x] = <<lastId + 1>> PROVE FALSE
    <3>1. PICK id \in DataIds : ids[x] = <<id>> /\ id <= lastId
      BY <2>1 DEF DrawnOK
    <3>2. id = lastId + 1
      BY <2>1, <3>1
    <3> QED
      BY <1>0, <3>1, <3>2
  <2>2. ~(InsertObject(r) /\ InsertObject(q))
    <3>1. InsertObject(r) => pc' = [pc EXCEPT ![r] = "rate"]
      BY DEF InsertObject, Goto
    <3>2. InsertObject(q) => pc[q] = "insert" /\ pc'[q] = "rate"
      BY <1>0 DEF InsertObject, Goto, TypeOK
    <3> QED
      BY <1>0, <1>5, <3>1, <3>2 DEF TypeOK
  <2>a. \/ ids'[q] = <<>>
        \/ Preparing(q) /\ ids'[q] = ids[q]
        \/ InsertObject(q) /\ ids'[q] = <<lastId + 1>>
    BY <1>2, <1>5
  <2>b. \/ Preparing(r) /\ ids'[r] = ids[r]
        \/ InsertObject(r) /\ ids'[r] = <<lastId + 1>>
    BY <1>2, <1>5
  <2>3. CASE InsertObject(r) /\ ids'[r] = <<lastId + 1>>
    BY <1>5, <2>1, <2>2, <2>3, <2>a
  <2>4. CASE InsertObject(q) /\ ids'[q] = <<lastId + 1>>
    BY <1>5, <2>1, <2>2, <2>4, <2>b
  <2>5. CASE Preparing(r) /\ ids'[r] = ids[r] /\ Preparing(q) /\ ids'[q] = ids[q]
    BY <1>5, <2>5 DEF DrawnOK
  <2> QED
    BY <1>5, <2>3, <2>4, <2>5, <2>a, <2>b
<1> QED
  BY <1>4, <1>5 DEF DrawnOK

\* The row stays, and each slot leaves the list when its rating row is there.
LEMMA FilledNext ==
  ASSUME IInv, FilledOK, [Next]_vars
  PROVE  FilledOK'
<1>0. TypeOK /\ PathOK /\ WorkOK
  BY DEF IInv, RequestInv
<1>a. ASSUME NEW r \in Requests, Preparing(r)', pc'[r] = "insert"
      PROVE  call'[r].slots \subseteq todo'[r]
  <2>1. InsertObject(r) => pc'[r] = "rate"
    BY <1>0 DEF InsertObject, Goto, TypeOK
  <2>2. InitializeRating(r) => pc'[r] = "rate"
    BY DEF InitializeRating
  <2>3. ReplyPrepared(r) => pc'[r] = "ok"
    BY <1>0 DEF ReplyPrepared, Goto, TypeOK
  <2> QED
    BY <1>0, <1>a, <2>1, <2>2, <2>3, PrepareMoves DEF FilledOK
<1> SUFFICES ASSUME NEW r \in Requests, NEW id \in DataIds,
                    Preparing(r)', pc'[r] \in {"rate", "ok"}, ids'[r] = <<id>>
             PROVE  /\ Exists(id)' /\ rows'[id].owner = call'[r].pid
                    /\ rows'[id].size = call'[r].size
                    /\ call'[r].slots \subseteq ratings'[id] \cup todo'[r]
                    /\ pc'[r] = "ok" => call'[r].slots \subseteq ratings'[id]
  BY <1>a DEF FilledOK, Filled
<1>1. /\ ratings[id] \subseteq ratings'[id]
      /\ Exists(id) => /\ Exists(id)' /\ rows'[id].owner = rows[id].owner
                       /\ rows'[id].size = rows[id].size
  BY <1>0, Monotonic, RowsKept
<1>b. Preparing(r) /\ ids[r] = <<id>> /\ pc[r] \in {"rate", "ok"} => Filled(r, id)
  BY DEF FilledOK
<1>2. CASE Preparing(r) /\ UNCHANGED <<call[r], ids[r], todo[r]>> /\ pc'[r] = pc[r]
  BY <1>1, <1>2, <1>b DEF Filled
<1>3. CASE Preparing(r) /\ InsertObject(r)
  <2>1. /\ ids'[r] = <<lastId + 1>> /\ pc[r] = "insert" /\ pc'[r] = "rate"
        /\ call' = call /\ todo' = todo
        /\ rows' = [rows EXCEPT ![lastId + 1] = NewRow(call[r].pid, call[r].size)]
    BY <1>0, <1>3 DEF InsertObject, Goto, TypeOK
  <2>2. id = lastId + 1 /\ rows'[id] = NewRow(call[r].pid, call[r].size)
    BY <1>0, <2>1 DEF TypeOK
  <2>3. call[r] \in Call /\ rows'[id] \in Row
    BY <1>0, <1>3, <2>2 DEF PathOK, Preparing, NewRow, Call, Row
  <2>4. call[r].slots \subseteq todo[r]
    BY <1>3, <2>1 DEF FilledOK
  <2>5. Exists(id)'
    BY <2>3, DataAssumption DEF Exists
  <2> QED
    BY <2>1, <2>2, <2>4, <2>5 DEF NewRow
<1>4. CASE Preparing(r) /\ UNCHANGED <<call[r], ids[r]>> /\ InitializeRating(r)
  <2>0. ids[r] = <<id>> /\ Head(<<id>>) = id
    BY <1>4
  <2>1. /\ pc[r] = "rate" /\ pc' = pc /\ rows' = rows
        /\ \E slot \in todo[r] :
             /\ ratings' = [ratings EXCEPT ![id] = @ \cup {slot}]
             /\ todo' = [todo EXCEPT ![r] = @ \ {slot}]
    BY <1>4, <2>0 DEF InitializeRating
  <2>2. ratings[id] \cup todo[r] \subseteq ratings'[id] \cup todo'[r]
    BY <1>0, <2>1 DEF TypeOK
  <2> QED
    BY <1>1, <1>4, <1>b, <2>0, <2>1, <2>2 DEF Filled
<1>5. CASE Preparing(r) /\ UNCHANGED <<call[r], ids[r]>> /\ ReplyPrepared(r)
  <2>1. pc[r] = "rate" /\ todo[r] = {}
    BY <1>5 DEF ReplyPrepared
  <2> QED
    BY <1>1, <1>5, <1>b, <2>1 DEF Filled
<1> QED
  BY <1>0, <1>2, <1>3, <1>4, <1>5, PrepareMoves

LEMMA Prepares == Spec => [](IInv /\ DrawnOK /\ FilledOK)
<1>1. Init => DrawnOK /\ FilledOK
  BY DEF Init, DrawnOK, FilledOK, Preparing
<1>2. Init => IInv /\ DrawnOK /\ FilledOK
  BY <1>1, InitInv
<1>3. (IInv /\ DrawnOK /\ FilledOK) /\ [Next]_vars => (IInv /\ DrawnOK /\ FilledOK)'
  BY NextInv, DrawnNext, FilledNext
<1> QED
  BY <1>2, <1>3, PTL DEF Spec

\* The client of a prepare call that was answered has a row and rating rows of
\* its own, however many calls insert at the same time and wherever the
\* sequence stands.
THEOREM PreparedAreComplete == Spec => []PreparedIsComplete
<1>1. IInv /\ DrawnOK /\ FilledOK => PreparedIsComplete
  <2> SUFFICES ASSUME IInv, DrawnOK, FilledOK, NEW r \in Requests, pc[r] = "ok",
                      call[r].method \in PrepareMethods
               PROVE  LET id == Head(ids[r]) IN
                      /\ rows[id].owner = call[r].pid /\ rows[id].size = call[r].size
                      /\ call[r].slots \subseteq ratings[id]
                      /\ \A q \in Requests \ {r} :
                           pc[q] # "idle" /\ call[q].method \in PrepareMethods => ids[q] # ids[r]
    BY DEF PreparedIsComplete
  <2>1. Preparing(r)
    BY DEF Preparing
  <2>2. PICK id \in DataIds : ids[r] = <<id>>
    BY <2>1 DEF DrawnOK
  <2>3. Filled(r, id) /\ Head(ids[r]) = id
    BY <2>1, <2>2 DEF FilledOK
  <2>4. \A q \in Requests \ {r} : Preparing(q) => ids[q] # ids[r]
    BY <2>1 DEF DrawnOK
  <2> QED
    BY <2>3, <2>4 DEF Filled, Preparing
<1> QED
  BY <1>1, Prepares, PTL
-----------------------------------------------------------------------------
\* The life of an object seen through its row.
StageOf(row) ==
  IF row = NoRow THEN "absent"
  ELSE IF row.deleted THEN "withdrawn"
  ELSE IF row.completed THEN "published" ELSE "pending"
OwnerOf(row) == IF row # NoRow THEN row.owner ELSE NoRow

\* When the rows stay as they look, so does the life of every object.
LEMMA SameLife ==
  ASSUME \A id \in DataIds : /\ StageOf(rows'[id]) = StageOf(rows[id])
                              /\ OwnerOf(rows'[id]) = OwnerOf(rows[id])
  PROVE  UNCHANGED Lifecycle!lifeVars
BY DEF Lifecycle!lifeVars, Stage, Owner, StageOf, OwnerOf, Exists

\* When one row changes, the life of its object does.
LEMMA OneLife ==
  ASSUME NEW id \in DataIds, \A i \in DataIds \ {id} : rows'[i] = rows[i]
  PROVE  /\ [i \in DataIds |-> Stage(i)]' =
              [[i \in DataIds |-> Stage(i)] EXCEPT ![id] = StageOf(rows'[id])]
         /\ [i \in DataIds |-> Owner(i)]' =
              [[i \in DataIds |-> Owner(i)] EXCEPT ![id] = OwnerOf(rows'[id])]
         /\ [i \in DataIds |-> Stage(i)][id] = StageOf(rows[id])
         /\ OwnerOf(rows'[id]) = OwnerOf(rows[id]) => UNCHANGED [i \in DataIds |-> Owner(i)]
BY DEF Stage, Owner, StageOf, OwnerOf, Exists

\* UPDATE ... SET upload_completed leaves a row with its other columns.
LEMMA SetCompleted ==
  ASSUME NEW row \in Row, NEW new, new = [row EXCEPT !.completed = TRUE]
  PROVE  new \in Row /\ new.completed /\ new.deleted = row.deleted /\ new.owner = row.owner
BY DEF Row

\* UPDATE ... SET deleted leaves the owner.
LEMMA SetDeleted ==
  ASSUME NEW row \in Row, NEW new, new = [row EXCEPT !.deleted = TRUE]
  PROVE  new \in Row /\ new.deleted /\ new.owner = row.owner
BY DEF Row

\* UPDATE ... SET under_review leaves the life of the object.
LEMMA SetReview ==
  ASSUME NEW row \in Row, NEW new, new = [row EXCEPT !.review = ~row.review]
  PROVE  /\ new \in Row /\ new.deleted = row.deleted /\ new.owner = row.owner
         /\ new.completed = row.completed
BY DEF Row

\* Every step of the requests is a step of the abstract life, or none.
LEMMA LifeNext ==
  ASSUME TypeOK, PathOK, WorkOK, [Next]_vars
  PROVE  [Lifecycle!Next]_(Lifecycle!lifeVars)
<1> USE DEF dbVars, reqVars
<1>0. ASSUME UNCHANGED rows PROVE UNCHANGED Lifecycle!lifeVars
  BY <1>0, SameLife
<1>1. ASSUME NEW r \in Requests,
             \/ Arrive(r) \/ CallFails(r)
             \/ InsertRefused(r) \/ InitializeRating(r) \/ ReplyPrepared(r)
             \/ CheckNotUploaded(r) \/ CheckOwner(r) \/ ReadFileSize(r)
             \/ CompareSizes(r) \/ CheckAvailable(r) \/ ReplyDownload(r) \/ ReplyAttached(r)
      PROVE  UNCHANGED rows
  BY <1>1, ArriveIsReceive DEF Receive, InsertRefused, InitializeRating,
       ReplyPrepared, CheckNotUploaded, CheckOwner, ReadFileSize, CompareSizes,
       CheckAvailable, ReplyDownload, ReplyAttached, CallFails
<1>2. ASSUME NEW r \in Requests, InsertObject(r) PROVE Lifecycle!Next
  <2> DEFINE id == lastId + 1
             row == NewRow(call[r].pid, call[r].size)
  <2>1. id \in DataIds /\ rows[id] = NoRow /\ rows' = [rows EXCEPT ![id] = row]
    BY <1>2 DEF InsertObject, Exists
  <2>2. call[r].pid \in Pids /\ call[r].size \in Nat
    BY <1>2 DEF InsertObject, PathOK, Call
  <2>3. row \in Row /\ ~row.deleted /\ ~row.completed /\ row.owner = call[r].pid
    BY <2>2 DEF NewRow, Row
  <2>4. rows'[id] = row /\ \A i \in DataIds \ {id} : rows'[i] = rows[i]
    BY <2>1 DEF TypeOK
  <2> HIDE DEF id, row
  <2>5. StageOf(row) = "pending" /\ OwnerOf(row) = call[r].pid /\ StageOf(rows[id]) = "absent"
    BY <2>1, <2>3, DataAssumption DEF StageOf, OwnerOf
  <2>6. Lifecycle!Create(id)
    <3>1. /\ [i \in DataIds |-> Stage(i)]' =
               [[i \in DataIds |-> Stage(i)] EXCEPT ![id] = StageOf(rows'[id])]
          /\ [i \in DataIds |-> Owner(i)]' =
               [[i \in DataIds |-> Owner(i)] EXCEPT ![id] = OwnerOf(rows'[id])]
          /\ [i \in DataIds |-> Stage(i)][id] = StageOf(rows[id])
      BY <2>1, <2>4, OneLife
    <3>2. [i \in DataIds |-> Stage(i)][id] = "absent"
      BY <2>5, <3>1
    <3>3. [i \in DataIds |-> Stage(i)]' = [[i \in DataIds |-> Stage(i)] EXCEPT ![id] = "pending"]
      BY <2>4, <2>5, <3>1
    <3>4. \E p \in Pids : [i \in DataIds |-> Owner(i)]' =
                           [[i \in DataIds |-> Owner(i)] EXCEPT ![id] = p]
      BY <2>2, <2>4, <2>5, <3>1
    <3> QED
      BY <3>2, <3>3, <3>4 DEF Lifecycle!Create
  <2> QED
    BY <2>1, <2>6 DEF Lifecycle!Next
<1>3. ASSUME NEW r \in Requests, Publish(r)
      PROVE  [Lifecycle!Next]_(Lifecycle!lifeVars)
  <2>1. PICK id \in DataIds : id = Head(ids[r])
    BY <1>3, AtLabel DEF Publish, Working
  <2>2. CASE ~Exists(id)
    BY <1>0, <1>3, <2>1, <2>2 DEF Publish, UploadCompleted
  <2>3. CASE Exists(id)
    <3>1. rows[id] \in Row /\ rows' = [rows EXCEPT ![id].completed = TRUE]
      BY <1>3, <2>1, <2>3 DEF Publish, UploadCompleted, TypeOK, Exists
    <3>2. /\ rows'[id] = [rows[id] EXCEPT !.completed = TRUE]
          /\ \A i \in DataIds \ {id} : rows'[i] = rows[i]
      BY <3>1 DEF TypeOK
    <3>3. /\ rows'[id] \in Row /\ rows'[id].completed
          /\ rows'[id].deleted = rows[id].deleted /\ rows'[id].owner = rows[id].owner
      BY <3>1, <3>2, SetCompleted
    <3>4. rows[id] # NoRow /\ rows'[id] # NoRow
      BY <3>1, <3>3, DataAssumption
    <3>5. OwnerOf(rows'[id]) = OwnerOf(rows[id])
      BY <3>3, <3>4 DEF OwnerOf
    <3>6. CASE rows[id].deleted \/ rows[id].completed
      <4>1. StageOf(rows'[id]) = StageOf(rows[id])
        BY <3>3, <3>4, <3>6 DEF StageOf
      <4> QED
        BY <3>2, <3>5, <4>1, SameLife
    <3>7. CASE ~rows[id].deleted /\ ~rows[id].completed
      <4>1. StageOf(rows[id]) = "pending" /\ StageOf(rows'[id]) = "published"
        BY <3>3, <3>4, <3>7 DEF StageOf
      <4>2. Lifecycle!Publish(id)
        BY <3>2, <3>5, <4>1, OneLife DEF Lifecycle!Publish
      <4> QED
        BY <4>2 DEF Lifecycle!Next
    <3> QED
      BY <3>6, <3>7
  <2> QED
    BY <2>2, <2>3
<1>4. ASSUME NEW r \in Requests, Delete(r)
      PROVE  [Lifecycle!Next]_(Lifecycle!lifeVars)
  <2>1. PICK id \in DataIds : id = Head(ids[r])
    BY <1>4, AtLabel DEF Delete, Working
  <2>2. CASE ~Exists(id)
    BY <1>0, <1>4, <2>1, <2>2 DEF Delete, Deleted
  <2>3. CASE Exists(id)
    <3>1. rows[id] \in Row /\ rows' = [rows EXCEPT ![id].deleted = TRUE]
      BY <1>4, <2>1, <2>3 DEF Delete, Deleted, TypeOK, Exists
    <3>2. /\ rows'[id] = [rows[id] EXCEPT !.deleted = TRUE]
          /\ \A i \in DataIds \ {id} : rows'[i] = rows[i]
      BY <3>1 DEF TypeOK
    <3>3. rows'[id] \in Row /\ rows'[id].deleted /\ rows'[id].owner = rows[id].owner
      BY <3>1, <3>2, SetDeleted
    <3>4. rows[id] # NoRow /\ rows'[id] # NoRow
      BY <3>1, <3>3, DataAssumption
    <3>5. OwnerOf(rows'[id]) = OwnerOf(rows[id]) /\ StageOf(rows'[id]) = "withdrawn"
      BY <3>3, <3>4 DEF OwnerOf, StageOf
    <3>6. CASE rows[id].deleted
      <4>1. StageOf(rows'[id]) = StageOf(rows[id])
        BY <3>4, <3>5, <3>6 DEF StageOf
      <4> QED
        BY <3>2, <3>5, <4>1, SameLife
    <3>7. CASE ~rows[id].deleted
      <4>1. StageOf(rows[id]) \in {"pending", "published"}
        BY <3>4, <3>7 DEF StageOf
      <4>2. Lifecycle!Withdraw(id)
        BY <3>2, <3>5, <4>1, OneLife DEF Lifecycle!Withdraw
      <4> QED
        BY <4>2 DEF Lifecycle!Next
    <3> QED
      BY <3>6, <3>7
  <2> QED
    BY <2>2, <2>3
<1>5. ASSUME NEW id \in DataIds, Moderate(id) PROVE UNCHANGED Lifecycle!lifeVars
  <2>1. rows[id] \in Row /\ rows' = [rows EXCEPT ![id].review = ~rows[id].review]
    BY <1>5 DEF Moderate, TypeOK, Exists
  <2>2. /\ rows'[id] = [rows[id] EXCEPT !.review = ~rows[id].review]
        /\ \A i \in DataIds \ {id} : rows'[i] = rows[i]
    BY <2>1 DEF TypeOK
  <2>3. /\ rows'[id] \in Row /\ rows'[id].completed = rows[id].completed
        /\ rows'[id].deleted = rows[id].deleted /\ rows'[id].owner = rows[id].owner
    BY <2>1, <2>2, SetReview
  <2>4. StageOf(rows'[id]) = StageOf(rows[id]) /\ OwnerOf(rows'[id]) = OwnerOf(rows[id])
    BY <2>1, <2>3, DataAssumption DEF StageOf, OwnerOf
  <2> QED
    BY <2>2, <2>4, SameLife
<1>6. ASSUME NEW k \in Keys, NEW n \in Sizes, Upload(k, n) PROVE UNCHANGED rows
  BY <1>6 DEF Upload
<1>7. CASE Crash
  BY <1>0, <1>7 DEF Crash
<1>8. CASE UNCHANGED vars
  BY <1>0, <1>8 DEF vars
<1> QED
  BY <1>0, <1>1, <1>2, <1>3, <1>4, <1>5, <1>6, <1>7, <1>8 DEF Next, Step

\* At first there are the objects that earlier runs have published.
LEMMA LifeInit == Init => Lifecycle!Init
<1> SUFFICES ASSUME Init PROVE Lifecycle!Init
  OBVIOUS
<1>1. ASSUME NEW id \in DataIds
      PROVE /\ Stage(id) \in {"absent", "published"} /\ Owner(id) \in Pids \cup {NoRow}
            /\ Owner(id) = NoRow <=> Stage(id) = "absent"
  <2>1. CASE id \in DOMAIN Left
    <3>1. rows[id] = LeftRow(id)
      BY <2>1 DEF Init, LeftRow
    <3>2. LeftRow(id) \in Row /\ LeftRow(id).completed /\ ~LeftRow(id).deleted
          /\ LeftRow(id).owner \in Pids
      BY <2>1, DataAssumption DEF LeftRow, NewRow, Row
    <3>3. NoRow \notin Row /\ NoRow \notin Pids
      BY DataAssumption
    <3> QED
      BY <3>1, <3>2, <3>3 DEF Stage, Owner, Exists
  <2>2. CASE id \notin DOMAIN Left
    BY <2>2 DEF Init, Stage, Owner, Exists
  <2> QED
    BY <2>1, <2>2
<1> QED
  BY <1>1 DEF Lifecycle!Init

\* The rows of concurrent requests implement the abstract life of an object:
\* one creation for one owner, and a withdrawal that is never undone, by
\* whatever completion comes late.
THEOREM LifecycleImplemented == Spec => ImplementsLifecycle
<1>1. IInv => TypeOK /\ PathOK /\ WorkOK
  BY DEF IInv, RequestInv
<1> QED
  BY <1>1, LifeInit, LifeNext, Invariance, PTL DEF Spec, ImplementsLifecycle, Lifecycle!Spec
=============================================================================

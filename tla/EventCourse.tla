---------------------------- MODULE EventCourse ----------------------------
(***************************************************************************)
(* The start of the server, beside the imports of CourseImport.  Before    *)
(* the secure server listens it puts the placeholder of the event course   *)
(* into the bucket and into datastore.objects, under a fixed data id.  The *)
(* admin panel is started at the same time and does not wait; neither do   *)
(* consoles that still hold an upload form.  Errors are only logged.  The  *)
(* process may end and start again at any point.                           *)
(***************************************************************************)
EXTENDS CourseImport

CONSTANTS EventId,      \* eventCourseMetadataDataID
          System,       \* the owner of the placeholder, PID 2
          EventSize,    \* the size of the placeholder, which is empty
          MaxBoots      \* bound: how often the server is started

\* No earlier run has left the id of the event course to somebody else.
ASSUME EventAssumption ==
  /\ EventId \in DataIds /\ System \in Pids /\ EventSize \in Sizes
  /\ EventId \in DOMAIN Left => Left[EventId].owner = System
  /\ MaxBoots \in Nat \ {0}

VARIABLES boot,         \* the next call of the start
          boots         \* how often the server was started

bootVars == <<boot, boots>>
everything == <<allVars, bootVars>>

\* Ready: the placeholder was written.  Unready: an error ended the attempt.
Listening == {"ready", "unready"}
BootLabels == {"put", "exists", "insert", "update"} \cup Listening

BootTypeOK == ImportTypeOK /\ boot \in BootLabels /\ boots \in 1..MaxBoots

BootInit == ImportInit /\ boot = "put" /\ boots = 1
-----------------------------------------------------------------------------
\* PutObject of smm/900000.bin, whatever the bucket has there.
BootPut ==
  /\ boot = "put"
  /\ s3' = [s3 EXCEPT ![<<"bin", EventId>>] = EventSize]
  /\ boot' = "exists"
  /\ UNCHANGED <<dbVars, grants, reqVars, importVars, boots>>

\* SELECT EXISTS(...); deleted rows and rows without their file count.
BootExists ==
  /\ boot = "exists"
  /\ boot' = IF Exists(EventId) THEN "update" ELSE "insert"
  /\ UNCHANGED <<allVars, boots>>

\* Fault: the INSERT leaves the column owner out.
PlaceholderRowFault == [NewRow(NoRow, EventSize) EXCEPT !.completed = TRUE]

PlaceholderRow == [NewRow(System, EventSize) EXCEPT !.completed = TRUE]

\* Fault: the placeholder replaces a row that came in between.
BootInsertFault ==
  /\ boot = "insert"
  /\ rows' = [rows EXCEPT ![EventId] = PlaceholderRow]
  /\ boot' = "ready"
  /\ UNCHANGED <<lastId, ratings, s3, grants, reqVars, importVars, boots>>

\* INSERT under the fixed id.  The sequence is left where it is.  The primary
\* key refuses the row when an import or a post has taken the id meanwhile.
BootInsert ==
  /\ boot = "insert"
  /\ IF Exists(EventId)
     THEN UNCHANGED rows /\ boot' = "unready"
     ELSE rows' = [rows EXCEPT ![EventId] = PlaceholderRow] /\ boot' = "ready"
  /\ UNCHANGED <<lastId, ratings, s3, grants, reqVars, importVars, boots>>

\* Fault: the row is made new.
BootUpdateFault ==
  /\ boot = "update"
  /\ rows' = [rows EXCEPT ![EventId].deleted = FALSE]
  /\ boot' = "ready"
  /\ UNCHANGED <<lastId, ratings, s3, grants, reqVars, importVars, boots>>

\* UPDATE of the size (and of a date) alone, whoever has the row.
BootUpdate ==
  /\ boot = "update"
  /\ rows' = [rows EXCEPT ![EventId].size = EventSize]
  /\ boot' = "ready"
  /\ UNCHANGED <<lastId, ratings, s3, grants, reqVars, importVars, boots>>

\* Fault: the start goes on after an error of PutObject.
BootFailsFault ==
  /\ boot \notin Listening
  /\ boot' = IF boot = "put" THEN "exists" ELSE "unready"
  /\ UNCHANGED <<allVars, boots>>

\* An error of S3 or of Postgres is logged; the server goes on without.
BootFails ==
  /\ boot \notin Listening
  /\ boot' = "unready"
  /\ UNCHANGED <<allVars, boots>>

\* The process ends, in the middle of what it does, and is started again.
Restart ==
  /\ boots < MaxBoots
  /\ boots' = boots + 1 /\ boot' = "put"
  /\ CrashAll \/ UNCHANGED allVars

BootStep == BootPut \/ BootExists \/ BootInsert \/ BootUpdate

\* A request is served in this step.
Serves(r) == <<pc[r], todo[r]>>' # <<pc[r], todo[r]>>

\* Consoles are served once the server listens, deletions of the admin panel at
\* once; files arrive at any time.  The owner of the placeholder is an account
\* that no console has.
ServedNext ==
  /\ PlayerNext
  /\ \A r \in Requests : Serves(r) =>
       /\ boot \in Listening \/ call'[r].method = "AdminDeleteCourse"
       /\ call'[r].pid # System
  /\ UNCHANGED bootVars

PanelNext == AdminNext /\ UNCHANGED bootVars

BootNext == BootStep \/ BootFails \/ Restart \/ ServedNext \/ PanelNext

BootSpec == BootInit /\ [][BootNext]_everything
-----------------------------------------------------------------------------
\* A post of a player was given the event's id.
Drawn == \E r \in Requests : ids[r] = <<EventId>> /\ call[r].method \in PrepareMethods

\* The admin panel, or the maker's report of a failed upload, has deleted it.
Removed ==
  \/ Asked("AdminDeleteCourse", EventId) # {}
  \/ \E r \in Asked("completePostObject", EventId) :
       ~call[r].success /\ call[r].pid = rows[EventId].owner

\* A start that says it is ready has left a file, and a row which consoles
\* find; unless the row had been deleted before, or a player's post was given
\* the id in a time without placeholder and is not completed.
ReadyIsServed ==
  [][boot' = "ready" /\ boot # "ready" =>
       /\ Exists(EventId)' /\ HasFile(EventId)'
       /\ IsObjectAvailable(EventId)' \/ Removed \/ Drawn]_everything

\* The player or the maker of the course a row was created for.
CreatedFor(c) == IF c[1] = "player" THEN call[c[2]].pid ELSE course[c[2]].owner

\* The row of the event id is the placeholder, or that of the one post or
\* import which got the id first and still belongs to its maker: neither a
\* start that races with an import nor a later start makes it change hands.
EventRowHasOneMaker ==
  Exists(EventId) =>
    \/ Creators(EventId) = {} /\ rows[EventId].owner = System
    \/ \E c \in Creators(EventId) :
         Creators(EventId) = {c} /\ rows[EventId].owner = CreatedFor(c)
=============================================================================

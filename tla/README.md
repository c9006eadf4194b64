# Verification of the Super Mario Maker server

This directory holds TLA+ models of the server under `src/`, the instances on
which TLC checks them, and proofs about them for TLAPS. It says of every part
of the server whether it is modelled, and of every model which code it stands
for. `PROJECT.json` has the same facts by the line: the lines each definition
translates (`map`), the runs, the places where the code is hard to test
(`hazards`), and where the code and its comments disagree (`findings`).

Contents: 1 the system · 2 its components · 3 the modules · 4 the runs ·
5 fairness and liveness · 6 the proofs · 7 where the code disagrees with its
comments · 8 what is left out · 9 the plan · 10 how to run everything

## 1. The system

`main.go` starts four servers in one process: the NEX authentication server,
the NEX secure server, an HTTP endpoint for the course world ("pickup"), and
the admin panel.

* A console logs in at the authentication server and connects to the secure
  server with a ticket. Each RMC request it then sends is handled by a function
  that nex-go calls **in a goroutine of its own**. A reply, or an error, goes
  back when the function returns.
* The handlers come from three places: `nex-protocols-common-go-patch` (a
  patched library: generic DataStore, matchmaking, secure connection),
  `nex_smm` (the methods of this game), and `smmdatabase` (the SQL that both
  use, handed to the library as callbacks such as `GetObjectInfoByDataID`).
* State outlives a request in two places only: **Postgres** (objects, ratings,
  rankings, records, buffer queues, gatherings) and **S3** (course files and
  thumbnails, which consoles upload and download directly with presigned
  forms). What a handler holds in variables is gone when it returns.
* The admin panel (`smmadmin`) works on the same tables and bucket, beside the
  players' requests.

What makes it hard:

* **No handler uses a transaction.** Whatever a handler does takes several
  statements, and any of them may fail, or be the last one before the process
  ends, and leave the earlier ones in the tables.
* **DataStore handlers take no lock.** Between any two statements of one
  request, statements of others run; what was read is stale when it is used.
  A list that a client gets is put together from dozens of such statements.
* **The process may end at any point and starts again** with tables and bucket
  as they were; the admin panel is up before the start is done.
* **Matchmaking handlers hold one mutex** (`MatchmakingManager.Mutex`) from
  before their first statement to after their last. They do not interleave, but
  they fail in the middle, and the callback for the end of a connection takes
  its turn on the same mutex, so that a request can be served after its player
  is gone.
* **Errors are dropped** in many places, by intent (RateCustomRanking, most of
  the import) or by overwriting (`err` of the lookup in completePostObject).
* Consoles repeat requests, upload twice, or complete what they never sent.

## 2. Components, their state and what makes them correct

| component | state | operations | must hold | model |
|---|---|---|---|---|
| DataStore objects | `datastore.objects`, its id sequence, `object_ratings`, the bucket | prepare, upload, complete (one or a batch), complete attach, download, admin delete | a visible object has a file; only its owner or the admin deletes it; replies are true; rows move forward only | `DataStore` |
| Course import | the same, with explicit ids | `handleImport` | one creator per id; an imported course has the admin's file; the sequence stays ahead | `CourseImport` |
| Event courses, start | one object with a fixed id | put, look for, insert or update, at every start | the event course is found after a start that says so; its row never changes hands | `EventCourse` |
| Course activity | `course_records`, `object_custom_rankings`, `object_ratings`, `buffer_queues`, the data type | record, stars, rate, star a maker, changeMeta, admin numbers | the record is the best result and its sender's; each item counts once, on courses only; a maker's list is its owner's | `CourseActivity` |
| Browsing, metadata and course reads | none | lists (random, latest, ranked, by id, by owner), metadata of one, many or all objects of an owner, download URLs, records, queues, the pickup pools | what is shown was there while the request ran; nothing that belongs on a reply is missing; entries stand where the client looks | `Browsing` |
| Gatherings | `matchmaking.gatherings`, `matchmake_sessions`, `persistent_gatherings`; connections | create, find, join, bring along, leave, take over, close, unregister, disconnect, restart | capacity; owner and host take part; one session per player; those who stay are told | `Gatherings` |
| Secure connection, NAT | station URLs of a connection | register, replace, report, request, probe | a station handed out for a player names that player, and reaches nobody else unless the player's console rewrote it | `Connections` |
| Notification data | a notice per player and type | set, push to friends, read, deactivate | a player who is gone has no active notice; no friend misses one | `Connections` |
| Course file parsing | none | pure functions on bytes | total, in range | not modelled |
| Attributes of sessions, matchmaking reads | columns of a session | one statement each | – | not modelled |
| Authentication, tickets, configuration, schema, ranking, utility, message delivery | none kept between requests | – | – | not modelled |

How they meet: DataStore, CourseImport and EventCourse share tables, sequence
and bucket, so CourseImport EXTENDS DataStore, EventCourse EXTENDS CourseImport,
and each composed specification interleaves the parts. CourseActivity needs of
an object only whether it is available and whose it is; it moves its objects by
`ObjectLifecycle`, the abstract specification that the other three are shown to
implement (runs `answers`, `imports` and `boot`, theorems `LifecycleImplemented`,
`LifecycleWithImports` and `LifecycleWithStarts`). Browsing EXTENDS
CourseActivity: it reads what the requests there write. Gatherings and
Connections share no state with the DataStore.

The matchmaking protocols, and with them NAT traversal and notification data,
are part of the patched library in this repository; `secure.go` of this game
registers the DataStore and the secure connection only. They are modelled
because the repository carries, patches and maintains them.

## 3. The modules

    ObjectLifecycle            what the DataStore promises of an object
      ^ implemented by           ^ instantiated by
    DataStore                  CourseActivity         Gatherings    Connections
      ^                          ^
    CourseImport               Browsing
      ^
    EventCourse

Arrows are EXTENDS, but for those of ObjectLifecycle. Browsing and Gatherings also
extend `Lists`, which has the one operator on lists that both need (`Only`, the
elements of a list that are in a set). Each module but ObjectLifecycle and Lists has
an `MC` module with its instances for TLC, and each but ObjectLifecycle a `_proofs`
module for TLAPS: CourseImport_proofs builds on DataStore_proofs, EventCourse_proofs
on that, Browsing_proofs on CourseActivity_proofs, and Browsing_proofs,
CourseActivity_proofs and Gatherings_proofs on Lists_proofs, the lemmas about lists
and about induction.

Definitions carry the names of the code where there is one. A definition whose
comment begins with *Fault* is not part of any specification: it is a form of
the definition after it with a plausible bug, and `PROJECT.json` names the
property that breaks when it takes that definition's place.

### DataStore

One request per element of `Requests`; `pc[r]` names the call (a SQL statement
or an S3 request) it makes next, and an action is that call with the Go code up
to the next. So `CheckOwner` and `Delete` of completePostObject are two actions
with anything in between.

| state | code |
|---|---|
| `rows[id]` | a row of `datastore.objects`; `owner`, `size`, `completed` (upload_completed), `deleted`, `review` (under_review) |
| `lastId` | `object_data_id_seq`; `NewRow` under `lastId + 1` |
| `ratings[id]` | the slots of `object_ratings` that have a row |
| `s3[<<kind, id>>]` | the size of `smm/<id>.bin` or `smm/<id>.jpg` |
| `Left` (constant) | what earlier runs of the server have published; the rows and files at the start |
| `grants` | keys for which a presigned POST form was handed out; `Upload` may use one at any time, with any size, repeatedly |
| `pc`, `call`, `ids`, `todo`, `seen` | a handler's local variables |

`CallFails` ends a request with its error at any call; completePostObject,
which goes on when its lookup fails, is excepted and has that in
`CheckNotUploaded`. `Crash` ends every request in flight and leaves tables and
bucket. CompleteAttachFile goes on after its UPDATE (`Publish`) to the presigner
(`ReplyAttached`), whose failure leaves a published row under an error reply. A
download by persistence target (DataID 0) is the request for the id that the target
names; a permission or password that refuses a player is one more way for a call to
fail. `Moderate` is outside the program: under_review is read by the code and
written by none of it.

### CourseImport

`handleImport` and `AdminImportCourse` call by call beside the requests of
DataStore. `ErrorIgnored` is every error the code drops or only logs,
`ErrorReported` those that end the import; `setval(GREATEST(id, (SELECT
last_value ...)))` is two actions, since Postgres locks nothing between reading
and setting a sequence. What a submission contains once it is parsed is one
record of `Courses`.

### EventCourse

`ensureEventCourseMetadataExists` runs before the secure server listens: the
placeholder is put into the bucket, its row is looked for, and inserted under
the fixed id or updated. `boot` is the call that comes next. Every error is
logged and ends the attempt (`BootFails`, "unready"), after which the server
listens all the same. Players are served only then (`ServedNext`); the admin
panel, with its imports (`PanelNext`) and deletions (a request with the method
AdminDeleteCourse), is up from the beginning, and upload forms of an earlier run
still work. `Restart` ends the process at any point, with the requests in flight
or (an ordinary shutdown) after them, and starts again, up to `MaxBoots` times.
The INSERT does not move the sequence, so a player's post may be given the
event's id when the sequence gets there, and an import may bring it along.

### CourseActivity

Requests with a list of items (`call[r].items`, at position `at[r]`), so that a
request may break off between two items. Records, stars, ratings and queues are
keyed by course; of the rating slots and the applications of a ranking one stands
for all, because each statement names its key and no statement touches two. Of the
slots of a queue it is slot 0: AddToBufferQueues looks at the type and the owner of
the object for that slot only, and `MakerListIsOwners` is about it. RateObjectWithPassword
reads the row back after its UPDATE; when that read fails, the rating is counted
under an error reply (`DoneButFails`). `Closed` are the objects with a permission
above 3, which VerifyObjectPermission refuses to everybody. `Moderate` lets
moderators hold the objects in `Reviewable` back and let them go. A crash is not an action here: a request that never
takes another step leaves exactly what a crash leaves, and no property but
`Answered` asks a request to go on.

The value of a ranking may be negative (the admin can take stars away) and does
then not scan into the unsigned score: `Readable` in Browsing.

### Browsing

One request per element of `Browsers`, by the player `Caller[b]`. A handler
becomes a list of statements: query ids (`query`), leave out what is not
available (`filter`), read their values (`rank`), look each object up (`look`),
check it (`check`) and read its record or queue. `ask[b].kind` says which of
them a request makes and what becomes of an object that cannot be shown, which
differs between handlers: an empty entry (`GappedKinds`), an error for the whole
request (`StrictKinds`), or no entry.

* A SELECT with a limit but no complete order may return any page (`Pages`);
  the ranking returns one that is sorted at that moment (`TopRanked`).
* `SkipFails` is every error that is dropped, and `missed` records what was left
  out for it; `RequestFails` is every error that is returned.
* `arrival` is history: the tables when the request arrived. The two properties
  about lists compare a reply with it: `ShownIsCurrent` (nothing is shown that was
  not there at some time since) and `NothingIsMissed` (what was there all the
  time is shown). A page is filled by its query, and what is then lost of it leaves
  it shorter: a course that is withdrawn, or one whose stars an administrator takes
  below zero or changes otherwise (`lost` in the property). That second excuse has no
  part in the run, whose instance has no administrator; the proof needs it.
* The LIMIT of GetObjectsByOwnerIDs counts objects under review too, as its SQL does
  not look at that column, and GetObjectInfoByDataID leaves them out afterwards: a
  page of an owner's objects may come out short although the owner has others that
  are visible. The model does the same (`QueryObjectsOf`), and the property says so
  by name: such an object counts as lost to a reply of that kind, and to no other.
  What moderators hold back while a request runs (`Elsewhere`) counts as `missed`.
* Dates are not kept, so "latest" is some page. A request asks for all parts of
  an object; the parts that ResultOption strips are not told apart.

### Connections

Connections have ids of their own: a player who reconnects has two until the old
one times out. `life` goes from open to `ended`, when nex-go has forgotten the
connection, to `closed`, when the callback has run.

* `register` appends two stations, on every call, to a slice that other requests
  read without a lock. An append is `Grow` (the new length, a `Blank` element) and `Fill`. One
  request of a connection at a time changes its list, since a console waits for
  the reply; the readers are the other players.
* A station is the player and the connection in it; addresses and NAT types are
  abstracted. `ReplaceURL` may replace any of the stations, sets the player and takes
  the connection id that the console writes: none, or any, one of another player
  included. `ReportNATProperties` sets player and connection of every station again.
  `rewritten` (history) has the connections that have replaced a station since.
  Connection ids of an earlier process may be those of others in the next; the model
  has no need to use an id twice for that, as a console may write any.
* updateNotificationData is `ReceiveUpdate` (waiting for the mutex), `Store`
  (with the mutex, and a line in the tracking table whose failure leaves the
  notice), and after it `FindTargets` and `Push`.
* `told`, `asked` and `stuck` are history: the notices that reached a connection,
  who has asked, and whose notice an error or a late request has left active.

### Gatherings

A handler holds the mutex throughout and is one action, but each statement in
it may fail. So a handler is a **set of outcomes**: the world it leaves (rows,
notifications, gatherings touched by a failure) and its result. `Write` is a
statement that succeeds or not; `WriteAndLog` is one with its line in the
tracking tables, whose failure leaves the write and returns the error.
Handlers compose by taking the outcomes of the first part into the second.

* `Gone` is a row with `registered=false`: no query of the code reads it again.
* `link` and `late`: a player's connection, and a request of a former
  connection that was waiting for the mutex when the connection ended; it is
  served after `DisconnectParticipant`.
* A session without participants is in no search result: `array_length` of an
  empty array is NULL. Such sessions are left behind when creation succeeds and
  the join is refused.
* `FindMatchmakeSession` keeps the conditions on openness, host and capacity
  and abstracts the attributes of the game: the session found is any that
  passes, or none. The search by criteria is wider, the criteria being the
  client's.
* Guests are copies of the player's own id in the list, as in the code.
* `Restart` is the UPDATE of `SetManager` that unregisters all sessions, or its
  failure, which is only logged and leaves the sessions of the earlier process.
* `OwnerIsTold` is about the steps in which a connection ends (`Leaves`): the player
  took part in a gathering that goes on without him, and its owner is there.

Not in the module: passwords, application buffer, progress score, participation
counts of communities, the recap notification at the end of a join. Station URLs
and notices, which the same mutex and the same callback touch, are in
Connections.

## 4. The runs

Bounds common to all: two or three actors, since each hazard is between two
(one check, one change in between) and a third gives it something to be wrong
about; two or three ids, enough for an id to be taken, to be next, and to be
unused. Rows and files never compare otherwise than by equality of sizes or
owners, so that two of each tell all cases apart.

| run | instance | question and answer |
|---|---|---|
| `answers` | 2 players, 2 requests of every method, an object from an earlier run, batches up to 2 (also the same id twice, and none), empty files | Can an object be deleted by somebody else, a download lead nowhere, a prepare leave something incomplete, an object be visible without its file, a success reply be untrue, a request go unanswered, or a row leave its abstract life? No. |
| `late_report` | 3 requests on one upload | **Violated**: an uploaded object is deleted by a late report. |
| `imports` | 2 imports (one with an explicit id the sequence is about to give out), 1 player request or admin delete, every dropped error | Are ids unique, imported files kept, rows within their abstract life, with the sequence set back? Yes. |
| `import_sequence` | 2 imports with explicit ids 1 and 3, no failures | **Violated**: the sequence falls behind. |
| `import_thumbnail` | an import, no failures | **Violated**: the thumbnail is at another key. |
| `boot` | 2 starts, 2 requests that prepare, complete, report a failed upload or delete, 1 import with the event's id or none, the event's id in reach of the sequence | Does a start that says "ready" leave a file and a row that is found, and has the row one maker for ever? Yes, but for the two cases below. |
| `records` | 3 requests, 2 players, 2 results, imports beside them | Is the record the best and its holder the sender? Yes. |
| `tallies` | 2 requests with lists of 2, 2 courses that are created and withdrawn meanwhile, one of them a maker, the other rated by all | Does each item count once, only on courses, and is a maker's list its owner's? Yes. |
| `browsing` | 1 reader of every kind, with lists of 0 and 2 ids in the other order, beside 1 request that writes 1 or 2 items, 2 courses that come and go, one of them held back and let go by moderators | Is what is shown current, is nothing missing, are entries at their places, does every request end? Yes. |
| `gatherings` | 2 players, 2 gatherings of 2 places, guests, additional participants, one gathering at which statements fail, one late request, restarts | Capacity, owner and host, one session, matches joined, changes told: all hold. Deadlock is checked too. |
| `disconnect_notice` | the same | **Violated**: the event goes to the owner who left. |
| `connections` | 2 players who are friends, 3 connections, 2 updates, 1 failing statement, restarts | Is an active notice that of a player who is there, does no friend miss one, does every station name its player and a probe of it reach that player, unless the player's console has rewritten it? Yes. |

The other runs set `CHECK_DEADLOCK FALSE`: each request is served once, and when
all are answered (and files, moderators and objects have nothing to do) the
instance stops. In `gatherings` players come back for ever.

Each bound by name:

* `DataIds` — an INSERT that finds no id left is refused, as if the statement
  failed; nothing else depends on it.
* `MaxBatch`, `MaxItems` (2) — a break between two items, and a repeated item.
* `MaxResults`, `MaxRecommended`, `MaxOfOwner`, `PoolSizes`, `Lengths` — the limits
  of the lists, one of them (`MaxOfOwner` 1) below the number of courses so that a
  reply is cut, and lengths of 0 (missing) and 1.
* `MaxBoots` (2) — a second start finds what the first has left, at any point.
  `EventId` (2) — an id the sequence reaches after one post or import.
* `MaxStations` (4) — one connection that registers twice; `FewStations` has two
  connections register once instead, and one connection rewrite its stations, since
  a list is compared with nothing but its own connection.
* `Reviewable` (one course) — an object held back beside one that is not.
* `MaxFailures` (1) in Connections — the failure after which a notice stays
  active; a second would be at the other player.
* `MaxGid` (2) — a player who leaves one session for another; a third
  gathering would be a second "old" one. `Caps` (2) — full after a guest or a
  second player.
* `MaxVacant` (2) — alone or with one guest. `Extras` — one player brought along, who may also be the caller.
* `MaxBroken` (1) — failing statements touch one gathering in a behaviour,
  so that properties can be asked of the other; any number at that one.
  `MaxLate` (1) — one waiting request at a time.
* `CreationMax` (1) — the code's constant, set low enough to be reached.
* Symmetry over requests, imports, players or connections only where no liveness
  property is checked and no definition orders them (in CourseImport the owners
  are numbers that stand in courses, and only requests and imports are permuted).
* State constraints. `NoRatings` in `browsing` holds in every state of a behaviour
  or in none, as no request of that instance writes ratings. The others leave
  combinations out: `Settled` has moderators act before or after the request that
  writes, not in the middle of it; `ShortLists` keeps the lists of two items to one
  method and to different courses; `stage[c1] # "pending"` has one course of the two
  prepared and completed at once. None of them cuts a behaviour off while the reader
  is the only one to step: they concern arrivals, moderators and objects, for which
  there is no fairness. In `connections`, `OneKind` keeps station URLs and notices
  apart: the two share only the life of the connections, and no action or property
  reads both.

`ReadyIsServed` excepts a row that was deleted before (by the administrator, or by
its maker with the report of a failed upload) and one that a player's post has
drawn and not completed: the start only updates its size.

`PublishedHasFile` and `DownloadHasFile` except objects whose row an UPDATE of
CompleteAttachFile has set (`AttachCompleted`), whether the reply was then a success,
an error of the presigner, or lost in a crash: that handler publishes by id without a
look at owner or file. The exception is part of the property so that it cannot hide
another cause.

`StationsAreOwners` says of the stations handed out for a player that they name that
player, always, and that a probe of one reaches a live connection of that player and
nobody else's, unless the list is one in which the player's own console has put a
station since it last reported its NAT properties (`rewritten`): replaceURL checks
only the player, and until that report a probe of such a station may reach another
console, or none.

## 5. Fairness and liveness

`FairSpec` of DataStore and of CourseActivity, and `BrowsingFairSpec` for the
readers beside them, have weak fairness of each request's own step. The Go
scheduler runs every runnable goroutine, and a statement or S3 call returns, with
a result or (in CourseActivity, where `StatementFails` is in the fair action, and
in Browsing) with an error. Nothing is assumed of arrivals, uploads, moderators or
of other players. `Answered` and `BrowsingAnswered` then say that loops over
batches, items, owners and candidates end, whatever is repeated in the list or
changes under it. There is no fairness for Gatherings, where a handler is one
action and nobody has to call one, nor for EventCourse and Connections, whose
properties are about what has happened.

## 6. What is proved

Every safety property that a passing run checks, invariants and action properties
alike, is a theorem: for every number of requests, players, ids, sizes, slots, items,
connections, gatherings, places and limits, under the assumptions the modules declare:

* `DataAssumption` — ids and sizes are numbers; the markers NoRow and NoFile are none
  of the values they stand beside; `Left` has rows of players;
* `ImportAssumption` — submissions are well-formed, and an import without an id is
  told from one with an id;
* `EventAssumption` — no earlier run has left the event's id to somebody else;
* `ActivityAssumption` — items are of courses, and the markers are no values;
* `BrowsingAssumption` — clients send lists of ids and owners, the limits are
  positive, the marker for an empty entry is no entry, and the data ids are finitely
  many (the code's are unsigned numbers of 64 bits). Finiteness is used where a page
  is counted against its limit, and where the query for the courses of an owner has
  no limit at all;
* `GatheringsAssumption` — players bring along lists of players, the bounds are
  numbers, at least one place is asked for, and the markers are no rows;
* `ConnectionsAssumption` — friends are pairs of players.

**Lists and induction** (`Lists_proofs`). The library's induction theorems take an
operator as a parameter, which no installed prover can instantiate. Stated with a set
in place of the predicate they can be: `LeastElement` comes from the well-foundedness
of the numbers, `BoundedInduction` and `SubsetInduction` from that. They suffice for
the recursive functions of the models, of which TLA+ only says that they are chosen:
`BeginningsExist` builds the function by induction and so shows that the chosen one
satisfies its equation, from which `OnlyFacts` follows (`Only` keeps the elements in
the set, and no others). `ElementsCounted` and `ElementsComplete` relate a list
without repetition to the cardinality of its elements.

**DataStore** (`DataStore_proofs`): `TypeCorrect`, `PublishedHaveFiles`,
`OnlyOwnersDelete`, `OkIsTrue`, `DownloadsHaveFiles`, `PreparedAreComplete`,
`LifecycleImplemented`. None of the properties is inductive, because each is about
what a request found several calls ago. The invariant `IInv` adds what a request
at each call knows:

* `PathOK` — a request is only ever at a call of its own method (a "delete" is
  a failed completePostObject or the admin's);
* `WorkOK` — the ids it has still to do are a suffix of those it was given, and
  while it works there is one;
* `CheckedHasFile` — past the S3 read, the file of its current id exists. This
  is where stale state is dealt with: files are overwritten, never removed, so
  that what was read stays true in the sense the property needs, if not in size;
* `PastIsPublished` — the ids it is done with are published and have files;
* `DeleteOK` — past the owner check, the caller is the owner: rows never change
  owner and never disappear;
* `ReadOK` — past the availability check, the row is completed.

`PreparedAreComplete` needs two more, which are invariants beside `IInv`:
`DrawnOK` (past its INSERT, a prepare has drawn an id that no other has drawn,
with a row of its own) and `FilledOK` (the rating rows inserted so far are there).
`IInv` is `PublishedHasFile` beside `RequestInv`, the part that other writers of
the same tables keep as well, as long as the rows that are there stay
(`RowsStay`, used below).

The lemma `Monotonic` collects what no step ever undoes (a row's existence,
owner, `completed`; a file's existence; a reply), `Moves` what a step changes
of a request, and each conjunct then has its own lemma that it is kept.
`LifecycleImplemented` maps each step to a step of `ObjectLifecycle` or a
stutter (`LifeNext`), using `DeleteOK` and the primary key: an INSERT only ever
takes an id that is free, and a late UPDATE changes nothing of a deleted row's
stage.

**CourseImport** (`CourseImport_proofs`): `ImportTypeCorrect`, `OneCreatorEach`,
`LifecycleWithImports`. `ImportInv` adds that what a creator holds exists
(`CreatedExist`); since an INSERT needs a free id, the second creator of an id
cannot be, however far back the sequence has been set. The proof shows that
uniqueness rests on the primary key alone. `ImportedFilesKept` rests on `KeepInv`:
a prepare call draws one id (`DrawOK`), a form for a course file is only ever given
to who drew its id (`GrantOK`), and past its PutObject an import has its row and
its file (`FileOK`); as an id has one creator (`OneCreator`), no form points at the
file of an imported course. `OkIsTrueWithImports` and `OnlyOwnersDeleteWithImports`
say that imports make no reply of a request untrue: `RequestsUndisturbed` shows that
`RequestInv` is kept by any writer that adds rows and files and removes none.

**EventCourse** (`EventCourse_proofs`): `BootTypeCorrect`, `EventRowKeepsMaker`,
`LifecycleWithStarts`, `ReadyStartServes`. `BootInv` is `ImportInv` with `DrawOK`
and with what a start knows: it only updates where a row exists, and rows do not
disappear. The INSERT of a start that has found no row may come after that of an
import; that it then fails is what keeps the row with its maker. A start does not
keep `FileOK`: it overwrites the file under the event's id whoever has it.
`ServedInv`, for `ReadyStartServes`, adds `RequestInv` (a deleted row has somebody
who deleted it), `NoReview`, `PendingIsDrawn` (a row without its upload is that of
a post which has drawn the id) and `FilePut` (past PutObject the file is there,
and stays).

**CourseActivity** (`CourseActivity_proofs`): `ActivityTypeCorrect`,
`LeaderboardHonest`, `OnlyOnCoursesHolds`, `MakerListsHold` and `CountedOnceHolds`. The
strengthening for the first two is `RequestOK`: a request is only at calls of its own
method, works on an item that its list has, and an upload has exactly one, so that
the result written is the one that was sent; and the tail of an import is the only
other writer of a record. `BetterRow` is the single UPSERT's property (the smaller
score stays, with its holder) that makes the order of concurrent uploads irrelevant.
The next two rest on `CheckInv`: what a request has found in its check (the object
was published, the sender owns it, it is no maker) still holds when it writes,
because availability only ends with withdrawal, owners do not change, and a data
type only changes by a changeMeta that names the object.

`CountedOnce` bounds a rating, the stars of a course and its queue by what was
answered and by what was sent. `TallyInv` puts between the two what has been done:
`Done` is the set of items whose request has gone past them, a rating counts exactly
those (`RatingsCounted`), the stars are at most their sum (`StarsCounted`), and each
has left its buffer once (`BuffersKept`). Answered requests have all their items
done, and what is done was sent. The sums are folds over sets: `SumsExist` builds the
function, `SumAdds` gives the sum with one item more and `SumGrows` that sums of
numbers that are not negative grow with the set. Items have to be finitely many, and are: only
finitely many requests have been received in any state (`IsFiniteSet(Active)`).

**Browsing** (`Browsing_proofs`): `RepliesAreAligned`, `BrowsingTypeCorrect`,
`ShownStaysCurrent`, `NothingIsMissedHolds`, about the composed specification, with
any number of readers beside the writers of CourseActivity. Three invariants, each on
top of the one before:

* `ReplyInv` says of a request for objects by their ids that its reply so far and its
  remaining rows together have the length of its list, and that each stands at its
  id's position; the lemma `NextEntry` is the step from the rows to the reply.
* `BrowseInv` compares a request with the tables at its arrival. What no writer ever
  undoes is a preorder on tables (`Later`: a course that was withdrawn stays so, stars
  that only players write grow, records improve, queues keep their buffers);
  `NowIsLater` shows that every step of the writers goes up in it. Then an entry lies
  between the arrival and now (`EntryOK`), and stays there when others go on
  (`EntryStays`); and rows that wait do so as well (`Waits`), since a value that was
  read statements ago is shown later.
* `WholeInv` says that a course that belongs on a reply is, at any statement, in hand
  (shown, missed, or waiting among ids or rows: `Had`) or among those of a query to
  come (`Unread`) — or that the page had as many as its limit, and still has them
  but for those that are lost (`Covers`). It is inductive because with time fewer
  courses belong (`BelongsShrinks`), more are lost, and each statement moves courses
  from one of these places to the next (`KeepsWhole` is the common part, and each
  statement has its lemma: `QueryPageWhole`, `RanksWhole`, `LookUpWhole` ...). That a
  page loses nothing but by withdrawal or an administrator needs `Found` (it was
  filled with courses that had stars) and `StarsGood` (players never take stars
  below zero, where they do not scan into the unsigned score). `Noted` says that what
  is under review while a request runs was so at its arrival or is among the missed;
  of the owner's objects it is what fills a page without being shown.

**Gatherings** (`Gatherings_proofs`): `TypeCorrect`, `CapacityIsKept`,
`OwnerParticipates`, `InOneSession`, `FoundIsJoinable`, `EverybodyIsTold`. A handler is
a set of outcomes put together from the outcomes of its statements, and so is the
proof: a lemma for each statement says what every outcome of it is (`Moves`: it is
about one gathering, forgets no failure and takes no notice back), then for each
function made of statements (`Leaves`, `Joins`, `Enters`), then for each handler.
`Good` is the invariant of a world that they pass along: every registered gathering
fits its maximum (`Fit`), and one on which no statement has failed has its owner and
its host among its participants, unless its flags let it go on without (`Owned`). `IInv` is `TypeOK` and `Good`;
`Inv`, which the theorem `Invariant` shows, adds what the last handler has promised.
`LeaveEach`, which goes through a player's sessions by a recursive function, is
treated as above: the function is built by induction over the ids (`LeftExists`),
and what leaving them one after another does (`HasLeft`) is proved over the sets of
those left (`LeaveEachFacts`).

**Connections** (`Connections_proofs`): `TypeCorrect`, `NoticesOfConnected`,
`StationsOfOwners`, `NoNoticeMissed`. The invariant is the type invariant with
`ConnOK` (who has a connection, and that a list being appended to has a blank or
not), `NoticeOfConnected` itself, `StationOK` (each station in a list, and each yet
to be appended, names the connection's player, and the connection itself while the
list has not been `rewritten`) and
`TargetOK` (an update past its lookup knows every friend who had asked by then on
an only connection, or who has been told since).

**Only model-checked**: liveness under fairness (`Answered`, `BrowsingAnswered`), which
with ENABLED is out of the prover's reach; and the four runs that expect a violation,
whose counterexamples are TLC's.

## 7. Where the code disagrees with its comments

1. `late_report` — `complete_post_object.go:51` says an object that can be read
   "has already been marked as uploaded. So do nothing". The check is made once,
   three statements before the DELETE, and every error of the lookup counts as
   "not uploaded". A console that reports a failure and, after a timeout, a
   success loses the object when the two overlap.
2. `import_sequence` — `admin.go:411` says later generated ids never collide.
   The statement reads and sets the sequence in two steps: the slower of two
   imports sets it back behind the other's id, and the next INSERT of any
   player is refused. (`OneCreator` shows it is refused, not shared.)
3. `import_thumbnail` — `server.go:576` says the thumbnail is under the key a
   real client would have used. A client's is that of the attach object; the
   import stores under the course's id and registers an attach object without a
   file.
4. `disconnect_notice` — `disconnect_participant.go:160` says the event goes to
   the owner. It goes to the owner as read before the ownership migrated: the
   player who has just disconnected.

While reading, and without a run of their own (the models do what the code does):

* `browsing.go:51` says the ranking is sorted by value. It is sorted by the values
  of the first query and shows those of a second.
* A start of the server reports the event course as ready when it has only updated
  the row of a deleted one (`ReadyIsServed` excepts it by name).
* `datastore_handlers.go:346` takes a length of zero as "server default" and line
  409 calls CTRPickUp its 3DS equivalent, but CTRPickUp and Suggested take a zero as
  it is and return nothing. `FollowingsLatestCourseSearchObject` lists only courses with a star row.
* `GetCustomRankingByDataID` leaves out what it cannot show, where the other
  requests by ids put an empty entry.
* The callback of an old connection makes a notice inactive that its player has
  left on a new one, as it goes by PID alone.
* `updateNotificationData`'s comment wants strings "lower than 256"; the check is
  `> 256`.
* `GetPersistentGatheringByGathering`'s SQL names an alias `g` it does not declare;
  `JoinGatheringWithParticipants` counts the caller as a new participant even when
  already joined, and treats a maximum of 0 as full, where `JoinGathering` treats it
  as unlimited.

## 8. What is left out, and why

* **Matchmaking reads**: single queries under the read lock, without effect.
* **Attributes of sessions**: columns no modelled decision reads.
* **Authentication, tickets, ranking, utility, message delivery, configuration**:
  no state from one request to the next, or callbacks this server does not set.
* **Course file parsing**: pure functions on the bytes of a course file
  (segments, style, thumbnail). They decide whether an import is refused; what
  they compute is opaque to every statement after them.
* **Startup and schema**, but for the event course: CREATE TABLE IF NOT EXISTS,
  and the order of the start (the pickup endpoint before the presigner is set),
  which is in the hazards without a property.
* **Permissions** are reduced to owner or shared. The friends of a player are
  not known to this server (`GetUserFriendPIDs` is not set); in Connections they
  are a parameter.
* **The object password** (a comparison in a statement of its own before the
  lookup, with a value that never changes: another way to fail), and the period,
  tags, dates and binary data of objects, which nothing modelled decides by.
* Hazards without a property are in `PROJECT.json` with the reason. One thing more
  that the models cannot show: matchmaking handlers run statements while the rows of
  another query are open, under the mutex, and so need two connections of the
  pool at once.

## 9. The plan

Done: every module of section 3 with its runs, and a theorem for every safety
property that a passing run checks.

Next, model:

1. Participation counts of communities, and the passwords that a join checks.
2. Course file parsing as operators over short sequences, against a reference
   definition (segments partition the file; a truncated file is refused).
3. Two readers at once in `browsing`, should the instance get cheaper: they share
   nothing but what they read, so that one shows what two would.

Then, prove:

1. A bound on the statements that a request still makes, which every step of it
   lowers: the safety half of `Answered` and `BrowsingAnswered`.
2. What holds in spite of the four disagreements of section 7, such as that after a
   late report the object is withdrawn and not merely unreadable.

## 10. Running

    tlc -workers 2 -config MCDataStoreLive.cfg MCDataStore
    tlapm DataStore_proofs.tla

Each run ends within a few minutes: most within one, `imports`, `boot`, `browsing`
and `gatherings` in about two.

----------------------------- MODULE Gatherings -----------------------------
(***************************************************************************)
(* The matchmaking of the patched nex-protocols-common-go: gatherings that *)
(* players create, join, leave and lose by disconnecting.  A handler locks *)
(* the mutex of the MatchmakingManager before its first statement and      *)
(* unlocks it after its last, so that a handler is one action.  Each of    *)
(* its statements may fail, and there is no transaction: what a handler    *)
(* may do to the tables is a set of outcomes, complete ones and the        *)
(* prefixes at which a failing statement leaves it.                        *)
(*                                                                         *)
(* An outcome is a record of the world the handler leaves behind (rows,    *)
(* notifications sent, gatherings a failure has touched) and its result.   *)
(***************************************************************************)
EXTENDS Integers, FiniteSets, SequencesExt, Lists

CONSTANTS Pids,
          MaxGid,       \* gatherings that are ever created; a bigserial
          Caps,         \* the max_participants that clients ask for
          FlagSets,     \* the flags of the sessions that clients create
          CommunityFlagSets, \* and of the communities
          MaxVacant,    \* the most participants of one connection
          Extras,       \* lists of additional participants
          CreationMax,  \* PersistentGatheringCreationMax
          MaxLate,      \* the requests that wait behind a disconnection at once
          MaxBroken,    \* the gatherings at which statements may fail
          NoOne, NoRow, Gone

Flags == {"DisconnectChangeOwner", "ParticipantsChangeOwner", "VerboseParticipants",
          "PersistentGathering", "PersistentGatheringAllowZeroUsers",
          "PersistentGatheringLeaveParticipation"}
Gids == 1..MaxGid

\* A registered row of matchmaking.gatherings joined with its row of
\* matchmake_sessions or persistent_gatherings.  Nothing reads a row that is
\* no longer registered, which is Gone.
Gathering == [type : {"MatchmakeSession", "PersistentGathering"},
              owner : Pids, host : Pids \cup {NoOne}, participants : Seq(Pids),
              max : Nat, flags : SUBSET Flags, open : BOOLEAN]

Events == {"NewParticipant", "GatheringUnregistered", "OwnershipChanged",
           "HostChanged", "Ended", "Disconnected", "SwitchGathering"}
Notification == [to : Pids, event : Events, gid : Gids, about : Pids]

\* What the last step was: a request for a new or a matching session, for a
\* matching one only, or something else, of which no result is recorded.
Methods == {"none", "session", "match", "other", "restart"}
Results == {"ok", "Unknown", "SessionFull", "AlreadyParticipated",
            "NotParticipated", "Refused"}

ASSUME GatheringsAssumption ==
  /\ MaxGid \in Nat /\ MaxVacant \in Nat \ {0} /\ CreationMax \in Nat
  /\ Caps \subseteq Nat /\ FlagSets \cup CommunityFlagSets \subseteq SUBSET Flags
  /\ Extras \subseteq Seq(Pids) /\ MaxBroken \in Nat /\ MaxLate \in Nat
  /\ NoOne \notin Pids /\ NoRow # Gone /\ {NoRow, Gone} \cap Gathering = {}

VARIABLES gatherings,
          link,    \* the connection of a player
          late,    \* players of whose last connection a request still waits
          broken,  \* history: gatherings at which a statement has failed
          sent,    \* the notifications of the last handler
          last     \* its caller, its method and its result

vars == <<gatherings, link, late, broken, sent, last>>

TypeOK ==
  /\ gatherings \in [Gids -> Gathering \cup {NoRow, Gone}]
  /\ link \in [Pids -> {"up", "down"}] /\ late \subseteq Pids
  /\ broken \subseteq Gids /\ sent \subseteq Notification
  /\ last \in [pid : Pids \cup {NoOne}, method : Methods, res : Results]

Nothing == [pid |-> NoOne, method |-> "none", res |-> "ok"]

Init ==
  /\ gatherings = [g \in Gids |-> NoRow]
  /\ link = [p \in Pids |-> "down"] /\ late = {}
  /\ broken = {} /\ sent = {} /\ last = Nothing
-----------------------------------------------------------------------------
(* Worlds and outcomes                                                     *)

World == [rows |-> gatherings, broken |-> broken, sent |-> {}]

Done(w)       == [w |-> w, res |-> "ok"]
Refused(w, e) == [w |-> w, res |-> e]

\* A statement fails; the instance bounds how many gatherings that touches.
Failed(w, g) == {o \in {[w |-> [w EXCEPT !.broken = @ \cup {g}], res |-> "Unknown"]} :
                   Cardinality(o.w.broken) <= MaxBroken}

\* An UPDATE or INSERT that makes w2 of w.
Write(w, w2, g) == {Done(w2)} \cup Failed(w, g)

\* ... followed by its line in the tracking tables.
WriteAndLog(w, w2, g) == Write(w, w2, g) \cup Failed(w2, g)

\* SendNotificationEvent reaches the targets that are connected.
Tell(w, targets, event, g, about) ==
  [w EXCEPT !.sent = @ \cup {[to |-> t, event |-> event, gid |-> g, about |-> about] :
                               t \in {q \in targets : link[q] = "up"}}]

Registered(w) == {g \in Gids : w.rows[g] \notin {NoRow, Gone}}
Participants(w, g) == ToSet(w.rows[g].participants)
Verbose(row) == "VerboseParticipants" \in row.flags

Sessions(w, p) == {g \in Registered(w) :
  w.rows[g].type = "MatchmakeSession" /\ p \in Participants(w, g)}
-----------------------------------------------------------------------------
(* Joining                                                                 *)

RegisterGathering(w, g, row) == WriteAndLog(w, [w EXCEPT !.rows[g] = row], g)

\* Fault: the participants that are there already do not count.
JoinGatheringFault(w, g, p, n) ==
  LET row == w.rows[g]
      all == [i \in 1..n |-> p] \o row.participants
      Told(v) == Tell(v, IF Verbose(row) THEN ToSet(all) ELSE {row.owner} \ {p},
                      "NewParticipant", g, p)
  IN IF row.max # 0 /\ n > row.max
     THEN {Refused(w, "SessionFull")}
     ELSE IF p \in ToSet(row.participants) THEN {Refused(w, "AlreadyParticipated")}
     ELSE {[o EXCEPT !.w = IF o.res = "ok" THEN Told(@) ELSE @] :
             o \in WriteAndLog(w, [w EXCEPT !.rows[g].participants = all], g)}

\* JoinGathering: a player and the guests on the same console, who are copies
\* of the player's own id (a vacancy of zero counts as one).
JoinGathering(w, g, p, n) ==
  LET row == w.rows[g]
      all == [i \in 1..n |-> p] \o row.participants
      Told(v) == Tell(v, IF Verbose(row) THEN ToSet(all) ELSE {row.owner} \ {p},
                      "NewParticipant", g, p)
  IN IF row.max # 0 /\ Len(row.participants) + n > row.max
     THEN {Refused(w, "SessionFull")}
     ELSE IF p \in ToSet(row.participants) THEN {Refused(w, "AlreadyParticipated")}
     ELSE {[o EXCEPT !.w = IF o.res = "ok" THEN Told(@) ELSE @] :
             o \in WriteAndLog(w, [w EXCEPT !.rows[g].participants = all], g)}

\* JoinGatheringWithParticipants: the caller, unless already joined, and other
\* players, who are not asked and not looked up.
JoinGatheringWithParticipants(w, g, p, extra, joined) ==
  LET row == w.rows[g]
      new == (IF joined THEN <<>> ELSE <<p>>) \o extra
      all == row.participants \o new
      targets == IF Verbose(row) THEN ToSet(all) ELSE {row.owner}
      SwitchTold(v, S) == [v EXCEPT !.sent = @ \cup
        UNION {Tell(v, {q}, "SwitchGathering", g, q).sent : q \in S \ {p}}]
      JoinTold(v, S) == [v EXCEPT !.sent = @ \cup
        UNION {Tell(v, targets, "NewParticipant", g, q).sent : q \in S}]
      Told(v) == LET v2 == SwitchTold(v, ToSet(new)) IN
        IF Verbose(row) \/ p # row.owner THEN JoinTold(v2, ToSet(new)) ELSE v2
  IN IF Len(row.participants) + 1 + Len(extra) > row.max
     THEN {Refused(w, "SessionFull")}
     ELSE IF joined /\ p \notin ToSet(row.participants)
     THEN {Refused(w, "NotParticipated")}
     ELSE IF ~joined /\ p \in ToSet(row.participants)
     THEN {Refused(w, "AlreadyParticipated")}
     ELSE {[o EXCEPT !.w = IF o.res = "ok" THEN Told(@) ELSE @] :
             o \in WriteAndLog(w, [w EXCEPT !.rows[g].participants = all], g)}
-----------------------------------------------------------------------------
(* Leaving.  EndGatheringParticipation ("Ended") and DisconnectParticipant *)
(* ("Disconnected") do the same in the same order, but the latter logs the *)
(* error of a change of owner or host and goes on.                         *)

UnregisterGathering(w, g) == WriteAndLog(w, [w EXCEPT !.rows[g] = Gone], g)

\* Fault: nobody is told.
DissolveFault(w, g, p, targets) == UnregisterGathering(w, g)

\* Unregister the gathering and tell the others.
Dissolve(w, g, p, targets) ==
  {[o EXCEPT !.w = IF o.res = "ok"
                   THEN Tell(@, targets, "GatheringUnregistered", g, p) ELSE @] :
     o \in UnregisterGathering(w, g)}

\* MigrateGatheringOwnership.  The old owner has been removed and somebody is
\* left, so that the new owner is the first participant; the host stays.
MigrateGatheringOwnership(w, g, p, rest) ==
  {[o EXCEPT !.w = IF o.res = "ok"
                   THEN Tell(@, ToSet(rest), "OwnershipChanged", g, p) ELSE @] :
     o \in WriteAndLog(w, [w EXCEPT !.rows[g].owner = Head(rest)], g)}

\* Fault: the owner of a migration that failed becomes the host.
ReplaceHostFault(w, g, p, row, rest, how, owner) ==
  IF p # row.host THEN {Done(w)}
  ELSE LET w2 == [w EXCEPT !.rows[g].owner = owner, !.rows[g].host = owner] IN
    {Done(Tell(w2, ToSet(rest), "HostChanged", g, p))}

\* Fault: the host is replaced only together with the owner.
KeepHostFault(w, g, p, row, rest, how, owner) ==
  IF p # row.host \/ p # row.owner \/ owner = NoOne THEN {Done(w)}
  ELSE LET w2 == [w EXCEPT !.rows[g].owner = owner, !.rows[g].host = owner] IN
    {Done(Tell(w2, ToSet(rest), "HostChanged", g, p))}

\* UpdateSessionHost for a host who leaves.  Its owner is zero after a
\* migration that failed.  The line in the tracking table comes last.
ReplaceHost(w, g, p, row, rest, how, owner) ==
  LET w2 == [w EXCEPT !.rows[g].owner = owner, !.rows[g].host = owner]
      targets == ToSet(IF how = "Ended" THEN row.participants ELSE rest)
      told == Tell(w2, targets, "HostChanged", g, p)
      NotUpdated == {IF how = "Ended" THEN o ELSE Done(o.w) : o \in Failed(w, g)}
  IN IF p # row.host \/ owner = NoOne THEN {Done(w)}
     ELSE {Done(told)} \cup NotUpdated \cup Failed(told, g)

\* The owner that the row had before is told, or everybody.
TellLeft(w, g, p, row, rest, how) ==
  Tell(w, IF ~Verbose(row) THEN {row.owner}
          ELSE ToSet(IF how = "Ended" THEN row.participants ELSE rest), how, g, p)

\* What follows when the row has been changed and logged.
AfterRemoval(w, g, p, row, rest, how) ==
  LET Migrated == IF p = row.owner THEN MigrateGatheringOwnership(w, g, p, rest)
                  ELSE {Done(w)}
      NewOwner(o) == IF o.res # "ok" THEN NoOne
                     ELSE IF p = row.owner THEN Head(rest) ELSE row.owner
      Hosted == UNION {IF o.res # "ok" /\ how = "Ended" THEN {o}
                       ELSE ReplaceHost(o.w, g, p, row, rest, how, NewOwner(o)) :
                         o \in Migrated}
  IN IF row.flags \cap {"PersistentGathering", "PersistentGatheringAllowZeroUsers"} # {}
     THEN {Done(w)}
     ELSE IF rest = <<>> THEN UnregisterGathering(w, g)
     ELSE IF p = row.owner /\ "DisconnectChangeOwner" \notin row.flags
     THEN Dissolve(w, g, p, ToSet(rest))
     ELSE {IF o.res = "ok" THEN Done(TellLeft(o.w, g, p, row, rest, how)) ELSE o :
             o \in Hosted}

\* array_remove takes out every copy of the player.
Without(s, p) == Only(s, Pids \ {p})

Leave(w, g, p, how) ==
  LET row  == w.rows[g]
      rest == Without(row.participants, p)
  IN UNION {IF o.res = "ok" THEN AfterRemoval(o.w, g, p, row, rest, how) ELSE {o} :
              o \in WriteAndLog(w, [w EXCEPT !.rows[g].participants = rest], g)}

EndGatheringParticipation(w, g, p) ==
  IF g \notin Registered(w) \/ p \notin Participants(w, g)
  THEN {Refused(w, "NotParticipated")} ELSE Leave(w, g, p, "Ended")

\* The rows of a query one after the other; their errors are dropped.
LeaveEach(w, p, gids, how) ==
  LET left[n \in 0..MaxGid] ==
        IF n = 0 THEN {w}
        ELSE UNION {IF n \in gids THEN {o.w : o \in Leave(v, n, p, how)} ELSE {v} :
                      v \in left[n - 1]}
  IN left[MaxGid]

\* Fault: only one of the sessions is left.
EndMatchmakeSessionsParticipationFault(w, p) ==
  LET mine == Sessions(w, p) IN
  LeaveEach(w, p, IF mine = {} THEN {} ELSE {CHOOSE g \in mine : TRUE}, "Ended")

\* The query for the rows fails, and all of them are as they were.
NotQueried(w, gids) == {v \in {[w EXCEPT !.broken = @ \cup gids]} :
                          gids # {} /\ Cardinality(v.broken) <= MaxBroken}

\* EndMatchmakeSessionsParticipation, whose errors are all dropped.
EndMatchmakeSessionsParticipation(w, p) ==
  LeaveEach(w, p, Sessions(w, p), "Ended") \cup NotQueried(w, Sessions(w, p))

\* Communities stay, unless they ask to be left.
LeftOnDisconnect(row) ==
  /\ "PersistentGathering" \notin row.flags
  /\ \/ row.type # "PersistentGathering"
     \/ "PersistentGatheringLeaveParticipation" \in row.flags

Disconnected(w, p) ==
  LET mine == {g \in Registered(w) : p \in Participants(w, g)}
  IN LeaveEach(w, p, {g \in mine : LeftOnDisconnect(w.rows[g])}, "Disconnected")
       \cup NotQueried(w, mine)
-----------------------------------------------------------------------------
(* The handlers                                                            *)

\* A request is served after the connection has ended when its goroutine got
\* the mutex late; the model has one such request for each player.
CanCall(p) == link[p] = "up" \/ p \in late

Answer(p, method, outcomes) ==
  \E o \in outcomes :
    /\ gatherings' = o.w.rows /\ broken' = o.w.broken /\ sent' = o.w.sent
    /\ last' = [pid |-> p, method |-> method,
                res |-> IF method = "other" THEN "ok" ELSE o.res]

Handler(p, method, outcomes) ==
  /\ CanCall(p)
  /\ Answer(p, method, outcomes)
  /\ late' = IF link[p] = "up" THEN late ELSE late \ {p}
  /\ UNCHANGED link

\* The id of the next INSERT.
Fresh(w) == {g \in Gids : w.rows[g] = NoRow /\ \A h \in 1..(g - 1) : w.rows[h] # NoRow}

\* A new session is open here; the client may close it with the next request.
NewSession(p, max, flags) ==
  [type |-> "MatchmakeSession", owner |-> p, host |-> p, participants |-> <<>>,
   max |-> max, flags |-> flags, open |-> TRUE]

\* A session the player is going to join, in the world it was found in or the
\* one its creation left (RegisterGathering and the INSERT of its own table).
Choice(g, o) == [gid |-> g, o |-> o]

Created(ws, row) ==
  UNION {UNION {{Choice(g, o) : o \in RegisterGathering(w, g, row)} : g \in Fresh(w)} : w \in ws}

\* JoinMatchmakeSession, unless the creation has failed.
Entered(choices, p, n) ==
  UNION {IF c.o.res = "ok" THEN JoinGathering(c.o.w, c.gid, p, n) ELSE {c.o} : c \in choices}

\* JoinMatchmakeSessionWithParticipants
EnteredWith(choices, p, extra) ==
  UNION {IF c.o.res = "ok" THEN JoinGatheringWithParticipants(c.o.w, c.gid, p, extra, FALSE)
         ELSE {c.o} : c \in choices}

\* A request that turns out to be invalid, or whose search fails, after the
\* player has been taken out of the sessions.
GivenUp(ws) == {Refused(w, "Refused") : w \in ws}

\* createMatchmakeSession, createMatchmakeSessionWithParam
CreateMatchmakeSession(p) ==
  LET ws == EndMatchmakeSessionsParticipation(World, p)
  IN \/ \E max \in Caps, flags \in FlagSets :
          LET new == Created(ws, NewSession(p, max, flags))
          IN \/ \E n \in 1..MaxVacant : Handler(p, "session", Entered(new, p, n))
             \/ \E extra \in Extras : Handler(p, "session", EnteredWith(new, p, extra))
     \/ Handler(p, "session", GivenUp(ws))

\* A session without participants is never found: array_length is NULL.
Findable(w) == {g \in Registered(w) :
  w.rows[g].type = "MatchmakeSession" /\ w.rows[g].participants # <<>>}

\* Fault: a full session is found.
FindMatchmakeSessionFault(w) ==
  {g \in Findable(w) : w.rows[g].open /\ w.rows[g].host # NoOne
                         /\ Len(w.rows[g].participants) <= w.rows[g].max}

\* FindMatchmakeSession, but for the attributes of the game.
FindMatchmakeSession(w) ==
  {g \in Findable(w) : w.rows[g].open /\ w.rows[g].host # NoOne
                         /\ Len(w.rows[g].participants) < w.rows[g].max}

\* autoMatchmakePostpone joins a session that matches or, when the attributes
\* of the game match none, a new one.
AutoMatchmakePostpone(p) ==
  LET ws == EndMatchmakeSessionsParticipation(World, p)
      found == UNION {{Choice(g, Done(w)) : g \in FindMatchmakeSession(w)} : w \in ws}
  IN \/ Handler(p, "match", Entered(found, p, 1))
     \/ \E max \in Caps, flags \in FlagSets :
          Handler(p, "match", Entered(Created(ws, NewSession(p, max, flags)), p, 1))
     \/ Handler(p, "match", GivenUp(ws))

\* autoMatchmakeWithSearchCriteriaPostpone and autoMatchmakeWithParamPostpone:
\* the criteria of FindMatchmakeSessionBySearchCriteria are the client's, who
\* may ask for vacant or open sessions or not.  When none is found they do what
\* CreateMatchmakeSession does, and they give up as it does.
AutoMatchmakeBySearchCriteria(p) ==
  LET ws == EndMatchmakeSessionsParticipation(World, p)
      found == UNION {{Choice(g, Done(w)) : g \in Findable(w)} : w \in ws}
  IN \/ \E n \in 1..MaxVacant : Handler(p, "session", Entered(found, p, n))
     \/ \E extra \in Extras : Handler(p, "session", EnteredWith(found, p, extra))

\* joinMatchmakeSession, joinMatchmakeSessionEx, joinMatchmakeSessionWithParam:
\* GetMatchmakeSessionByID, CanJoinMatchmakeSession and the join.
JoinMatchmakeSession(p) ==
  \E g \in Findable(World) :
    /\ gatherings[g].open
    /\ \/ \E n \in 1..MaxVacant : Handler(p, "other", JoinGathering(World, g, p, n))
       \/ \E extra \in Extras, joined \in BOOLEAN : Handler(p, "other",
            JoinGatheringWithParticipants(World, g, p, extra, joined))

\* createCommunity, up to the limit; a community starts without a host.
CreateCommunity(p) ==
  /\ Cardinality({g \in Registered(World) : gatherings[g].owner = p /\
                    gatherings[g].type = "PersistentGathering"}) < CreationMax
  /\ \E max \in Caps, flags \in CommunityFlagSets :
       LET row == [NewSession(p, max, flags) EXCEPT !.type = "PersistentGathering",
                                                    !.host = NoOne]
       IN Handler(p, "other", Entered(Created({World}, row), p, 1))

EndParticipation(p) ==
  \E g \in Gids : Handler(p, "other", EndGatheringParticipation(World, g, p))

\* unregisterGathering, by the owner only.
UnregisterByOwner(p) ==
  \E g \in Registered(World) :
    /\ gatherings[g].owner = p
    /\ Handler(p, "other", Dissolve(World, g, p, Participants(World, g)))

\* updateSessionHost, updateSessionHostV1 and updateSessionURL: a participant
\* becomes the host, and the owner too where the flags allow it.
UpdateSessionHost(p) ==
  \E g \in Registered(World), takesOver \in BOOLEAN :
    /\ p \in Participants(World, g)
    /\ takesOver => "ParticipantsChangeOwner" \in gatherings[g].flags
    /\ LET host  == [World EXCEPT !.rows[g].host = p]
           owner == [host EXCEPT !.rows[g].owner = p]
           told  == Tell(owner, Participants(World, g), "OwnershipChanged", g, p)
       IN Handler(p, "other",
            IF takesOver
            THEN {IF o.res = "ok" THEN Done(told) ELSE o : o \in WriteAndLog(World, owner, g)}
            ELSE WriteAndLog(World, host, g))

\* openParticipation and closeParticipation, by the owner only.
SetParticipation(p) ==
  \E g \in Findable(World), open \in BOOLEAN :
    /\ gatherings[g].owner = p
    /\ Handler(p, "other",
         Write(World, [World EXCEPT !.rows[g].open = open], g))
-----------------------------------------------------------------------------
(* Connections                                                             *)

Connect(p) ==
  /\ link[p] = "down" /\ p \notin late
  /\ link' = [link EXCEPT ![p] = "up"]
  /\ sent' = {} /\ last' = Nothing
  /\ UNCHANGED <<gatherings, broken, late>>

\* The OnConnectionEnded callback, which locks the mutex too; a request of the
\* player may wait behind it.  Until it runs the player is merely silent.
DisconnectParticipant(p) ==
  /\ link[p] = "up"
  /\ Answer(p, "other", {Done(w) : w \in Disconnected(World, p)})
  /\ link' = [link EXCEPT ![p] = "down"]
  /\ late' \in {late, late \cup {p}} /\ Cardinality(late') <= MaxLate

\* SetManager of a new process unregisters the sessions; communities stay.  The
\* error of its UPDATE is only logged: then the sessions stay registered too.
Restart ==
  /\ \/ gatherings' = [g \in Gids |->
          IF gatherings[g] \in {NoRow, Gone} THEN gatherings[g]
          ELSE IF gatherings[g].type = "MatchmakeSession" THEN Gone ELSE gatherings[g]]
     \/ UNCHANGED gatherings
  /\ link' = [p \in Pids |-> "down"] /\ late' = {}
  /\ sent' = {} /\ last' = [Nothing EXCEPT !.method = "restart"]
  /\ UNCHANGED broken

Next ==
  \/ \E p \in Pids :
       \/ CreateMatchmakeSession(p) \/ AutoMatchmakePostpone(p)
       \/ AutoMatchmakeBySearchCriteria(p) \/ JoinMatchmakeSession(p)
       \/ CreateCommunity(p) \/ EndParticipation(p) \/ UnregisterByOwner(p)
       \/ UpdateSessionHost(p) \/ SetParticipation(p)
       \/ Connect(p) \/ DisconnectParticipant(p)
  \/ Restart

Spec == Init /\ [][Next]_vars
-----------------------------------------------------------------------------
(* Properties                                                              *)

\* No way into a gathering (a new one, a matching one, one by its id, guests
\* on the same console, players somebody else brings along) leads past the
\* max_participants that JoinGathering and JoinGatheringWithParticipants check
\* against the list they then extend.
CapacityKept ==
  \A g \in Registered(World) :
    gatherings[g].max # 0 => Len(gatherings[g].participants) <= gatherings[g].max

\* "If the host has disconnected, set the owner as the new host"
\* (end_gathering_participation.go, disconnect_participant.go): whoever leaves,
\* disconnects, is brought along or takes over, in whatever order, the owner
\* and the host of a gathering are among its participants, unless a statement
\* has failed, the flags let it go on without anybody, or its creator was
\* refused (then it is empty, and nobody finds it).
OwnerTakesPart ==
  \A g \in Registered(World) \ broken :
    LET row == gatherings[g] IN
    \/ row.flags \cap {"PersistentGathering", "PersistentGatheringAllowZeroUsers"} # {}
    \/ row.participants = <<>>
    \/ /\ row.owner \in ToSet(row.participants)
       /\ row.host \in ToSet(row.participants) \cup {NoOne}

\* "A client may disconnect from a session without leaving reliably, so let's
\* make sure the client is removed from the session": a player who has been
\* let into a new or matching session is in no other session, however many
\* sessions the player had joined or been brought into before.
OneSession ==
  last.method \in {"session", "match"} /\ last.res = "ok" =>
    /\ Sessions(World, last.pid) # {}
    /\ Cardinality(Sessions(World, last.pid) \ broken) <= 1

\* autoMatchmakePostpone searches and joins under one lock: it is never told
\* that the session it found is full or that the player is in it already.
MatchIsJoined ==
  last.method = "match" => last.res \notin {"SessionFull", "AlreadyParticipated"}
                             \/ broken # {}

\* Whoever is still in a gathering is told when it is unregistered and when it
\* gets another owner, by whatever handler.
ChangesAreTold ==
  [][\A g \in Registered(World) \ broken' : last'.method # "restart" =>
       \A q \in Participants(World, g) \ {last'.pid} : link'[q] = "up" =>
         /\ gatherings'[g] = Gone =>
              \E n \in sent' : n.to = q /\ n.gid = g /\ n.event = "GatheringUnregistered"
         /\ gatherings'[g] # Gone /\ gatherings'[g].owner # gatherings[g].owner =>
              \E n \in sent' : n.to = q /\ n.gid = g /\ n.event = "OwnershipChanged"]_vars

\* disconnect_participant.go:160, of the event of a disconnection: "Only send
\* the notification event to the owner".
OwnerIsTold ==
  [][\A p \in Pids, g \in Registered(World) \ broken' :
       LET row   == gatherings[g]
           owner == gatherings'[g].owner
           Leaves == /\ link[p] = "up" /\ link'[p] = "down"
                     /\ last'.method # "restart"
                     /\ p \in Participants(World, g) /\ LeftOnDisconnect(row)
                     /\ "PersistentGatheringAllowZeroUsers" \notin row.flags
                     /\ gatherings'[g] # Gone
       IN Leaves /\ link'[owner] = "up" =>
            [to |-> owner, event |-> "Disconnected", gid |-> g, about |-> p]
              \in sent']_vars
=============================================================================

---------------------------- MODULE Connections ----------------------------
(***************************************************************************)
(* What the server keeps for a connection: the station URLs under which    *)
(* consoles find each other, and the notices ("notification data") that a  *)
(* player leaves for friends.  Connections have ids of their own: a player *)
(* who reconnects has a new one while the old one has yet to time out, and *)
(* the callback for the end of a connection takes its turn on the mutex    *)
(* later, by the player's PID alone.                                       *)
(***************************************************************************)
EXTENDS Naturals, Sequences, FiniteSets

CONSTANTS Pids, Conns,
          Updates,      \* requests of updateNotificationData, each its notice
          Friends,      \* GetUserFriendPIDs: a set of pairs of players
          Validates,    \* whether ValidateLoginData is set
          MaxFailures,  \* bound: how many statements fail
          MaxStations,  \* bound: how long a list of stations gets
          NoOne, NoRow, Blank

\* A station URL: its PID and its RVCID parameter.
Station == [user : Pids \cup {NoOne}, conn : Conns \cup {NoOne}]

\* A row of matchmaking.notifications.
Notice == [value : Updates, active : BOOLEAN]

ASSUME ConnectionsAssumption ==
  /\ Friends \subseteq {pair \in SUBSET Pids : Cardinality(pair) = 2}
  /\ Validates \in BOOLEAN /\ MaxFailures \in Nat /\ MaxStations \in Nat
  /\ NoOne \notin Pids \cup Conns /\ NoRow \notin Notice /\ Blank \notin Station

FriendsOf(p) == {q \in Pids : {p, q} \in Friends}

VARIABLES life,     \* of a connection; "ended" until its callback has run
          user,     \* the player of a connection
          urls,     \* its StationURLs
          todo,     \* the stations that its register has yet to append
          rewritten, \* history: connections with a station that replaceURL
                    \* has put there since the last reportNATProperties
          notices,  \* matchmaking.notifications
          pc, by, targets, \* an update: next step, connection, friends to tell
          told,     \* history: the notices that reached a connection
          asked,    \* history: connections that have asked for their friends'
          stuck,    \* history: players whose notice an error or a late request
                    \* has left active
          failures

connVars == <<life, user, urls, todo, rewritten>>
vars == <<life, user, urls, todo, rewritten, notices, pc, by, targets, told, asked, stuck, failures>>

TypeOK ==
  /\ life \in [Conns -> {"unused", "open", "ended", "closed"}]
  /\ user \in [Conns -> Pids \cup {NoOne}]
  /\ urls \in [Conns -> Seq(Station \cup {Blank})] /\ todo \in [Conns -> Seq(Station)]
  /\ rewritten \subseteq Conns
  /\ notices \in [Pids -> Notice \cup {NoRow}]
  /\ pc \in [Updates -> {"idle", "store", "targets", "push", "ok", "error"}]
  /\ by \in [Updates -> Conns \cup {NoOne}] /\ targets \in [Updates -> SUBSET Pids]
  /\ told \in [Conns -> SUBSET Updates] /\ asked \subseteq Conns
  /\ stuck \subseteq Pids /\ failures \in 0..MaxFailures

Init ==
  /\ life = [c \in Conns |-> "unused"] /\ user = [c \in Conns |-> NoOne]
  /\ urls = [c \in Conns |-> <<>>] /\ todo = [c \in Conns |-> <<>>]
  /\ rewritten = {}
  /\ notices = [p \in Pids |-> NoRow]
  /\ pc = [r \in Updates |-> "idle"] /\ by = [r \in Updates |-> NoOne]
  /\ targets = [r \in Updates |-> {}] /\ told = [c \in Conns |-> {}]
  /\ asked = {} /\ stuck = {} /\ failures = 0

\* FindConnectionByPID returns any of these.
OpenOf(p) == {c \in Conns : life[c] = "open" /\ user[c] = p}

Fails == failures < MaxFailures /\ failures' = failures + 1
-----------------------------------------------------------------------------
(* Connections                                                             *)

Connect(c, p) ==
  /\ life[c] = "unused"
  /\ life' = [life EXCEPT ![c] = "open"] /\ user' = [user EXCEPT ![c] = p]
  /\ UNCHANGED <<urls, todo, notices, pc, by, targets, told, asked, stuck, failures, rewritten>>

\* The console leaves, or stops answering: the endpoint forgets it.
End(c) ==
  /\ life[c] = "open"
  /\ life' = [life EXCEPT ![c] = "ended"]
  /\ UNCHANGED <<user, urls, todo, notices, pc, by, targets, told, asked, stuck, failures, rewritten>>

Inactive(row) == IF row = NoRow THEN NoRow ELSE [row EXCEPT !.active = FALSE]

\* OnConnectionEnded, with the mutex: InactivateNotificationDatas, whose
\* error is dropped.
Inactivate(c) ==
  /\ life[c] = "ended"
  /\ life' = [life EXCEPT ![c] = "closed"]
  /\ \/ /\ notices' = [notices EXCEPT ![user[c]] = Inactive(@)]
        /\ stuck' = stuck \ {user[c]} /\ UNCHANGED failures
     \/ Fails /\ stuck' = stuck \cup {user[c]} /\ UNCHANGED notices
  /\ UNCHANGED <<user, urls, todo, pc, by, targets, told, asked, rewritten>>

\* Fault: the notices stay as they are.
RestartFault ==
  /\ life' = [c \in Conns |-> IF life[c] = "unused" THEN "unused" ELSE "closed"]
  /\ pc' = [r \in Updates |-> IF pc[r] \in {"idle", "ok"} THEN pc[r] ELSE "error"]
  /\ todo' = [c \in Conns |-> <<>>]
  /\ UNCHANGED <<user, urls, notices, by, targets, told, asked, stuck, failures, rewritten>>

\* The process ends with all connections and requests, and SetManager marks
\* all notices inactive, or logs the error of a statement and returns.
Restart ==
  /\ life' = [c \in Conns |-> IF life[c] = "unused" THEN "unused" ELSE "closed"]
  /\ pc' = [r \in Updates |-> IF pc[r] \in {"idle", "ok"} THEN pc[r] ELSE "error"]
  /\ todo' = [c \in Conns |-> <<>>]
  /\ \/ /\ notices' = [p \in Pids |-> Inactive(notices[p])]
        /\ stuck' = {} /\ UNCHANGED failures
     \/ Fails /\ stuck' = Pids /\ UNCHANGED notices
  /\ UNCHANGED <<user, urls, by, targets, told, asked, rewritten>>
-----------------------------------------------------------------------------
(* Station URLs.  One request of a connection at a time works on its list: *)
(* the console waits for the reply.  Others read the list without a lock.  *)

\* register: the local station of the console and its public one, or the
\* address the packet came from.  Both get the player and the connection, and
\* are appended to what earlier calls have left.
Register(c) ==
  /\ life[c] = "open" /\ todo[c] = <<>> /\ Len(urls[c]) + 2 <= MaxStations
  /\ todo' = [todo EXCEPT ![c] = [i \in 1..2 |-> [user |-> user[c], conn |-> c]]]
  /\ UNCHANGED <<life, user, urls, notices, pc, by, targets, told, asked, stuck, failures, rewritten>>

\* registerEx does the same after ValidateLoginData, where a server sets that.
RegisterEx(c) == Validates /\ Register(c)

Filled(list) == \A i \in DOMAIN list : list[i] # Blank

\* append is not one step: the slice gets its new length first ...
Grow(c) ==
  /\ todo[c] # <<>> /\ Filled(urls[c])
  /\ urls' = [urls EXCEPT ![c] = Append(@, Blank)]
  /\ UNCHANGED <<life, user, todo, notices, pc, by, targets, told, asked, stuck, failures, rewritten>>

\* ... and then its new element.
Fill(c) ==
  /\ todo[c] # <<>> /\ ~Filled(urls[c])
  /\ urls' = [urls EXCEPT ![c] = [i \in DOMAIN @ |-> IF @[i] = Blank THEN Head(todo[c]) ELSE @[i]]]
  /\ todo' = [todo EXCEPT ![c] = Tail(@)]
  /\ UNCHANGED <<life, user, notices, pc, by, targets, told, asked, stuck, failures, rewritten>>

\* replaceURL: every station with the address and port of the target becomes
\* the new one, of which only the player is checked.  Its connection id is the
\* one the console writes there: none, or any, also one that is another
\* player's by now, since a new process counts its connections anew.
ReplaceURL(c) ==
  /\ life[c] = "open" /\ urls[c] # <<>> /\ todo[c] = <<>>
  /\ \E same \in SUBSET DOMAIN urls[c], d \in Conns \cup {NoOne} :
       urls' = [urls EXCEPT ![c] = [i \in DOMAIN @ |->
                  IF i \in same THEN [user |-> user[c], conn |-> d] ELSE @[i]]]
  /\ rewritten' = rewritten \cup {c}
  /\ UNCHANGED <<life, user, todo, notices, pc, by, targets, told, asked, stuck, failures>>

\* Fault: the connection ids are left as they are.
ReportNATPropertiesFault(c) ==
  /\ life[c] = "open" /\ urls[c] # <<>> /\ todo[c] = <<>>
  /\ urls' = [urls EXCEPT ![c] = [i \in DOMAIN @ |-> [@[i] EXCEPT !.user = user[c]]]]
  /\ rewritten' = rewritten \ {c}
  /\ UNCHANGED <<life, user, todo, notices, pc, by, targets, told, asked, stuck, failures>>

\* reportNATProperties sets player and connection of each station, on a copy
\* that shares its parameters with the one in the list.
ReportNATProperties(c) ==
  /\ life[c] = "open" /\ urls[c] # <<>> /\ todo[c] = <<>>
  /\ urls' = [urls EXCEPT ![c] = [i \in DOMAIN @ |-> [user |-> user[c], conn |-> c]]]
  /\ rewritten' = rewritten \ {c}
  /\ UNCHANGED <<life, user, todo, notices, pc, by, targets, told, asked, stuck, failures>>

\* What requestURLs may answer for a connection id and a player ...
RequestedURLs(c, p) == IF life[c] = "open" THEN {urls[c]} ELSE {urls[d] : d \in OpenOf(p)}

\* ... and getSessionURLs for the host of the caller's session: nothing for a
\* host who is not connected.
SessionURLs(host) == IF OpenOf(host) = {} THEN {<<>>} ELSE {urls[d] : d \in OpenOf(host)}

\* requestProbeInitiationExt: the connections a probe of the station goes to.
ProbeTargets(station) == {c \in Conns : life[c] = "open" /\ station.conn = c}
-----------------------------------------------------------------------------
(* Notices                                                                 *)

\* updateNotificationData waits for the mutex.
ReceiveUpdate(r, c) ==
  /\ pc[r] = "idle" /\ life[c] = "open"
  /\ pc' = [pc EXCEPT ![r] = "store"] /\ by' = [by EXCEPT ![r] = c]
  /\ UNCHANGED <<connVars, notices, targets, told, asked, stuck, failures>>

\* A player whose connections have all ended, and their callbacks have run.
IsGone(p) == \A c \in Conns : user[c] = p => life[c] \notin {"open", "ended"}

\* With the mutex: the UPSERT, and its line in the tracking table, whose
\* failure leaves the notice and reports the error.
Store(r) ==
  /\ pc[r] = "store"
  /\ LET p == user[by[r]] IN
     \/ /\ notices' = [notices EXCEPT ![p] = [value |-> r, active |-> TRUE]]
        /\ \/ pc' = [pc EXCEPT ![r] = "targets"] /\ UNCHANGED failures
           \/ pc' = [pc EXCEPT ![r] = "error"] /\ Fails
        /\ stuck' = IF IsGone(p) THEN stuck \cup {p} ELSE stuck
     \/ pc' = [pc EXCEPT ![r] = "error"] /\ Fails /\ UNCHANGED <<notices, stuck>>
  /\ UNCHANGED <<connVars, by, targets, told, asked>>

\* Fault: the connections of the friends instead of the friends.
FindTargetsFault(r) ==
  /\ pc[r] = "targets"
  /\ targets' = [targets EXCEPT ![r] = {c \in Conns : life[c] = "open"
                                         /\ user[c] \in FriendsOf(user[by[r]])}]
  /\ pc' = [pc EXCEPT ![r] = "push"]
  /\ UNCHANGED <<connVars, notices, by, told, asked, stuck, failures>>

\* After the mutex: the friends who are connected.
FindTargets(r) ==
  /\ pc[r] = "targets"
  /\ targets' = [targets EXCEPT ![r] = {q \in FriendsOf(user[by[r]]) : OpenOf(q) # {}}]
  /\ pc' = [pc EXCEPT ![r] = "push"]
  /\ UNCHANGED <<connVars, notices, by, told, asked, stuck, failures>>

\* SendNotificationEvent: one connection of each target that still has one.
Push(r) ==
  /\ pc[r] = "push"
  /\ \E reached \in SUBSET {c \in Conns : life[c] = "open" /\ user[c] \in targets[r]} :
       /\ \A q \in targets[r] : OpenOf(q) # {} => Cardinality(reached \cap OpenOf(q)) = 1
       /\ told' = [c \in Conns |-> IF c \in reached THEN told[c] \cup {r} ELSE told[c]]
  /\ pc' = [pc EXCEPT ![r] = "ok"]
  /\ UNCHANGED <<connVars, notices, by, targets, asked, stuck, failures>>

\* Fault: the notices of the caller are looked up.
GetFriendNotificationDataFault(c) ==
  /\ life[c] = "open"
  /\ asked' = asked \cup {c}
  /\ told' = [told EXCEPT ![c] = @ \cup
       {notices[p].value : p \in {q \in {user[c]} : notices[q] # NoRow /\ notices[q].active}}]
  /\ UNCHANGED <<connVars, notices, pc, by, targets, stuck, failures>>

\* getFriendNotificationData: the active notices of the caller's friends.
GetFriendNotificationData(c) ==
  /\ life[c] = "open"
  /\ asked' = asked \cup {c}
  /\ told' = [told EXCEPT ![c] = @ \cup
       {notices[p].value : p \in {q \in FriendsOf(user[c]) :
                                    notices[q] # NoRow /\ notices[q].active}}]
  /\ UNCHANGED <<connVars, notices, pc, by, targets, stuck, failures>>
-----------------------------------------------------------------------------
ConnectionStep(c) ==
  \/ \E p \in Pids : Connect(c, p)
  \/ End(c) \/ Inactivate(c)
  \/ Register(c) \/ RegisterEx(c) \/ Grow(c) \/ Fill(c) \/ ReplaceURL(c) \/ ReportNATProperties(c)
  \/ GetFriendNotificationData(c)

UpdateStep(r) ==
  \/ \E c \in Conns : ReceiveUpdate(r, c)
  \/ Store(r) \/ FindTargets(r) \/ Push(r)

Next == \/ \E c \in Conns : ConnectionStep(c)
        \/ \E r \in Updates : UpdateStep(r)
        \/ Restart

Spec == Init /\ [][Next]_vars
-----------------------------------------------------------------------------
(* Properties                                                              *)

\* A notice is active only while its player has a connection, or one whose
\* callback has yet to run (OnConnectionEnded in protocol.go), whatever is
\* restarted or reconnects meanwhile.  What an error or a request served after
\* the callback has left active is excepted, until the next end or restart.
NoticeOfConnected ==
  \A p \in Pids : notices[p] # NoRow /\ notices[p].active => ~IsGone(p) \/ p \in stuck

\* No friend misses a notice between the database and the push: when an update
\* is answered and its notice still stands, a friend who has asked for notices
\* on the only connection has been told of it, by the answer or by the push,
\* although reading, storing and pushing are not one step.
NoticeIsNotMissed ==
  [][\A r \in Updates : pc[r] # "ok" /\ pc'[r] = "ok" =>
       LET p == user[by[r]] IN
       notices[p] = [value |-> r, active |-> TRUE] =>
         \A c \in asked : user[c] \in FriendsOf(p) /\ OpenOf(user[c]) = {c}
                            => r \in told'[c]]_vars

\* The stations that requestURLs and getSessionURLs hand out for a player name
\* that player, and a probe of one reaches the player on a live connection and
\* nobody else, whoever disconnects, reconnects, registers again or reports
\* meanwhile.  While a station is as the player's own console has rewritten it,
\* only the name is sure; an unfilled one is seen only while its console
\* registers.
StationsAreOwners ==
  \A p \in Pids, c \in Conns : user[c] \in {p, NoOne} =>
    \A list \in RequestedURLs(c, p) \cup SessionURLs(p) : \A i \in DOMAIN list :
      \/ list[i] = Blank /\ \E d \in OpenOf(p) : list = urls[d] /\ todo[d] # <<>>
      \/ /\ list[i] # Blank /\ list[i].user = p
         /\ \/ ProbeTargets(list[i]) # {} /\ ProbeTargets(list[i]) \subseteq OpenOf(p)
            \/ \E d \in OpenOf(p) \cap rewritten : list = urls[d]
=============================================================================

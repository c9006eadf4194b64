------------------------- MODULE Connections_proofs -------------------------
(***************************************************************************)
(* Proofs about Connections, for any number of players, connections and    *)
(* updates, with any failures: the types, the notices of players who are   *)
(* gone, the notices that friends are told of, and the stations that are   *)
(* handed out.                                                             *)
(***************************************************************************)
EXTENDS Connections, FiniteSetTheorems, TLAPS

\* A connection has a player from its first moment on.
ConnOK ==
  /\ \A c \in Conns : life[c] = "unused" <=> user[c] = NoOne
  /\ \A c \in Conns : life[c] = "unused" => c \notin asked /\ urls[c] = <<>> /\ todo[c] = <<>>
  /\ \A r \in Updates : pc[r] # "idle" => by[r] \in Conns /\ life[by[r]] # "unused"

\* A station names the player of its connection, and the connection itself
\* while no station of the list is as replaceURL has left it.
Of(station, c) ==
  /\ station # Blank /\ station.user = user[c]
  /\ station.conn = c \/ c \in rewritten

ListOK(c) ==
  /\ \A i \in DOMAIN urls[c] :
       \/ Of(urls[c][i], c)
       \/ urls[c][i] = Blank /\ (life[c] = "open" => todo[c] # <<>>)
  /\ \A i \in DOMAIN todo[c] : Of(todo[c][i], c)

StationOK == \A c \in Conns : ListOK(c)

\* While an update is about to tell its friends and its notice stands, every
\* friend who has asked has heard of it or is among those to tell.
TargetOK ==
  \A r \in Updates :
    pc[r] = "push" /\ notices[user[by[r]]] = [value |-> r, active |-> TRUE] =>
      \A c \in asked : life[c] = "open" /\ user[c] \in FriendsOf(user[by[r]])
                         => r \in told[c] \/ user[c] \in targets[r]

IInv == TypeOK /\ ConnOK /\ NoticeOfConnected /\ StationOK /\ TargetOK
-----------------------------------------------------------------------------
\* The fields of the constants' assumption, one by one.
LEMMA Markers == /\ NoOne \notin Pids /\ NoOne \notin Conns
                 /\ NoRow \notin Notice /\ Blank \notin Station
BY ConnectionsAssumption

LEMMA FriendsBothWays == ASSUME NEW p \in Pids, NEW q \in FriendsOf(p)
                         PROVE  q \in Pids /\ p \in FriendsOf(q)
<1>1. {p, q} = {q, p}
  OBVIOUS
<1> QED
  BY <1>1 DEF FriendsOf

LEMMA ActiveNotice == ASSUME NEW r \in Updates
                      PROVE  [value |-> r, active |-> TRUE] # NoRow
<1>1. [value |-> r, active |-> TRUE] \in Notice
  BY DEF Notice
<1> QED
  BY <1>1, Markers

LEMMA InactiveType == ASSUME NEW row \in Notice \cup {NoRow}
                      PROVE  /\ Inactive(row) \in Notice \cup {NoRow}
                             /\ Inactive(row) # NoRow => ~Inactive(row).active
BY Markers DEF Inactive, Notice

\* A connection in use has a player.
LEMMA UserOf == ASSUME TypeOK, ConnOK, NEW c \in Conns, life[c] # "unused"
                PROVE  user[c] \in Pids
BY DEF TypeOK, ConnOK

LEMMA UpdaterOf == ASSUME TypeOK, ConnOK, NEW r \in Updates, pc[r] # "idle"
                   PROVE  by[r] \in Conns /\ user[by[r]] \in Pids
BY UserOf DEF ConnOK
-----------------------------------------------------------------------------
(* Types                                                                   *)

LEMMA RegisterType == ASSUME TypeOK, ConnOK, NEW c \in Conns, Register(c)
                      PROVE  todo' \in [Conns -> Seq(Station)]
<1>1. user[c] \in Pids
  BY UserOf DEF Register
<1>2. [i \in 1..2 |-> [user |-> user[c], conn |-> c]] \in Seq(Station)
  BY <1>1 DEF Station
<1> QED
  BY <1>2 DEF Register, TypeOK

LEMMA UrlsType == ASSUME TypeOK, ConnOK, StationOK, NEW c \in Conns,
                         Grow(c) \/ Fill(c) \/ ReplaceURL(c) \/ ReportNATProperties(c)
                  PROVE  urls' \in [Conns -> Seq(Station \cup {Blank})]
<1>0. urls[c] \in Seq(Station \cup {Blank}) /\ todo[c] \in Seq(Station)
  BY DEF TypeOK
<1>1. CASE Grow(c)
  <2>1. Append(urls[c], Blank) \in Seq(Station \cup {Blank})
    BY <1>0
  <2> QED
    BY <1>1, <2>1 DEF Grow, TypeOK
<1>2. CASE Fill(c)
  <2>1. Head(todo[c]) \in Station
    BY <1>0, <1>2 DEF Fill
  <2>2. [i \in DOMAIN urls[c] |-> IF urls[c][i] = Blank THEN Head(todo[c]) ELSE urls[c][i]]
          \in Seq(Station \cup {Blank})
    BY <1>0, <2>1
  <2> QED
    BY <1>2, <2>2 DEF Fill, TypeOK
<1>3. CASE ReplaceURL(c)
  <2>1. user[c] \in Pids
    BY <1>3, UserOf DEF ReplaceURL
  <2>2. PICK same \in SUBSET DOMAIN urls[c], d \in Conns \cup {NoOne} :
          urls' = [urls EXCEPT ![c] = [i \in DOMAIN @ |->
                     IF i \in same THEN [user |-> user[c], conn |-> d] ELSE @[i]]]
    BY <1>3 DEF ReplaceURL
  <2>3. [user |-> user[c], conn |-> d] \in Station
    BY <2>1 DEF Station
  <2>4. [i \in DOMAIN urls[c] |-> IF i \in same THEN [user |-> user[c], conn |-> d] ELSE urls[c][i]]
          \in Seq(Station \cup {Blank})
    BY <1>0, <2>3
  <2> QED
    BY <2>2, <2>4 DEF TypeOK
<1>4. CASE ReportNATProperties(c)
  <2>1. user[c] \in Pids
    BY <1>4, UserOf DEF ReportNATProperties
  <2>2. [user |-> user[c], conn |-> c] \in Station
    BY <2>1 DEF Station
  <2>3. [i \in DOMAIN urls[c] |-> [user |-> user[c], conn |-> c]] \in Seq(Station \cup {Blank})
    BY <1>0, <2>2
  <2> QED
    BY <1>4, <2>3 DEF ReportNATProperties, TypeOK
<1> QED
  BY <1>1, <1>2, <1>3, <1>4

LEMMA TypeStep == ASSUME IInv, Next
                  PROVE  TypeOK'
<1> USE DEF IInv
<1>1. ASSUME NEW c \in Conns, NEW p \in Pids, Connect(c, p)
      PROVE  TypeOK'
  BY <1>1 DEF Connect, TypeOK
<1>2. ASSUME NEW c \in Conns, End(c)
      PROVE  TypeOK'
  BY <1>2 DEF End, TypeOK
<1>3. ASSUME NEW c \in Conns, Inactivate(c)
      PROVE  TypeOK'
  <2>1. user[c] \in Pids
    BY <1>3, UserOf DEF Inactivate
  <2>2. notices[user[c]] \in Notice \cup {NoRow}
    BY <2>1 DEF TypeOK
  <2>3. Inactive(notices[user[c]]) \in Notice \cup {NoRow}
    BY <2>2, InactiveType
  <2>4. /\ life' \in [Conns -> {"unused", "open", "ended", "closed"}]
        /\ UNCHANGED <<user, urls, todo, pc, by, targets, told, asked, rewritten>>
    BY <1>3 DEF Inactivate, TypeOK
  <2>5. notices' \in [Pids -> Notice \cup {NoRow}]
    BY <1>3, <2>1, <2>3 DEF Inactivate, TypeOK
  <2>6. stuck' \subseteq Pids
    BY <1>3, <2>1 DEF Inactivate, TypeOK
  <2>7. failures \in 0..MaxFailures /\ MaxFailures \in Nat
    BY ConnectionsAssumption DEF TypeOK
  <2>8. failures' \in 0..MaxFailures
    BY <1>3, <2>7 DEF Inactivate, Fails
  <2> QED
    BY <2>4, <2>5, <2>6, <2>8 DEF TypeOK
<1>4. ASSUME NEW c \in Conns, Register(c) \/ RegisterEx(c)
      PROVE  TypeOK'
  <2>1. Register(c)
    BY <1>4 DEF RegisterEx
  <2>2. todo' \in [Conns -> Seq(Station)]
    BY <2>1, RegisterType
  <2> QED
    BY <2>1, <2>2 DEF Register, TypeOK
<1>5. ASSUME NEW c \in Conns, Grow(c) \/ Fill(c) \/ ReplaceURL(c) \/ ReportNATProperties(c)
      PROVE  TypeOK'
  <2>1. urls' \in [Conns -> Seq(Station \cup {Blank})]
    BY <1>5, UrlsType
  <2>2. todo' \in [Conns -> Seq(Station)]
    <3>1. todo \in [Conns -> Seq(Station)] /\ todo[c] \in Seq(Station)
      BY DEF TypeOK
    <3>2. CASE Fill(c)
      <4>1. Tail(todo[c]) \in Seq(Station)
        BY <3>1, <3>2 DEF Fill
      <4> QED
        BY <3>1, <3>2, <4>1 DEF Fill
    <3> QED
      BY <1>5, <3>1, <3>2 DEF Grow, ReplaceURL, ReportNATProperties
  <2>3. UNCHANGED <<life, user, notices, pc, by, targets, told, asked, stuck, failures>>
    BY <1>5 DEF Grow, Fill, ReplaceURL, ReportNATProperties
  <2>4. rewritten' \subseteq Conns
    BY <1>5 DEF Grow, Fill, ReplaceURL, ReportNATProperties, TypeOK
  <2> QED
    BY <2>1, <2>2, <2>3, <2>4 DEF TypeOK
<1>6. ASSUME NEW c \in Conns, GetFriendNotificationData(c)
      PROVE  TypeOK'
  <2>1. \A p \in {q \in FriendsOf(user[c]) : notices[q] # NoRow /\ notices[q].active} :
          notices[p].value \in Updates
    BY DEF TypeOK, Notice, FriendsOf
  <2>2. told' \in [Conns -> SUBSET Updates]
    BY <1>6, <2>1 DEF GetFriendNotificationData, TypeOK
  <2> QED
    BY <1>6, <2>2 DEF GetFriendNotificationData, connVars, TypeOK
<1>7. ASSUME NEW r \in Updates, NEW c \in Conns, ReceiveUpdate(r, c)
      PROVE  TypeOK'
  BY <1>7 DEF ReceiveUpdate, connVars, TypeOK
<1>8. ASSUME NEW r \in Updates, Store(r)
      PROVE  TypeOK'
  <2>1. user[by[r]] \in Pids
    BY <1>8, UpdaterOf DEF Store
  <2>2. [value |-> r, active |-> TRUE] \in Notice
    BY DEF Notice
  <2>3. notices' \in [Pids -> Notice \cup {NoRow}]
    BY <1>8, <2>1, <2>2 DEF Store, TypeOK
  <2>4. stuck' \subseteq Pids /\ failures' \in 0..MaxFailures
    BY <1>8, <2>1, ConnectionsAssumption DEF Store, Fails, TypeOK
  <2>5. pc' \in [Updates -> {"idle", "store", "targets", "push", "ok", "error"}]
    BY <1>8 DEF Store, TypeOK
  <2>6. UNCHANGED <<connVars, by, targets, told, asked>>
    BY <1>8 DEF Store
  <2> QED
    BY <2>3, <2>4, <2>5, <2>6 DEF TypeOK, connVars
<1>9. ASSUME NEW r \in Updates, FindTargets(r)
      PROVE  TypeOK'
  BY <1>9 DEF FindTargets, FriendsOf, connVars, TypeOK
<1>10. ASSUME NEW r \in Updates, Push(r)
       PROVE  TypeOK'
  BY <1>10 DEF Push, connVars, TypeOK
<1>11. CASE Restart
  <2>1. \A p \in Pids : Inactive(notices[p]) \in Notice \cup {NoRow}
    BY InactiveType DEF TypeOK
  <2>2. notices' \in [Pids -> Notice \cup {NoRow}]
    BY <1>11, <2>1 DEF Restart, TypeOK
  <2>3. life' \in [Conns -> {"unused", "open", "ended", "closed"}]
    BY <1>11 DEF Restart, TypeOK
  <2>4. pc' \in [Updates -> {"idle", "store", "targets", "push", "ok", "error"}]
    BY <1>11 DEF Restart, TypeOK
  <2>5. stuck' \subseteq Pids /\ failures' \in 0..MaxFailures
    BY <1>11, ConnectionsAssumption DEF Restart, Fails, TypeOK
  <2>6. todo' \in [Conns -> Seq(Station)] /\ UNCHANGED <<user, urls, by, targets, told, asked, rewritten>>
    BY <1>11 DEF Restart
  <2> QED
    BY <2>2, <2>3, <2>4, <2>5, <2>6 DEF TypeOK
<1> QED
  BY <1>1, <1>2, <1>3, <1>4, <1>5, <1>6, <1>7, <1>8, <1>9, <1>10, <1>11
     DEF Next, ConnectionStep, UpdateStep
-----------------------------------------------------------------------------
(* Notices of players who are gone                                         *)

LEMMA NoticeStep == ASSUME IInv, Next
                    PROVE  NoticeOfConnected'
<1> SUFFICES ASSUME NEW p \in Pids, notices'[p] # NoRow, notices'[p].active, IsGone(p)'
             PROVE  p \in stuck'
  BY DEF NoticeOfConnected
<1>0. /\ TypeOK /\ ConnOK
      /\ notices[p] # NoRow /\ notices[p].active /\ IsGone(p) => p \in stuck
  BY DEF IInv, NoticeOfConnected
<1>1. ASSUME NEW c \in Conns, NEW q \in Pids, Connect(c, q)
      PROVE  p \in stuck'
  <2>1. user[c] # p
    BY <1>0, <1>1, Markers DEF ConnOK, Connect
  <2>2. IsGone(p)
    BY <1>0, <1>1, <2>1 DEF Connect, IsGone, TypeOK
  <2> QED
    BY <1>0, <1>1, <2>2 DEF Connect
<1>2. ASSUME NEW c \in Conns, End(c)
      PROVE  p \in stuck'
  <2>1. IsGone(p)
    BY <1>0, <1>2 DEF End, IsGone, TypeOK
  <2> QED
    BY <1>0, <1>2, <2>1 DEF End
<1>3. ASSUME NEW c \in Conns, Inactivate(c)
      PROVE  p \in stuck'
  <2>1. CASE user[c] = p
    <3>1. Inactive(notices[p]) # NoRow => ~Inactive(notices[p]).active
      BY <1>0, InactiveType DEF TypeOK
    <3> QED
      BY <1>0, <1>3, <2>1, <3>1 DEF Inactivate, TypeOK
  <2>2. CASE user[c] # p
    <3>1. IsGone(p)
      BY <1>0, <1>3, <2>2 DEF Inactivate, IsGone, TypeOK
    <3>2. notices'[p] = notices[p]
      BY <1>0, <1>3, <2>2 DEF Inactivate, TypeOK
    <3> QED
      BY <1>0, <1>3, <2>2, <3>1, <3>2 DEF Inactivate
  <2> QED
    BY <2>1, <2>2
<1>4. ASSUME NEW r \in Updates, Store(r)
      PROVE  p \in stuck'
  <2>1. IsGone(p)
    BY <1>4 DEF Store, connVars, IsGone
  <2>2. CASE user[by[r]] = p
    BY <1>0, <1>4, <2>1, <2>2 DEF Store
  <2>3. CASE user[by[r]] # p
    <3>1. notices'[p] = notices[p]
      BY <1>0, <1>4, <2>3 DEF Store, TypeOK
    <3> QED
      BY <1>0, <1>4, <2>1, <3>1 DEF Store
  <2> QED
    BY <2>2, <2>3
<1>5. CASE Restart
  <2>1. Inactive(notices[p]) # NoRow => ~Inactive(notices[p]).active
    BY <1>0, InactiveType DEF TypeOK
  <2> QED
    BY <1>0, <1>5, <2>1 DEF Restart, TypeOK
<1>6. CASE UNCHANGED <<life, user, notices, stuck>>
  BY <1>0, <1>6 DEF IsGone
<1> QED
  BY <1>1, <1>2, <1>3, <1>4, <1>5, <1>6
     DEF Next, ConnectionStep, UpdateStep, connVars, Register, RegisterEx, Grow, Fill, ReplaceURL,
         ReportNATProperties, GetFriendNotificationData, ReceiveUpdate, FindTargets, Push
-----------------------------------------------------------------------------
(* Connections and stations                                                *)

LEMMA ConnStep == ASSUME IInv, Next
                  PROVE  ConnOK'
<1>0. TypeOK /\ ConnOK
  BY DEF IInv
<1>1. ASSUME NEW c \in Conns, NEW p \in Pids, Connect(c, p)
      PROVE  ConnOK'
  BY <1>0, <1>1, Markers DEF Connect, ConnOK, TypeOK
<1>2. ASSUME NEW c \in Conns, End(c)
      PROVE  ConnOK'
  BY <1>0, <1>2 DEF End, ConnOK, TypeOK
<1>3. ASSUME NEW c \in Conns, Inactivate(c)
      PROVE  ConnOK'
  BY <1>0, <1>3 DEF Inactivate, ConnOK, TypeOK
<1>4. ASSUME NEW c \in Conns, \/ Register(c) \/ RegisterEx(c) \/ Grow(c) \/ Fill(c)
                              \/ ReplaceURL(c) \/ ReportNATProperties(c)
      PROVE  ConnOK'
  <2>1. life[c] # "unused" /\ UNCHANGED <<life, user, pc, by, asked>>
    BY <1>0, <1>4 DEF ConnOK, Register, RegisterEx, Grow, Fill, ReplaceURL, ReportNATProperties
  <2>2. \A d \in Conns : d # c => urls'[d] = urls[d] /\ todo'[d] = todo[d]
    BY <1>0, <1>4 DEF TypeOK, Register, RegisterEx, Grow, Fill, ReplaceURL, ReportNATProperties
  <2> QED
    BY <1>0, <2>1, <2>2 DEF ConnOK
<1>5. ASSUME NEW c \in Conns, GetFriendNotificationData(c)
      PROVE  ConnOK'
  BY <1>0, <1>5 DEF GetFriendNotificationData, connVars, ConnOK, TypeOK
<1>6. ASSUME NEW r \in Updates, NEW c \in Conns, ReceiveUpdate(r, c)
      PROVE  ConnOK'
  BY <1>0, <1>6 DEF ReceiveUpdate, connVars, ConnOK, TypeOK
<1>7. ASSUME NEW r \in Updates, Store(r) \/ FindTargets(r) \/ Push(r)
      PROVE  ConnOK'
  <2>1. pc[r] # "idle" /\ UNCHANGED <<life, user, urls, todo, by, asked>>
    BY <1>7 DEF Store, FindTargets, Push, connVars
  <2>2. \A q \in Updates : q # r => pc'[q] = pc[q]
    BY <1>0, <1>7 DEF Store, FindTargets, Push, TypeOK
  <2> QED
    BY <1>0, <2>1, <2>2 DEF ConnOK
<1>8. CASE Restart
  BY <1>0, <1>8 DEF Restart, ConnOK, TypeOK
<1> QED
  BY <1>1, <1>2, <1>3, <1>4, <1>5, <1>6, <1>7, <1>8 DEF Next, ConnectionStep, UpdateStep

\* A station of a connection, and its list, depend on nothing else.
LEMMA StationStep == ASSUME IInv, Next
                     PROVE  StationOK'
<1>0. TypeOK /\ ConnOK /\ StationOK
  BY DEF IInv
<1>1. ASSUME NEW c \in Conns, NEW p \in Pids, Connect(c, p)
      PROVE  StationOK'
  <2>1. urls[c] = <<>> /\ todo[c] = <<>> /\ user[c] = NoOne
    BY <1>0, <1>1 DEF Connect, ConnOK
  <2>2. \A d \in Conns : d # c => user'[d] = user[d] /\ life'[d] = life[d]
    BY <1>0, <1>1 DEF Connect, TypeOK
  <2>3. \A d \in Conns : (urls[d] # <<>> \/ todo[d] # <<>>) => d # c /\ user[d] \in Pids
    BY <1>0, <2>1, UserOf DEF ConnOK
  <2>4. \A d \in Conns : \A s : Of(s, d) /\ d # c /\ user[d] \in Pids => Of(s, d)'
    BY <1>1, <2>2 DEF Connect, Of
  <2>5. urls' = urls /\ todo' = todo
    BY <1>1 DEF Connect
  <2>6. \A d \in Conns : /\ \A i \in DOMAIN urls[d] : d # c /\ user[d] \in Pids
                         /\ \A i \in DOMAIN todo[d] : d # c /\ user[d] \in Pids
    BY <2>3
  <2> QED
    BY <1>0, <2>2, <2>4, <2>5, <2>6 DEF StationOK, ListOK
<1>2. ASSUME NEW c \in Conns, End(c) \/ Inactivate(c)
      PROVE  StationOK'
  <2>1. UNCHANGED <<user, urls, todo, rewritten>> /\ \A d \in Conns : life'[d] = "open" => life[d] = "open"
    BY <1>0, <1>2 DEF End, Inactivate, TypeOK
  <2> QED
    BY <1>0, <2>1 DEF StationOK, ListOK, Of
\* What becomes of one list.
<1>3. ASSUME NEW c \in Conns, UNCHANGED <<life, user>>, ListOK(c)',
             \A d \in Conns : d # c => /\ urls'[d] = urls[d] /\ todo'[d] = todo[d]
                                       /\ d \in rewritten' <=> d \in rewritten
      PROVE  StationOK'
  BY <1>0, <1>3 DEF StationOK, ListOK, Of
<1>30. ASSUME NEW c \in Conns, UNCHANGED <<life, user, rewritten>>,
              \A d \in Conns : d # c => urls'[d] = urls[d] /\ todo'[d] = todo[d],
              \A i \in DOMAIN urls'[c] :
                \/ Of(urls'[c][i], c)
                \/ urls'[c][i] = Blank /\ (life[c] = "open" => todo'[c] # <<>>),
              \A i \in DOMAIN todo'[c] : Of(todo'[c][i], c)
       PROVE  StationOK'
  <2>1. ListOK(c)'
    BY <1>30 DEF ListOK, Of
  <2> QED
    BY <1>3, <1>30, <2>1
<1>4. ASSUME NEW c \in Conns PROVE [user |-> user[c], conn |-> c] # Blank
  BY <1>0, Markers DEF Station, TypeOK
<1>5. ASSUME NEW c \in Conns, Register(c) \/ RegisterEx(c)
      PROVE  StationOK'
  <2>1. Register(c)
    BY <1>5 DEF RegisterEx
  <2>2. Of([user |-> user[c], conn |-> c], c)
    BY <1>4 DEF Of
  <2>3. urls'[c] = urls[c] /\ todo[c] = <<>> /\ todo'[c] = [i \in 1..2 |-> [user |-> user[c], conn |-> c]]
    BY <1>0, <2>1 DEF Register, TypeOK
  <2>4. /\ UNCHANGED <<life, user, rewritten>>
        /\ \A d \in Conns : d # c => urls'[d] = urls[d] /\ todo'[d] = todo[d]
    BY <1>0, <2>1 DEF Register, TypeOK
  <2>5. \A i \in DOMAIN urls[c] : Of(urls[c][i], c) \/ urls[c][i] = Blank
    BY <1>0 DEF StationOK, ListOK
  <2>6. todo'[c] # <<>>
    <3>1. 1 \in DOMAIN todo'[c]
      BY <2>3
    <3> QED
      BY <3>1
  <2> QED
    BY <1>30, <2>2, <2>3, <2>4, <2>5, <2>6
<1>6. ASSUME NEW c \in Conns, Grow(c)
      PROVE  StationOK'
  <2>1. urls[c] \in Seq(Station \cup {Blank})
    BY <1>0 DEF TypeOK
  <2>2. urls'[c] = Append(urls[c], Blank) /\ todo'[c] = todo[c] /\ todo[c] # <<>>
    BY <1>0, <1>6 DEF Grow, TypeOK
  <2>3. \A i \in DOMAIN urls'[c] : 
          urls'[c][i] # Blank => i \in DOMAIN urls[c] /\ urls'[c][i] = urls[c][i]
    BY <2>1, <2>2
  <2>4. /\ UNCHANGED <<life, user, rewritten>>
        /\ \A d \in Conns : d # c => urls'[d] = urls[d] /\ todo'[d] = todo[d]
    BY <1>0, <1>6 DEF Grow, TypeOK
  <2> QED
    BY <1>0, <1>30, <2>2, <2>3, <2>4 DEF StationOK, ListOK
<1>7. ASSUME NEW c \in Conns, Fill(c)
      PROVE  StationOK'
  <2>1. todo[c] \in Seq(Station) /\ todo[c] # <<>>
    BY <1>0, <1>7 DEF Fill, TypeOK
  <2>2. Head(todo[c]) = todo[c][1] /\ 1 \in DOMAIN todo[c]
    BY <2>1
  <2>3. Of(Head(todo[c]), c)
    BY <1>0, <2>2 DEF StationOK, ListOK
  <2>4. /\ urls'[c] = [i \in DOMAIN urls[c] |-> IF urls[c][i] = Blank THEN Head(todo[c]) ELSE urls[c][i]]
        /\ todo'[c] = Tail(todo[c])
    BY <1>0, <1>7 DEF Fill, TypeOK
  <2>5. \A i \in DOMAIN urls'[c] : Of(urls'[c][i], c)
    BY <1>0, <2>3, <2>4 DEF StationOK, ListOK
  <2>6. \A i \in DOMAIN Tail(todo[c]) : i + 1 \in DOMAIN todo[c] /\ Tail(todo[c])[i] = todo[c][i + 1]
    BY <2>1
  <2>7. \A i \in DOMAIN todo'[c] : Of(todo'[c][i], c)
    BY <1>0, <2>4, <2>6 DEF StationOK, ListOK
  <2>8. /\ UNCHANGED <<life, user, rewritten>>
        /\ \A d \in Conns : d # c => urls'[d] = urls[d] /\ todo'[d] = todo[d]
    BY <1>0, <1>7 DEF Fill, TypeOK
  <2> QED
    BY <1>30, <2>5, <2>7, <2>8
<1>8. ASSUME NEW c \in Conns, ReplaceURL(c) \/ ReportNATProperties(c)
      PROVE  StationOK'
  <2>1. /\ UNCHANGED <<life, user, todo>> /\ life[c] = "open" /\ todo[c] = <<>>
        /\ \A d \in Conns : d # c => urls'[d] = urls[d] /\ (d \in rewritten' <=> d \in rewritten)
    BY <1>0, <1>8 DEF ReplaceURL, ReportNATProperties, TypeOK
  <2>2. \A i \in DOMAIN urls[c] : Of(urls[c][i], c)
    BY <1>0, <2>1 DEF StationOK, ListOK
  <2>3. CASE ReplaceURL(c)
    <3>1. PICK same \in SUBSET DOMAIN urls[c], e \in Conns \cup {NoOne} :
            urls' = [urls EXCEPT ![c] = [i \in DOMAIN @ |->
                       IF i \in same THEN [user |-> user[c], conn |-> e] ELSE @[i]]]
      BY <2>3 DEF ReplaceURL
    <3>2. [user |-> user[c], conn |-> e] # Blank
      BY <1>0, Markers DEF Station, TypeOK
    <3>3. urls'[c] = [i \in DOMAIN urls[c] |->
                       IF i \in same THEN [user |-> user[c], conn |-> e] ELSE urls[c][i]]
      BY <1>0, <3>1 DEF TypeOK
    <3>4. \A i \in DOMAIN urls'[c] : urls'[c][i] # Blank /\ urls'[c][i].user = user[c]
      BY <2>2, <3>2, <3>3 DEF Of
    <3>5. c \in rewritten'
      BY <2>3 DEF ReplaceURL
    <3>6. ListOK(c)'
      BY <2>1, <3>4, <3>5 DEF ListOK, Of
    <3> QED
      BY <1>3, <2>1, <3>6
  <2>4. CASE ReportNATProperties(c)
    <3>1. urls'[c] = [i \in DOMAIN urls[c] |-> [user |-> user[c], conn |-> c]]
      BY <1>0, <2>4 DEF ReportNATProperties, TypeOK
    <3>2. \A i \in DOMAIN urls'[c] : /\ urls'[c][i] # Blank
                                     /\ urls'[c][i].user = user[c] /\ urls'[c][i].conn = c
      BY <1>4, <3>1
    <3>3. ListOK(c)'
      BY <2>1, <3>2 DEF ListOK, Of
    <3> QED
      BY <1>3, <2>1, <3>3
  <2> QED
    BY <1>8, <2>3, <2>4
<1>9. CASE Restart
  <2>1. UNCHANGED <<user, urls, rewritten>> /\ \A c \in Conns : life'[c] # "open" /\ todo'[c] = <<>>
    BY <1>0, <1>9 DEF Restart, TypeOK
  <2> QED
    BY <1>0, <2>1 DEF StationOK, ListOK, Of
<1>10. CASE UNCHANGED <<life, user, urls, todo, rewritten>>
  BY <1>0, <1>10 DEF StationOK, ListOK, Of
<1> QED
  BY <1>1, <1>2, <1>5, <1>6, <1>7, <1>8, <1>9, <1>10
     DEF Next, ConnectionStep, UpdateStep, connVars, GetFriendNotificationData, ReceiveUpdate,
         Store, FindTargets, Push
-----------------------------------------------------------------------------
(* Notices that friends are told of                                        *)

LEMMA TargetStep == ASSUME IInv, Next
                    PROVE  TargetOK'
<1>0. TypeOK /\ ConnOK /\ TargetOK
  BY DEF IInv
\* A step that gives no notice, target or connection that was not there.
<1>1. ASSUME \A r \in Updates : pc'[r] = "push" => pc[r] = "push",
             \A r \in Updates : pc'[r] = "push" => user'[by'[r]] = user[by[r]],
             \A r \in Updates : pc'[r] = "push" =>
               (notices'[user[by[r]]] = [value |-> r, active |-> TRUE] =>
                  notices[user[by[r]]] = [value |-> r, active |-> TRUE]),
             asked' = asked, \A c \in Conns : told[c] \subseteq told'[c], UNCHANGED targets,
             \A c \in asked : life'[c] = "open" => life[c] = "open" /\ user'[c] = user[c]
      PROVE  TargetOK'
  <2>1. SUFFICES ASSUME NEW r \in Updates, pc'[r] = "push",
                        notices'[user'[by'[r]]] = [value |-> r, active |-> TRUE],
                        NEW c \in asked', life'[c] = "open", user'[c] \in FriendsOf(user'[by'[r]])
                 PROVE  r \in told'[c] \/ user'[c] \in targets'[r]
    BY DEF TargetOK
  <2>2. /\ pc[r] = "push" /\ user'[by'[r]] = user[by[r]]
        /\ notices[user[by[r]]] = [value |-> r, active |-> TRUE]
    BY <1>1, <2>1
  <2>3. c \in asked /\ c \in Conns /\ life[c] = "open" /\ user'[c] = user[c]
    BY <1>0, <1>1, <2>1 DEF TypeOK
  <2>4. user[c] \in FriendsOf(user[by[r]])
    BY <2>1, <2>2, <2>3
  <2>5. r \in told[c] \/ user[c] \in targets[r]
    BY <1>0, <2>2, <2>3, <2>4 DEF TargetOK
  <2> QED
    BY <1>1, <2>3, <2>5
<1>2. ASSUME NEW c \in Conns, NEW p \in Pids, Connect(c, p)
      PROVE  TargetOK'
  <2>1. c \notin asked
    BY <1>0, <1>2 DEF Connect, ConnOK
  <2>2. \A r \in Updates : pc[r] = "push" => by[r] \in Conns /\ by[r] # c
    BY <1>0, <1>2 DEF Connect, ConnOK
  <2>3. \A d \in Conns : d # c => user'[d] = user[d] /\ life'[d] = life[d]
    BY <1>0, <1>2 DEF Connect, TypeOK
  <2>4. UNCHANGED <<notices, pc, by, targets, told, asked>>
    BY <1>2 DEF Connect
  <2>5. asked \subseteq Conns
    BY <1>0 DEF TypeOK
  <2> QED
    BY <1>1, <2>1, <2>2, <2>3, <2>4, <2>5
<1>3. ASSUME NEW c \in Conns, End(c)
      PROVE  TargetOK'
  <2>1. UNCHANGED <<user, notices, pc, by, targets, told, asked>>
    BY <1>3 DEF End
  <2>2. \A d \in asked : life'[d] = "open" => life[d] = "open"
    BY <1>0, <1>3 DEF End, TypeOK
  <2> QED
    BY <1>1, <2>1, <2>2
<1>4. ASSUME NEW c \in Conns, Inactivate(c)
      PROVE  TargetOK'
  <2>1. UNCHANGED <<user, pc, by, targets, told, asked>>
    BY <1>4 DEF Inactivate
  <2>2. \A d \in asked : life'[d] = "open" => life[d] = "open"
    BY <1>0, <1>4 DEF Inactivate, TypeOK
  <2>3. ASSUME NEW p \in Pids, NEW r \in Updates, notices'[p] = [value |-> r, active |-> TRUE]
        PROVE  notices[p] = [value |-> r, active |-> TRUE]
    <3>1. notices'[p] # NoRow /\ notices'[p].active
      BY <2>3, ActiveNotice
    <3>2. Inactive(notices[p]) # NoRow => ~Inactive(notices[p]).active
      BY <1>0, InactiveType DEF TypeOK
    <3>3. notices'[p] = notices[p] \/ notices'[p] = Inactive(notices[p])
      BY <1>0, <1>4 DEF Inactivate, TypeOK
    <3> QED
      BY <2>3, <3>1, <3>2, <3>3
  <2>4. \A r \in Updates : pc[r] = "push" => user[by[r]] \in Pids
    BY <1>0, UpdaterOf
  <2> QED
    BY <1>1, <2>1, <2>2, <2>3, <2>4
<1>5. ASSUME NEW r \in Updates, NEW c \in Conns, ReceiveUpdate(r, c)
      PROVE  TargetOK'
  <2>1. UNCHANGED <<life, user, notices, targets, told, asked>>
    BY <1>5 DEF ReceiveUpdate, connVars
  <2>2. \A q \in Updates : pc'[q] = "push" => pc[q] = "push" /\ by'[q] = by[q]
    BY <1>0, <1>5 DEF ReceiveUpdate, TypeOK
  <2> QED
    BY <1>1, <2>1, <2>2
<1>6. ASSUME NEW r \in Updates, Store(r)
      PROVE  TargetOK'
  <2>1. UNCHANGED <<life, user, by, targets, told, asked>>
    BY <1>6 DEF Store, connVars
  <2>2. \A q \in Updates : pc'[q] = "push" => pc[q] = "push" /\ q # r
    BY <1>0, <1>6 DEF Store, TypeOK
  <2>3. ASSUME NEW p \in Pids, NEW q \in Updates, q # r,
               notices'[p] = [value |-> q, active |-> TRUE]
        PROVE  notices[p] = [value |-> q, active |-> TRUE]
    <3>1. [value |-> q, active |-> TRUE] # [value |-> r, active |-> TRUE]
      BY <2>3
    <3>2. notices'[p] = notices[p] \/ notices'[p] = [value |-> r, active |-> TRUE]
      BY <1>0, <1>6 DEF Store, TypeOK
    <3> QED
      BY <2>3, <3>1, <3>2
  <2>4. \A q \in Updates : pc[q] = "push" => user[by[q]] \in Pids
    BY <1>0, UpdaterOf
  <2> QED
    BY <1>1, <2>1, <2>2, <2>3, <2>4
<1>7. ASSUME NEW r \in Updates, FindTargets(r)
      PROVE  TargetOK'
  <2>1. UNCHANGED <<life, user, notices, by, told, asked>>
    BY <1>7 DEF FindTargets, connVars
  <2>2. \A q \in Updates : q # r => pc'[q] = pc[q] /\ targets'[q] = targets[q]
    BY <1>0, <1>7 DEF FindTargets, TypeOK
  <2>3. targets'[r] = {q \in FriendsOf(user[by[r]]) : OpenOf(q) # {}}
    BY <1>0, <1>7 DEF FindTargets, TypeOK
  <2>4. ASSUME NEW c \in asked, life[c] = "open", user[c] \in FriendsOf(user[by[r]])
        PROVE  user[c] \in targets'[r]
    BY <1>0, <2>3, <2>4 DEF OpenOf, TypeOK
  <2> QED
    BY <1>0, <2>1, <2>2, <2>4 DEF TargetOK
<1>8. ASSUME NEW r \in Updates, Push(r)
      PROVE  TargetOK'
  <2>1. UNCHANGED <<life, user, notices, by, targets, asked>>
    BY <1>8 DEF Push, connVars
  <2>2. \A q \in Updates : pc'[q] = "push" => pc[q] = "push"
    BY <1>0, <1>8 DEF Push, TypeOK
  <2>3. \A c \in Conns : told[c] \subseteq told'[c]
    BY <1>0, <1>8 DEF Push, TypeOK
  <2> QED
    BY <1>1, <2>1, <2>2, <2>3
<1>9. ASSUME NEW c \in Conns, GetFriendNotificationData(c)
      PROVE  TargetOK'
  <2>1. UNCHANGED <<life, user, notices, pc, by, targets>> /\ asked' = asked \cup {c}
    BY <1>9 DEF GetFriendNotificationData, connVars
  <2>2. \A d \in Conns : told[d] \subseteq told'[d]
    BY <1>0, <1>9 DEF GetFriendNotificationData, TypeOK
  <2>3. ASSUME NEW r \in Updates, pc[r] = "push",
               notices[user[by[r]]] = [value |-> r, active |-> TRUE],
               user[c] \in FriendsOf(user[by[r]])
        PROVE  r \in told'[c]
    <3>1. user[by[r]] \in Pids
      BY <1>0, <2>3, UpdaterOf
    <3>2. user[by[r]] \in FriendsOf(user[c])
      BY <2>3, <3>1, FriendsBothWays
    <3>3. notices[user[by[r]]] # NoRow
      BY <2>3, ActiveNotice
    <3>4. notices[user[by[r]]].active /\ notices[user[by[r]]].value = r
      BY <2>3
    <3>5. user[by[r]] \in {q \in FriendsOf(user[c]) : notices[q] # NoRow /\ notices[q].active}
      BY <3>2, <3>3, <3>4
    <3> QED
      BY <1>0, <1>9, <3>4, <3>5 DEF GetFriendNotificationData, TypeOK
  <2> QED
    BY <1>0, <2>1, <2>2, <2>3 DEF TargetOK, TypeOK
<1>10. CASE Restart
  <2>1. \A r \in Updates : pc'[r] # "push"
    BY <1>0, <1>10 DEF Restart, TypeOK
  <2> QED
    BY <2>1 DEF TargetOK
<1>11. CASE UNCHANGED <<life, user, notices, pc, by, targets, told, asked>>
  BY <1>0, <1>11 DEF TargetOK
<1> QED
  BY <1>2, <1>3, <1>4, <1>5, <1>6, <1>7, <1>8, <1>9, <1>10, <1>11
     DEF Next, ConnectionStep, UpdateStep, connVars, Register, RegisterEx, Grow, Fill, ReplaceURL,
         ReportNATProperties
-----------------------------------------------------------------------------
(* The theorems                                                            *)

LEMMA Start == Init => IInv
<1> SUFFICES ASSUME Init
             PROVE  IInv
  OBVIOUS
<1>1. failures \in 0..MaxFailures
  BY ConnectionsAssumption DEF Init
<1>2. TypeOK
  BY <1>1 DEF Init, TypeOK
<1>3. ConnOK
  BY DEF Init, ConnOK
<1>4. NoticeOfConnected
  BY DEF Init, NoticeOfConnected
<1>5. StationOK /\ TargetOK
  BY DEF Init, StationOK, ListOK, TargetOK
<1> QED
  BY <1>2, <1>3, <1>4, <1>5 DEF IInv

LEMMA Stutter == IInv /\ UNCHANGED vars => IInv'
BY DEF IInv, vars, TypeOK, ConnOK, NoticeOfConnected, IsGone, StationOK, ListOK, Of, TargetOK

LEMMA Inductive == IInv /\ [Next]_vars => IInv'
<1>1. IInv /\ Next => IInv'
  BY TypeStep, ConnStep, NoticeStep, StationStep, TargetStep DEF IInv
<1> QED
  BY <1>1, Stutter

LEMMA Invariant == Spec => []IInv
BY Start, Inductive, PTL DEF Spec

\* Every value stays what it is declared to be, whatever is restarted, fails
\* or reconnects (TypeOK).
THEOREM TypeCorrect == Spec => []TypeOK
<1>1. IInv => TypeOK
  BY DEF IInv
<1> QED
  BY Invariant, <1>1, PTL

\* A notice is active only while its player is connected, or the callback of
\* an ended connection has yet to run; errors and late requests excepted.
THEOREM NoticesOfConnected == Spec => []NoticeOfConnected
<1>1. IInv => NoticeOfConnected
  BY DEF IInv
<1> QED
  BY Invariant, <1>1, PTL

\* What the server hands out for a player are that player's stations.
LEMMA StationsFollow == IInv => StationsAreOwners
<1> SUFFICES ASSUME IInv, NEW p \in Pids, NEW c \in Conns, user[c] \in {p, NoOne},
                    NEW list \in RequestedURLs(c, p) \cup SessionURLs(p), NEW i \in DOMAIN list
             PROVE  \/ list[i] = Blank /\ \E d \in OpenOf(p) : list = urls[d] /\ todo[d] # <<>>
                    \/ /\ list[i] # Blank /\ list[i].user = p
                       /\ \/ /\ ProbeTargets(list[i]) # {}
                             /\ ProbeTargets(list[i]) \subseteq OpenOf(p)
                          \/ \E d \in OpenOf(p) \cap rewritten : list = urls[d]
  BY DEF StationsAreOwners
<1>1. TypeOK /\ ConnOK /\ StationOK
  BY DEF IInv
<1>2. life[c] = "open" => c \in OpenOf(p)
  BY <1>1 DEF ConnOK, OpenOf
<1>3. PICK d \in OpenOf(p) : list = urls[d]
  BY <1>2 DEF RequestedURLs, SessionURLs
<1>4. d \in Conns /\ life[d] = "open" /\ user[d] = p
  BY <1>3 DEF OpenOf
<1>5. CASE Of(list[i], d)
  <2>1. CASE list[i].conn = d
    <3>1. ProbeTargets(list[i]) = {d}
      BY <1>4, <2>1 DEF ProbeTargets
    <3> QED
      BY <1>3, <1>4, <1>5, <3>1 DEF Of
  <2>2. CASE d \in rewritten
    BY <1>3, <1>4, <1>5, <2>2 DEF Of
  <2> QED
    BY <1>5, <2>1, <2>2 DEF Of
<1>6. CASE list[i] = Blank /\ todo[d] # <<>>
  BY <1>3, <1>6
<1> QED
  BY <1>1, <1>3, <1>4, <1>5, <1>6 DEF StationOK, ListOK

\* The stations that requestURLs and getSessionURLs answer name the player, and
\* a probe of one reaches the player and nobody else, in every list that the
\* player's console has not rewritten since it last reported.
THEOREM StationsOfOwners == Spec => []StationsAreOwners
BY Invariant, StationsFollow, PTL

\* An answered update has reached every friend who has asked on the only
\* connection, as long as its notice stands.
LEMMA PushReaches == ASSUME IInv, NEW r \in Updates, Push(r),
                            notices[user[by[r]]] = [value |-> r, active |-> TRUE],
                            NEW c \in asked, user[c] \in FriendsOf(user[by[r]]),
                            OpenOf(user[c]) = {c}
                     PROVE  r \in told'[c]
<1>1. TypeOK /\ TargetOK
  BY DEF IInv
<1>2. c \in Conns /\ life[c] = "open" /\ pc[r] = "push"
  BY DEF OpenOf, Push
<1>3. r \in told[c] \/ user[c] \in targets[r]
  BY <1>1, <1>2 DEF TargetOK
<1>4. PICK reached \in SUBSET Conns :
        /\ \A q \in targets[r] : OpenOf(q) # {} => Cardinality(reached \cap OpenOf(q)) = 1
        /\ told' = [d \in Conns |-> IF d \in reached THEN told[d] \cup {r} ELSE told[d]]
  BY DEF Push
<1>5. CASE user[c] \in targets[r]
  <2>1. Cardinality(reached \cap {c}) = 1
    BY <1>4, <1>5
  <2>2. c \in reached
    <3>1. SUFFICES ASSUME c \notin reached
                   PROVE  FALSE
      OBVIOUS
    <3>2. reached \cap {c} = {}
      BY <3>1
    <3> QED
      BY <2>1, <3>2, FS_EmptySet
  <2> QED
    BY <1>2, <1>4, <2>2
<1> QED
  BY <1>2, <1>3, <1>4, <1>5

THEOREM NoNoticeMissed == Spec => NoticeIsNotMissed
<1> DEFINE Missed(r) ==
      /\ notices[user[by[r]]] = [value |-> r, active |-> TRUE]
      /\ \E c \in asked : /\ user[c] \in FriendsOf(user[by[r]]) /\ OpenOf(user[c]) = {c}
                          /\ r \notin told'[c]
<1>1. ASSUME IInv, Next, NEW r \in Updates, pc[r] # "ok", pc'[r] = "ok"
      PROVE  ~Missed(r)
  <2>1. TypeOK
    BY <1>1 DEF IInv
  <2>2. Push(r)
    <3>1. ASSUME NEW c \in Conns, ConnectionStep(c)
          PROVE  pc' = pc
      BY <3>1 DEF ConnectionStep, connVars, Connect, End, Inactivate, Register, RegisterEx, Grow, Fill,
         ReplaceURL, ReportNATProperties, GetFriendNotificationData
    <3>2. ASSUME NEW q \in Updates, UpdateStep(q), ~Push(q) \/ q # r
          PROVE  pc'[r] = pc[r] \/ pc'[r] # "ok"
      BY <2>1, <3>2 DEF UpdateStep, ReceiveUpdate, Store, FindTargets, Push, TypeOK
    <3>3. Restart => pc'[r] # "ok"
      BY <1>1, <2>1 DEF Restart, TypeOK
    <3> QED
      BY <1>1, <3>1, <3>2, <3>3 DEF Next
  <2> QED
    BY <1>1, <2>2, PushReaches
<1>2. IInv /\ [Next]_vars => [\A r \in Updates : pc[r] # "ok" /\ pc'[r] = "ok" =>
        LET p == user[by[r]] IN
        notices[p] = [value |-> r, active |-> TRUE] =>
          \A c \in asked : user[c] \in FriendsOf(p) /\ OpenOf(user[c]) = {c}
                             => r \in told'[c]]_vars
  BY <1>1
<1> QED
  BY Invariant, <1>2, PTL DEF Spec, NoticeIsNotMissed
=============================================================================

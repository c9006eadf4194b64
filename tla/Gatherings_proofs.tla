-------------------------- MODULE Gatherings_proofs --------------------------
(***************************************************************************)
(* What Gatherings guarantees for all players, limits, flags and numbers   *)
(* of gatherings, proved.  An action is a set of outcomes put together     *)
(* from statements, so that the proof goes the same way: a lemma says what *)
(* every outcome of a statement is, then of a function made of statements, *)
(* then of a handler.                                                      *)
(***************************************************************************)
EXTENDS Gatherings, Lists_proofs, FiniteSetTheorems

\* A player and the guests: a list of copies of one id.
LEMMA CopiesTyped ==
  ASSUME NEW S, NEW p \in S, NEW n \in Nat \ {0}
  PROVE  /\ [i \in 1..n |-> p] \in Seq(S)
         /\ Len([i \in 1..n |-> p]) = n
         /\ ToSet([i \in 1..n |-> p]) = {p}
<1>1. [i \in 1..n |-> p] \in Seq(S) /\ Len([i \in 1..n |-> p]) = n
  OBVIOUS
<1>2. ToSet([i \in 1..n |-> p]) = {p}
  BY DEF ToSet
<1> QED
  BY <1>1, <1>2

\* Without the player the others are left, in a list that is no longer.
LEMMA WithoutFacts ==
  ASSUME NEW s \in Seq(Pids), NEW p
  PROVE  /\ Without(s, p) \in Seq(Pids)
         /\ ToSet(Without(s, p)) = ToSet(s) \ {p}
         /\ Len(Without(s, p)) <= Len(s)
<1> DEFINE S == Pids \ {p}
<1>1. /\ Only(s, S) \in Seq(Pids) /\ ToSet(Only(s, S)) = ToSet(s) \cap S
      /\ Len(Only(s, S)) <= Len(s)
  BY OnlyFacts
<1>2. ToSet(s) \cap S = ToSet(s) \ {p}
  BY ElementsTyped
<1> QED
  BY <1>1, <1>2 DEF Without
-----------------------------------------------------------------------------
(***************************************************************************)
(* Worlds and the statements that change them.                             *)
(***************************************************************************)

Worlds == [rows : [Gids -> Gathering \cup {NoRow, Gone}],
           broken : SUBSET Gids, sent : SUBSET Notification]

\* One row is written; a statement on one gathering fails.
Put(w, g, row) == [w EXCEPT !.rows[g] = row]
Break(w, g)    == [w EXCEPT !.broken = @ \cup {g}]

\* v comes of w by statements about the gathering g alone.
Moves(w, v, g) ==
  /\ v \in Worlds
  /\ w.broken \subseteq v.broken /\ w.sent \subseteq v.sent
  /\ \A h \in Gids \ {g} : v.rows[h] = w.rows[h]

Heard(v, q, event, g) == \E n \in v.sent : n.to = q /\ n.gid = g /\ n.event = event

\* All of the players qs who are connected have heard.
AllHeard(v, qs, event, g) == \A q \in qs : link[q] = "up" => Heard(v, q, event, g)

\* The fields of a world are of their types, and a row is a gathering exactly
\* when it is registered.
LEMMA WorldFields ==
  ASSUME NEW w \in Worlds
  PROVE  /\ w.rows \in [Gids -> Gathering \cup {NoRow, Gone}]
         /\ w.broken \subseteq Gids /\ w.sent \subseteq Notification
         /\ \A g \in Gids : g \in Registered(w) <=> w.rows[g] \in Gathering
         /\ Registered(w) \subseteq Gids
<1>1. w.rows \in [Gids -> Gathering \cup {NoRow, Gone}]
  BY DEF Worlds
<1>2. w.broken \subseteq Gids /\ w.sent \subseteq Notification
  BY DEF Worlds
<1>3. \A g \in Gids : w.rows[g] \in Gathering \cup {NoRow, Gone}
  BY <1>1
<1>4. NoRow \notin Gathering /\ Gone \notin Gathering
  BY GatheringsAssumption
<1> QED
  BY <1>1, <1>2, <1>3, <1>4 DEF Registered

\* The fields of a gathering are of their types.
LEMMA GatheringFields ==
  ASSUME NEW x \in Gathering
  PROVE  /\ x.type \in {"MatchmakeSession", "PersistentGathering"}
         /\ x.owner \in Pids /\ x.host \in Pids \cup {NoOne}
         /\ x.participants \in Seq(Pids) /\ x.max \in Nat
         /\ x.flags \in SUBSET Flags /\ x.open \in BOOLEAN
BY DEF Gathering

\* A row that is written is the row that is found.
LEMMA PutFacts ==
  ASSUME NEW w \in Worlds, NEW g \in Gids, NEW row \in Gathering \cup {NoRow, Gone}
  PROVE  /\ Moves(w, Put(w, g, row), g)
         /\ Put(w, g, row).rows[g] = row
         /\ Put(w, g, row).broken = w.broken
         /\ Put(w, g, row).sent = w.sent
<1> DEFINE v == Put(w, g, row)
<1>1. w.rows \in [Gids -> Gathering \cup {NoRow, Gone}]
  BY WorldFields
<1>2. v = [w EXCEPT !.rows = [w.rows EXCEPT ![g] = row]]
  BY DEF Put, Worlds
<1>3. /\ v.rows = [w.rows EXCEPT ![g] = row]
      /\ v.broken = w.broken /\ v.sent = w.sent
  BY <1>2 DEF Worlds
<1>4. [w.rows EXCEPT ![g] = row] \in [Gids -> Gathering \cup {NoRow, Gone}]
  BY <1>1
<1>5. v \in Worlds
  BY <1>2, <1>4 DEF Worlds
<1>6. v.rows[g] = row /\ \A h \in Gids \ {g} : v.rows[h] = w.rows[h]
  BY <1>1, <1>3
<1> QED
  BY <1>3, <1>5, <1>6 DEF Moves

\* A statement that fails changes no row.
LEMMA BreakFacts ==
  ASSUME NEW w \in Worlds, NEW g \in Gids
  PROVE  /\ Moves(w, Break(w, g), g)
         /\ Break(w, g).rows = w.rows
         /\ Break(w, g).broken = w.broken \cup {g}
         /\ Break(w, g).sent = w.sent
<1> DEFINE v == Break(w, g)
<1>1. v.rows = w.rows /\ v.broken = w.broken \cup {g} /\ v.sent = w.sent
  BY DEF Break, Worlds
<1>2. v \in Worlds
  BY DEF Break, Worlds
<1> QED
  BY <1>1, <1>2 DEF Moves

\* A notification changes no row, and whoever it is for has heard.
LEMMA TellFacts ==
  ASSUME NEW w \in Worlds, NEW targets \in SUBSET Pids, NEW event \in Events,
         NEW g \in Gids, NEW about \in Pids
  PROVE  /\ Moves(w, Tell(w, targets, event, g, about), g)
         /\ Tell(w, targets, event, g, about).rows = w.rows
         /\ Tell(w, targets, event, g, about).broken = w.broken
         /\ AllHeard(Tell(w, targets, event, g, about), targets, event, g)
<1> DEFINE news == {[to |-> t, event |-> event, gid |-> g, about |-> about] :
                      t \in {q \in targets : link[q] = "up"}}
           v == Tell(w, targets, event, g, about)
<1>1. v.rows = w.rows /\ v.broken = w.broken /\ v.sent = w.sent \cup news
  BY DEF Tell, Worlds
<1>2. news \subseteq Notification
  BY DEF Notification
<1>3. v \in Worlds
  BY <1>2 DEF Tell, Worlds
<1>4. ASSUME NEW q \in targets, link[q] = "up" PROVE Heard(v, q, event, g)
  <2> DEFINE n == [to |-> q, event |-> event, gid |-> g, about |-> about]
  <2>1. n \in v.sent
    BY <1>1, <1>4
  <2>2. n.to = q /\ n.gid = g /\ n.event = event
    OBVIOUS
  <2> HIDE DEF n, v
  <2> QED
    BY <2>1, <2>2 DEF Heard
<1> QED
  BY <1>1, <1>3, <1>4 DEF Moves, AllHeard

\* Statements about one gathering after one another.
LEMMA MovesTransitive ==
  ASSUME NEW u, NEW v, NEW w, NEW g, Moves(u, v, g), Moves(v, w, g)
  PROVE  Moves(u, w, g)
BY DEF Moves

LEMMA MovesReflexive ==
  ASSUME NEW w \in Worlds, NEW g
  PROVE  Moves(w, w, g)
BY DEF Moves

\* What has been heard stays heard.
LEMMA HeardStays ==
  ASSUME NEW v, NEW w, v.sent \subseteq w.sent,
         NEW qs, NEW event, NEW g, AllHeard(v, qs, event, g)
  PROVE  AllHeard(w, qs, event, g)
BY DEF AllHeard, Heard

\* An outcome that failed.
LEMMA FailedFacts ==
  ASSUME NEW w, NEW g, NEW o \in Failed(w, g)
  PROVE  o.w = Break(w, g) /\ o.res = "Unknown" /\ o = [w |-> o.w, res |-> o.res]
BY DEF Failed, Break

\* A write and its line in the tracking tables: both are done, or one of them
\* has failed.
LEMMA WriteAndLogFacts ==
  ASSUME NEW w, NEW v, NEW g, NEW o \in WriteAndLog(w, v, g)
  PROVE  /\ o = [w |-> o.w, res |-> o.res]
         /\ \/ o = Done(v) /\ o.w = v /\ o.res = "ok"
            \/ o.res = "Unknown" /\ o.w \in {Break(w, g), Break(v, g)}
<1>1. CASE o = Done(v)
  BY <1>1 DEF Done
<1>2. CASE o \in Failed(w, g)
  BY <1>2, FailedFacts
<1>3. CASE o \in Failed(v, g)
  BY <1>3, FailedFacts
<1> QED
  BY <1>1, <1>2, <1>3 DEF WriteAndLog, Write

(***************************************************************************)
(* Leaving a gathering.                                                    *)
(***************************************************************************)

\* What the invariants ask of a row.
Fit(x)   == x.max # 0 => Len(x.participants) <= x.max
Owned(x) == \/ x.flags \cap {"PersistentGathering", "PersistentGatheringAllowZeroUsers"} # {}
            \/ x.participants = <<>>
            \/ /\ x.owner \in ToSet(x.participants)
               /\ x.host \in ToSet(x.participants) \cup {NoOne}

\* A row that differs from another in owner, host and participants at most.
Same(x, row, rest) ==
  /\ x \in Gathering /\ x.participants = rest
  /\ x.type = row.type /\ x.max = row.max /\ x.flags = row.flags

\* The participants of a row are written.
LEMMA PutParticipants ==
  ASSUME NEW w \in Worlds, NEW g \in Gids, w.rows[g] \in Gathering, NEW ps \in Seq(Pids)
  PROVE  /\ [w EXCEPT !.rows[g].participants = ps]
              = Put(w, g, [w.rows[g] EXCEPT !.participants = ps])
         /\ [w.rows[g] EXCEPT !.participants = ps] \in Gathering
<1>1. [w.rows[g] EXCEPT !.participants = ps] \in Gathering
  BY DEF Gathering
<1>2. [w EXCEPT !.rows[g].participants = ps]
        = Put(w, g, [w.rows[g] EXCEPT !.participants = ps])
  BY DEF Put
<1> QED
  BY <1>1, <1>2

\* The owner of a row is written.
LEMMA PutOwner ==
  ASSUME NEW w \in Worlds, NEW g \in Gids, w.rows[g] \in Gathering, NEW q \in Pids
  PROVE  /\ [w EXCEPT !.rows[g].owner = q] = Put(w, g, [w.rows[g] EXCEPT !.owner = q])
         /\ [w.rows[g] EXCEPT !.owner = q] \in Gathering
<1>1. [w.rows[g] EXCEPT !.owner = q] \in Gathering
  BY DEF Gathering
<1>2. [w EXCEPT !.rows[g].owner = q] = Put(w, g, [w.rows[g] EXCEPT !.owner = q])
  BY DEF Put
<1> QED
  BY <1>1, <1>2

\* The owner and the host of a row are written.
LEMMA PutOwnerHost ==
  ASSUME NEW w \in Worlds, NEW g \in Gids, w.rows[g] \in Gathering, NEW q \in Pids
  PROVE  /\ [w EXCEPT !.rows[g].owner = q, !.rows[g].host = q]
              = Put(w, g, [w.rows[g] EXCEPT !.owner = q, !.host = q])
         /\ [w.rows[g] EXCEPT !.owner = q, !.host = q] \in Gathering
<1>1. [w.rows[g] EXCEPT !.owner = q, !.host = q] \in Gathering
  BY DEF Gathering
<1>2. w.rows \in [Gids -> Gathering \cup {NoRow, Gone}]
  BY WorldFields
<1>3. [w EXCEPT !.rows[g].owner = q, !.rows[g].host = q]
        = Put(w, g, [w.rows[g] EXCEPT !.owner = q, !.host = q])
  BY <1>2 DEF Put, Worlds
<1> QED
  BY <1>1, <1>3

\* UnregisterGathering: the row is gone, unless a statement has failed.
LEMMA UnregisterFacts ==
  ASSUME NEW w \in Worlds, NEW g \in Gids, w.rows[g] \in Gathering,
         NEW o \in UnregisterGathering(w, g)
  PROVE  /\ Moves(w, o.w, g) /\ o.res \in {"ok", "Unknown"}
         /\ o.w.rows[g] \in {w.rows[g], Gone}
         /\ o.res = "ok" => o.w.rows[g] = Gone
         /\ g \in o.w.broken \/ o.res = "ok"
<1> DEFINE v == Put(w, g, Gone)
<1>1. o \in WriteAndLog(w, v, g)
  BY DEF UnregisterGathering, Put
<1>2. Moves(w, v, g) /\ v.rows[g] = Gone
  BY PutFacts
<1>3. v \in Worlds
  BY <1>2 DEF Moves
<1>4. \/ o.w = v /\ o.res = "ok"
      \/ o.res = "Unknown" /\ o.w \in {Break(w, g), Break(v, g)}
  BY <1>1, WriteAndLogFacts
<1> HIDE DEF v
<1>5. /\ Moves(w, Break(w, g), g) /\ Break(w, g).rows = w.rows
      /\ Break(w, g).broken = w.broken \cup {g}
  BY BreakFacts
<1>6. /\ Moves(v, Break(v, g), g) /\ Break(v, g).rows = v.rows
      /\ Break(v, g).broken = v.broken \cup {g}
  BY <1>3, BreakFacts
<1>7. Moves(w, Break(v, g), g)
  BY <1>2, <1>6, MovesTransitive
<1> QED
  BY <1>2, <1>4, <1>5, <1>6, <1>7

\* Dissolve: the others have heard of it.
LEMMA DissolveFacts ==
  ASSUME NEW w \in Worlds, NEW g \in Gids, w.rows[g] \in Gathering, NEW p \in Pids,
         NEW targets \in SUBSET Pids, NEW o \in Dissolve(w, g, p, targets)
  PROVE  /\ Moves(w, o.w, g) /\ o.res \in {"ok", "Unknown"}
         /\ o.w.rows[g] \in {w.rows[g], Gone}
         /\ \/ g \in o.w.broken
            \/ /\ o.w.rows[g] = Gone
               /\ AllHeard(o.w, targets, "GatheringUnregistered", g)
<1>1. PICK u \in UnregisterGathering(w, g) :
        o = [u EXCEPT !.w = IF u.res = "ok"
                            THEN Tell(@, targets, "GatheringUnregistered", g, p) ELSE @]
  BY DEF Dissolve
<1>2. /\ Moves(w, u.w, g) /\ u.res \in {"ok", "Unknown"}
      /\ u.w.rows[g] \in {w.rows[g], Gone}
      /\ u.res = "ok" => u.w.rows[g] = Gone
      /\ g \in u.w.broken \/ u.res = "ok"
  BY UnregisterFacts
<1>3. u = [w |-> u.w, res |-> u.res]
  BY WriteAndLogFacts DEF UnregisterGathering
<1>4. CASE u.res = "ok"
  <2> DEFINE t == Tell(u.w, targets, "GatheringUnregistered", g, p)
  <2>1. o.w = t /\ o.res = "ok"
    BY <1>1, <1>3, <1>4
  <2>2. u.w \in Worlds
    BY <1>2 DEF Moves
  <2>3. "GatheringUnregistered" \in Events
    BY DEF Events
  <2>4. Moves(u.w, t, g) /\ t.rows = u.w.rows
        /\ AllHeard(t, targets, "GatheringUnregistered", g)
    BY <2>2, <2>3, TellFacts
  <2> HIDE DEF t
  <2>5. Moves(w, t, g)
    BY <1>2, <2>4, MovesTransitive
  <2> QED
    BY <1>2, <1>4, <2>1, <2>4, <2>5
<1>5. CASE u.res # "ok"
  <2>1. o.w = u.w /\ o.res = u.res
    BY <1>1, <1>3, <1>5
  <2> QED
    BY <1>2, <1>5, <2>1
<1> QED
  BY <1>4, <1>5

\* MigrateGatheringOwnership: the first of those who are left is the owner,
\* the host is the same, and they have heard of it.
LEMMA MigrateFacts ==
  ASSUME NEW w \in Worlds, NEW g \in Gids, NEW p \in Pids, NEW row \in Gathering,
         NEW rest \in Seq(Pids), rest # <<>>, Same(w.rows[g], row, rest),
         NEW o \in MigrateGatheringOwnership(w, g, p, rest)
  PROVE  /\ Moves(w, o.w, g) /\ o.res \in {"ok", "Unknown"}
         /\ Same(o.w.rows[g], row, rest)
         /\ o.w.rows[g].host = w.rows[g].host
         /\ \/ g \in o.w.broken /\ o.res = "Unknown"
            \/ /\ o.res = "ok" /\ o.w.rows[g].owner = Head(rest)
               /\ AllHeard(o.w, ToSet(rest), "OwnershipChanged", g)
<1> DEFINE x == [w.rows[g] EXCEPT !.owner = Head(rest)]
           v == Put(w, g, x)
           T(u) == Tell(u, ToSet(rest), "OwnershipChanged", g, p)
<1>1. PICK u \in WriteAndLog(w, [w EXCEPT !.rows[g].owner = Head(rest)], g) :
        o = [u EXCEPT !.w = IF u.res = "ok" THEN T(@) ELSE @]
  BY DEF MigrateGatheringOwnership
<1>2. u = [w |-> u.w, res |-> u.res]
  BY <1>1, WriteAndLogFacts
<1>3. Head(rest) \in Pids /\ w.rows[g] \in Gathering
  BY DEF Same
<1>4. [w EXCEPT !.rows[g].owner = Head(rest)] = v /\ x \in Gathering
  BY <1>3, PutOwner
<1>5. Same(x, row, rest) /\ x.owner = Head(rest) /\ x.host = w.rows[g].host
  BY <1>4 DEF Same, Gathering
<1> HIDE DEF x
<1>6. Moves(w, v, g) /\ v.rows[g] = x
  BY <1>4, PutFacts
<1>7. v \in Worlds
  BY <1>6 DEF Moves
<1>8. \/ u.w = v /\ u.res = "ok"
      \/ u.res = "Unknown" /\ u.w \in {Break(w, g), Break(v, g)}
  BY <1>1, <1>4, WriteAndLogFacts
<1>9. CASE u.res = "ok"
  <2>1. o.w = T(v) /\ o.res = "ok"
    BY <1>1, <1>2, <1>8, <1>9
  <2>2. ToSet(rest) \in SUBSET Pids /\ "OwnershipChanged" \in Events
    BY ElementsTyped DEF Events
  <2> HIDE DEF v
  <2>3. Moves(v, T(v), g) /\ T(v).rows = v.rows
        /\ AllHeard(T(v), ToSet(rest), "OwnershipChanged", g)
    BY <1>7, <2>2, TellFacts
  <2> HIDE DEF T
  <2>4. Moves(w, T(v), g)
    BY <1>6, <2>3, MovesTransitive
  <2> QED
    BY <1>5, <1>6, <2>1, <2>3, <2>4
<1>10. CASE u.res # "ok"
  <2>1. o.w = u.w /\ o.res = "Unknown" /\ u.w \in {Break(w, g), Break(v, g)}
    BY <1>1, <1>2, <1>8, <1>10
  <2> HIDE DEF v
  <2>2. /\ Moves(w, Break(w, g), g) /\ Break(w, g).rows = w.rows
        /\ Break(w, g).broken = w.broken \cup {g}
    BY BreakFacts
  <2>3. /\ Moves(v, Break(v, g), g) /\ Break(v, g).rows = v.rows
        /\ Break(v, g).broken = v.broken \cup {g}
    BY <1>7, BreakFacts
  <2>4. Moves(w, Break(v, g), g)
    BY <1>6, <2>3, MovesTransitive
  <2> QED
    BY <1>5, <1>6, <2>1, <2>2, <2>3, <2>4
<1> QED
  BY <1>9, <1>10

\* ReplaceHost: a host who leaves is followed by the owner, unless a statement
\* has failed.
LEMMA ReplaceHostFacts ==
  ASSUME NEW w \in Worlds, NEW g \in Gids, NEW p \in Pids, NEW row \in Gathering,
         NEW rest \in Seq(Pids), NEW how, NEW owner \in Pids \cup {NoOne},
         Same(w.rows[g], row, rest),
         NEW o \in ReplaceHost(w, g, p, row, rest, how, owner)
  PROVE  /\ Moves(w, o.w, g) /\ o.res \in {"ok", "Unknown"}
         /\ Same(o.w.rows[g], row, rest)
         /\ \/ g \in o.w.broken
            \/ o.w = w /\ (p # row.host \/ owner = NoOne)
            \/ /\ p = row.host /\ owner # NoOne
               /\ o.w.rows[g].owner = owner /\ o.w.rows[g].host = owner
<1> DEFINE w2 == [w EXCEPT !.rows[g].owner = owner, !.rows[g].host = owner]
           targets == ToSet(IF how = "Ended" THEN row.participants ELSE rest)
           told == Tell(w2, targets, "HostChanged", g, p)
<1>1. CASE p # row.host \/ owner = NoOne
  <2>1. o = Done(w)
    BY <1>1 DEF ReplaceHost
  <2>2. o.w = w /\ o.res = "ok"
    BY <2>1 DEF Done
  <2> QED
    BY <1>1, <2>2, MovesReflexive
<1>2. CASE p = row.host /\ owner # NoOne
  <2>1. \/ o = Done(told)
        \/ \E f \in Failed(w, g) : o = f \/ o = Done(f.w)
        \/ o \in Failed(told, g)
    BY <1>2 DEF ReplaceHost
  <2> DEFINE x == [w.rows[g] EXCEPT !.owner = owner, !.host = owner]
  <2>2. owner \in Pids /\ w.rows[g] \in Gathering
    BY <1>2 DEF Same
  <2>3. w2 = Put(w, g, x) /\ x \in Gathering
    BY <2>2, PutOwnerHost
  <2>4. Same(x, row, rest) /\ x.owner = owner /\ x.host = owner
    BY <2>2, <2>3 DEF Same, Gathering
  <2> HIDE DEF x, w2
  <2>5. Moves(w, w2, g) /\ w2.rows[g] = x
    BY <2>3, PutFacts
  <2>6. w2 \in Worlds
    BY <2>5 DEF Moves
  <2>7. targets \in SUBSET Pids /\ "HostChanged" \in Events
    <3>1. row.participants \in Seq(Pids)
      BY GatheringFields
    <3> QED
      BY <3>1, ElementsTyped DEF Events
  <2> HIDE DEF targets
  <2>8. Moves(w2, told, g) /\ told.rows = w2.rows
    BY <2>6, <2>7, TellFacts
  <2> HIDE DEF told
  <2>9. Moves(w, told, g) /\ told \in Worlds
    BY <2>5, <2>8, MovesTransitive DEF Moves
  <2>10. CASE o = Done(told)
    <3>1. o.w = told /\ o.res = "ok"
      BY <2>10 DEF Done
    <3> QED
      BY <1>2, <2>4, <2>5, <2>8, <2>9, <3>1
  <2>11. CASE \E f \in Failed(w, g) : o = f \/ o = Done(f.w)
    <3>1. o.w = Break(w, g) /\ o.res \in {"ok", "Unknown"}
      BY <2>11, FailedFacts DEF Done
    <3>2. /\ Moves(w, Break(w, g), g) /\ Break(w, g).rows = w.rows
          /\ Break(w, g).broken = w.broken \cup {g}
      BY BreakFacts
    <3> QED
      BY <3>1, <3>2
  <2>12. CASE o \in Failed(told, g)
    <3>1. o.w = Break(told, g) /\ o.res = "Unknown"
      BY <2>12, FailedFacts
    <3>2. /\ Moves(told, Break(told, g), g) /\ Break(told, g).rows = told.rows
          /\ Break(told, g).broken = told.broken \cup {g}
      BY <2>9, BreakFacts
    <3>3. Moves(w, Break(told, g), g)
      BY <2>9, <3>2, MovesTransitive
    <3> QED
      BY <2>4, <2>5, <2>8, <3>1, <3>2, <3>3
  <2> QED
    BY <2>1, <2>10, <2>11, <2>12
<1> QED
  BY <1>1, <1>2

\* TellLeft changes no row.
LEMMA TellLeftFacts ==
  ASSUME NEW w \in Worlds, NEW g \in Gids, NEW p \in Pids, NEW row \in Gathering,
         NEW rest \in Seq(Pids), NEW how \in {"Ended", "Disconnected"}
  PROVE  /\ Moves(w, TellLeft(w, g, p, row, rest, how), g)
         /\ TellLeft(w, g, p, row, rest, how).rows = w.rows
<1> DEFINE targets == IF ~Verbose(row) THEN {row.owner}
                      ELSE ToSet(IF how = "Ended" THEN row.participants ELSE rest)
<1>1. row.participants \in Seq(Pids) /\ row.owner \in Pids
  BY GatheringFields
<1>2. targets \in SUBSET Pids /\ how \in Events
  BY <1>1, ElementsTyped DEF Events
<1>3. TellLeft(w, g, p, row, rest, how) = Tell(w, targets, how, g, p)
  BY DEF TellLeft
<1> HIDE DEF targets
<1> QED
  BY <1>2, <1>3, TellFacts

\* How a gathering may be when a player has left it and rest are left of the
\* row: at a statement that failed it is gone or has lost the player at least;
\* if none has, either it is gone, or it still has its owner and its host, and
\* in each case the others have heard.
Ends(row, rest, v, g) ==
  \/ g \in v.broken /\ (v.rows[g] = Gone \/ Same(v.rows[g], row, rest))
  \/ v.rows[g] = Gone /\ AllHeard(v, ToSet(rest), "GatheringUnregistered", g)
  \/ /\ Same(v.rows[g], row, rest)
     /\ Owned(row) => Owned(v.rows[g])
     /\ v.rows[g].owner # row.owner => AllHeard(v, ToSet(rest), "OwnershipChanged", g)

\* The new owner and the new host of a gathering that goes on without one of its
\* participants are among those who are left.
LEMMA SuccessorsOwn ==
  ASSUME NEW row \in Gathering, NEW p \in ToSet(row.participants),
         NEW rest \in Seq(Pids), rest = Without(row.participants, p), rest # <<>>,
         NEW owner \in Pids, owner = IF p = row.owner THEN Head(rest) ELSE row.owner,
         NEW x \in Gathering, Same(x, row, rest), x.owner = owner,
         x.host = IF p = row.host THEN owner ELSE row.host
  PROVE  Owned(row) => Owned(x)
<1> SUFFICES ASSUME Owned(row)
             PROVE  Owned(x)
  OBVIOUS
<1>1. row.participants \in Seq(Pids)
  BY GatheringFields
<1>2. rest \in Seq(Pids) /\ ToSet(rest) = ToSet(row.participants) \ {p}
  BY <1>1, WithoutFacts
<1>3. Head(rest) \in ToSet(rest)
  BY <1>2, HeadIsElement
<1>4. row.participants # <<>>
  BY DEF ToSet
<1>5. x.participants = rest /\ x.flags = row.flags
  BY DEF Same
<1>6. CASE row.flags \cap {"PersistentGathering", "PersistentGatheringAllowZeroUsers"} # {}
  BY <1>5, <1>6 DEF Owned
<1>7. CASE /\ row.owner \in ToSet(row.participants)
           /\ row.host \in ToSet(row.participants) \cup {NoOne}
  <2>1. owner \in ToSet(rest)
    BY <1>2, <1>3, <1>7
  <2>2. x.host \in ToSet(rest) \cup {NoOne}
    BY <1>2, <1>7, <2>1
  <2> QED
    BY <1>5, <2>1, <2>2 DEF Owned
<1> QED
  BY <1>4, <1>6, <1>7 DEF Owned

\* AfterRemoval of the last participant, and of an owner with whom the
\* gathering ends.
LEMMA GatheringEnds ==
  ASSUME NEW w \in Worlds, NEW g \in Gids, NEW p \in Pids, NEW row \in Gathering,
         NEW rest \in Seq(Pids), Same(w.rows[g], row, rest), NEW o,
         \/ rest = <<>> /\ o \in UnregisterGathering(w, g)
         \/ o \in Dissolve(w, g, p, ToSet(rest))
  PROVE  /\ Moves(w, o.w, g) /\ o.res \in {"ok", "Unknown"}
         /\ Ends(row, rest, o.w, g)
<1>1. w.rows[g] \in Gathering
  BY DEF Same
<1>2. CASE rest = <<>> /\ o \in UnregisterGathering(w, g)
  <2>1. /\ Moves(w, o.w, g) /\ o.res \in {"ok", "Unknown"}
        /\ o.w.rows[g] \in {w.rows[g], Gone}
        /\ o.res = "ok" => o.w.rows[g] = Gone
        /\ g \in o.w.broken \/ o.res = "ok"
    BY <1>1, <1>2, UnregisterFacts
  <2>2. AllHeard(o.w, ToSet(rest), "GatheringUnregistered", g)
    BY <1>2 DEF AllHeard, ToSet
  <2> QED
    BY <2>1, <2>2 DEF Ends
<1>3. CASE o \in Dissolve(w, g, p, ToSet(rest))
  <2>1. ToSet(rest) \in SUBSET Pids
    BY ElementsTyped
  <2>2. /\ Moves(w, o.w, g) /\ o.res \in {"ok", "Unknown"}
        /\ o.w.rows[g] \in {w.rows[g], Gone}
        /\ \/ g \in o.w.broken
           \/ /\ o.w.rows[g] = Gone
              /\ AllHeard(o.w, ToSet(rest), "GatheringUnregistered", g)
    BY <1>1, <1>3, <2>1, DissolveFacts
  <2> QED
    BY <2>2 DEF Ends
<1> QED
  BY <1>2, <1>3

\* The owner of a gathering that goes on.
LEMMA SuccessorFacts ==
  ASSUME NEW w \in Worlds, NEW g \in Gids, NEW row \in Gathering, NEW p \in Pids,
         NEW rest \in Seq(Pids), rest # <<>>, Same(w.rows[g], row, rest),
         w.rows[g].owner = row.owner, w.rows[g].host = row.host,
         NEW m \in IF p = row.owner THEN MigrateGatheringOwnership(w, g, p, rest)
                   ELSE {Done(w)},
         NEW owner, owner = IF p = row.owner THEN Head(rest) ELSE row.owner
  PROVE  /\ Moves(w, m.w, g) /\ m.res \in {"ok", "Unknown"}
         /\ Same(m.w.rows[g], row, rest) /\ m.w.rows[g].host = row.host
         /\ \/ g \in m.w.broken /\ m.res = "Unknown"
            \/ /\ m.res = "ok" /\ m.w.rows[g].owner = owner
               /\ owner # row.owner => AllHeard(m.w, ToSet(rest), "OwnershipChanged", g)
<1>1. CASE p = row.owner
  <2>1. m \in MigrateGatheringOwnership(w, g, p, rest) /\ owner = Head(rest)
    BY <1>1
  <2>2. /\ Moves(w, m.w, g) /\ m.res \in {"ok", "Unknown"}
        /\ Same(m.w.rows[g], row, rest)
        /\ m.w.rows[g].host = w.rows[g].host
        /\ \/ g \in m.w.broken /\ m.res = "Unknown"
           \/ /\ m.res = "ok" /\ m.w.rows[g].owner = Head(rest)
              /\ AllHeard(m.w, ToSet(rest), "OwnershipChanged", g)
    BY <2>1, MigrateFacts
  <2> QED
    BY <2>1, <2>2
<1>2. CASE p # row.owner
  <2>1. m.w = w /\ m.res = "ok" /\ owner = row.owner
    BY <1>2 DEF Done
  <2> QED
    BY <2>1, MovesReflexive
<1> QED
  BY <1>1, <1>2

\* AfterRemoval in a gathering that goes on: a new owner where the owner has
\* left, a new host where the host has.
LEMMA GatheringGoesOn ==
  ASSUME NEW w \in Worlds, NEW g \in Gids, NEW row \in Gathering,
         NEW p \in ToSet(row.participants), NEW rest,
         rest = Without(row.participants, p), rest # <<>>,
         Same(w.rows[g], row, rest),
         w.rows[g].owner = row.owner, w.rows[g].host = row.host,
         NEW how \in {"Ended", "Disconnected"},
         NEW owner, owner = IF p = row.owner THEN Head(rest) ELSE row.owner,
         NEW m \in IF p = row.owner THEN MigrateGatheringOwnership(w, g, p, rest)
                   ELSE {Done(w)},
         NEW h \in IF m.res # "ok" /\ how = "Ended" THEN {m}
                   ELSE ReplaceHost(m.w, g, p, row, rest, how,
                          IF m.res # "ok" THEN NoOne ELSE owner)
  PROVE  /\ Moves(w, h.w, g) /\ h.res \in {"ok", "Unknown"}
         /\ Ends(row, rest, h.w, g)
<1>1. row.participants \in Seq(Pids) /\ row.owner \in Pids /\ row.host \in Pids \cup {NoOne}
  BY GatheringFields
<1>2. rest \in Seq(Pids) /\ p \in Pids
  BY <1>1, WithoutFacts, ElementsTyped
<1>4. owner \in Pids
  BY <1>1, <1>2
<1>5. /\ Moves(w, m.w, g) /\ m.res \in {"ok", "Unknown"}
      /\ Same(m.w.rows[g], row, rest) /\ m.w.rows[g].host = row.host
      /\ \/ g \in m.w.broken /\ m.res = "Unknown"
         \/ /\ m.res = "ok" /\ m.w.rows[g].owner = owner
            /\ owner # row.owner => AllHeard(m.w, ToSet(rest), "OwnershipChanged", g)
  BY <1>2, SuccessorFacts
<1>6. m.w \in Worlds
  BY <1>5 DEF Moves
<1>7. CASE m.res # "ok" /\ how = "Ended"
  <2>1. h = m
    BY <1>7
  <2> QED
    BY <1>5, <1>7, <2>1 DEF Ends
<1>8. CASE m.res # "ok" /\ how # "Ended"
  <2>1. h \in ReplaceHost(m.w, g, p, row, rest, how, NoOne)
    BY <1>8
  <2>2. /\ Moves(m.w, h.w, g) /\ h.res \in {"ok", "Unknown"}
        /\ Same(h.w.rows[g], row, rest)
    BY <1>2, <1>5, <1>6, <2>1, ReplaceHostFacts
  <2>3. g \in h.w.broken
    BY <1>5, <1>8, <2>2 DEF Moves
  <2> QED
    BY <1>5, <2>2, <2>3, MovesTransitive DEF Ends
<1>9. CASE m.res = "ok"
  <2>1. h \in ReplaceHost(m.w, g, p, row, rest, how, owner)
    BY <1>9
  <2>2. /\ Moves(m.w, h.w, g) /\ h.res \in {"ok", "Unknown"}
        /\ Same(h.w.rows[g], row, rest)
        /\ \/ g \in h.w.broken
           \/ h.w = m.w /\ (p # row.host \/ owner = NoOne)
           \/ /\ p = row.host /\ owner # NoOne
              /\ h.w.rows[g].owner = owner /\ h.w.rows[g].host = owner
    BY <1>2, <1>4, <1>5, <1>6, <2>1, ReplaceHostFacts
  <2>3. Moves(w, h.w, g)
    BY <1>5, <2>2, MovesTransitive
  <2>4. CASE g \in h.w.broken
    BY <2>2, <2>3, <2>4 DEF Ends
  <2>5. CASE g \notin h.w.broken
    <3>1. owner # NoOne
      BY <1>4, GatheringsAssumption
    <3>2. /\ h.w.rows[g].owner = owner
          /\ h.w.rows[g].host = IF p = row.host THEN owner ELSE row.host
      BY <1>5, <1>9, <2>2, <2>5, <3>1
    <3>3. Owned(row) => Owned(h.w.rows[g])
      <4> DEFINE x == h.w.rows[g]
      <4>1. /\ Same(x, row, rest) /\ x.owner = owner
            /\ x.host = IF p = row.host THEN owner ELSE row.host
        BY <2>2, <3>2
      <4>2. x \in Gathering
        BY <4>1 DEF Same
      <4>3. Owned(row) => Owned(x)
        <5> HIDE DEF x
        <5> QED
          BY <1>2, <1>4, <4>1, <4>2, SuccessorsOwn
      <4> QED
        BY <4>3
    <3>4. m.w.sent \subseteq h.w.sent
      BY <2>2 DEF Moves
    <3>5. owner # row.owner => AllHeard(h.w, ToSet(rest), "OwnershipChanged", g)
      BY <1>5, <1>9, <3>4, HeardStays
    <3> QED
      BY <2>2, <2>3, <3>2, <3>3, <3>5 DEF Ends
  <2> QED
    BY <2>4, <2>5
<1> QED
  BY <1>5, <1>7, <1>8, <1>9

\* AfterRemoval: every outcome ends the participation of the player as Ends says.
LEMMA AfterRemovalFacts ==
  ASSUME NEW w \in Worlds, NEW g \in Gids, NEW row \in Gathering,
         NEW p \in ToSet(row.participants), NEW rest \in Seq(Pids),
         rest = Without(row.participants, p),
         Same(w.rows[g], row, rest),
         w.rows[g].owner = row.owner, w.rows[g].host = row.host,
         NEW how \in {"Ended", "Disconnected"},
         NEW o \in AfterRemoval(w, g, p, row, rest, how)
  PROVE  /\ Moves(w, o.w, g) /\ o.res \in {"ok", "Unknown"}
         /\ Ends(row, rest, o.w, g)
<1> DEFINE stays == row.flags \cap
             {"PersistentGathering", "PersistentGatheringAllowZeroUsers"} # {}
           owner == IF p = row.owner THEN Head(rest) ELSE row.owner
<1>1. p \in Pids
  <2>1. row.participants \in Seq(Pids)
    BY GatheringFields
  <2> QED
    BY <2>1, ElementsTyped
<1>2. CASE stays
  <2>1. o = Done(w)
    BY <1>2 DEF AfterRemoval
  <2>2. o.w = w /\ o.res = "ok"
    BY <2>1 DEF Done
  <2>3. Owned(w.rows[g])
    BY <1>2 DEF Owned, Same
  <2> QED
    BY <2>2, <2>3, MovesReflexive DEF Ends
<1>3. CASE ~stays /\ (rest = <<>> \/ (p = row.owner /\ "DisconnectChangeOwner" \notin row.flags))
  <2>1. \/ rest = <<>> /\ o \in UnregisterGathering(w, g)
        \/ o \in Dissolve(w, g, p, ToSet(rest))
    BY <1>3 DEF AfterRemoval
  <2> QED
    BY <1>1, <2>1, GatheringEnds
<1>4. CASE ~stays /\ rest # <<>> /\ ~(p = row.owner /\ "DisconnectChangeOwner" \notin row.flags)
  <2>1. PICK m \in (IF p = row.owner THEN MigrateGatheringOwnership(w, g, p, rest)
                    ELSE {Done(w)}) :
          \E h \in (IF m.res # "ok" /\ how = "Ended" THEN {m}
                    ELSE ReplaceHost(m.w, g, p, row, rest, how,
                           IF m.res # "ok" THEN NoOne ELSE owner)) :
            o = IF h.res = "ok" THEN Done(TellLeft(h.w, g, p, row, rest, how)) ELSE h
    BY <1>4 DEF AfterRemoval
  <2>2. PICK h \in (IF m.res # "ok" /\ how = "Ended" THEN {m}
                    ELSE ReplaceHost(m.w, g, p, row, rest, how,
                           IF m.res # "ok" THEN NoOne ELSE owner)) :
          o = IF h.res = "ok" THEN Done(TellLeft(h.w, g, p, row, rest, how)) ELSE h
    BY <2>1
  <2>3. /\ Moves(w, h.w, g) /\ h.res \in {"ok", "Unknown"}
        /\ Ends(row, rest, h.w, g)
    BY <1>4, <2>1, <2>2, GatheringGoesOn
  <2> DEFINE t == TellLeft(h.w, g, p, row, rest, how)
  <2>4. h.w \in Worlds
    BY <2>3 DEF Moves
  <2>5. Moves(h.w, t, g) /\ t.rows = h.w.rows
    BY <1>1, <2>4, TellLeftFacts
  <2> HIDE DEF t
  <2>6. Moves(w, t, g) /\ h.w.broken \subseteq t.broken /\ h.w.sent \subseteq t.sent
    BY <2>3, <2>5, MovesTransitive DEF Moves
  <2>7. Ends(row, rest, t, g)
    BY <2>3, <2>5, <2>6, HeardStays DEF Ends
  <2>8. CASE h.res = "ok"
    <3>1. o.w = t /\ o.res = "ok"
      BY <2>2, <2>8 DEF Done, t
    <3> QED
      BY <2>6, <2>7, <3>1
  <2>9. CASE h.res # "ok"
    BY <2>2, <2>3, <2>9
  <2> QED
    BY <2>8, <2>9
<1> QED
  BY <1>2, <1>3, <1>4

\* What a player who leaves the gathering g does to it in all: as Ends says,
\* unless the first statement failed and the row is as it was.
Leaves(w, v, g, p) ==
  LET row  == w.rows[g]
      rest == Without(row.participants, p)
  IN \/ Ends(row, rest, v, g)
     \/ g \in v.broken /\ v.rows[g] = row

\* Leave: every outcome is about the gathering alone and leaves it so.
LEMMA LeaveFacts ==
  ASSUME NEW w \in Worlds, NEW g \in Registered(w), NEW p \in Participants(w, g),
         NEW how \in {"Ended", "Disconnected"}, NEW o \in Leave(w, g, p, how)
  PROVE  /\ Moves(w, o.w, g) /\ o.res \in {"ok", "Unknown"}
         /\ Leaves(w, o.w, g, p)
<1> DEFINE row  == w.rows[g]
           rest == Without(row.participants, p)
           x == [row EXCEPT !.participants = rest]
           v == Put(w, g, x)
<1>1. g \in Gids /\ row \in Gathering /\ p \in ToSet(row.participants)
  BY WorldFields DEF Participants
<1>2. row.participants \in Seq(Pids)
  BY <1>1, GatheringFields
<1>3. rest \in Seq(Pids)
  BY <1>2, WithoutFacts
<1>4. PICK u \in WriteAndLog(w, [w EXCEPT !.rows[g].participants = rest], g) :
        o \in IF u.res = "ok" THEN AfterRemoval(u.w, g, p, row, rest, how) ELSE {u}
  BY DEF Leave
<1> HIDE DEF rest
<1>5. [w EXCEPT !.rows[g].participants = rest] = v /\ x \in Gathering
  BY <1>1, <1>3, PutParticipants
<1>6. Same(x, row, rest) /\ x.owner = row.owner /\ x.host = row.host
  BY <1>1, <1>5 DEF Same, Gathering
<1> HIDE DEF x
<1>7. Moves(w, v, g) /\ v.rows[g] = x
  BY <1>1, <1>5, PutFacts
<1>8. v \in Worlds
  BY <1>7 DEF Moves
<1> HIDE DEF v
<1>9. \/ u.w = v /\ u.res = "ok"
      \/ u.res = "Unknown" /\ u.w \in {Break(w, g), Break(v, g)}
  BY <1>4, <1>5, WriteAndLogFacts
<1>10. CASE u.res = "ok"
  <2>1. o \in AfterRemoval(v, g, p, row, rest, how)
    BY <1>4, <1>9, <1>10
  <2>2. rest = Without(row.participants, p)
    BY DEF rest
  <2>3. Same(v.rows[g], row, rest) /\ v.rows[g].owner = row.owner
        /\ v.rows[g].host = row.host
    BY <1>6, <1>7
  <2>4. /\ Moves(v, o.w, g) /\ o.res \in {"ok", "Unknown"}
        /\ Ends(row, rest, o.w, g)
    BY <1>1, <1>3, <1>8, <2>1, <2>2, <2>3, AfterRemovalFacts
  <2>5. Moves(w, o.w, g)
    BY <1>7, <2>4, MovesTransitive
  <2> QED
    BY <2>2, <2>4, <2>5 DEF Leaves
<1>11. CASE u.res # "ok"
  <2>1. o = u /\ o.res = "Unknown" /\ o.w \in {Break(w, g), Break(v, g)}
    BY <1>4, <1>9, <1>11
  <2>2. /\ Moves(w, Break(w, g), g) /\ Break(w, g).rows = w.rows
        /\ Break(w, g).broken = w.broken \cup {g}
    BY <1>1, BreakFacts
  <2>3. /\ Moves(v, Break(v, g), g) /\ Break(v, g).rows = v.rows
        /\ Break(v, g).broken = v.broken \cup {g}
    BY <1>1, <1>8, BreakFacts
  <2>4. Moves(w, Break(v, g), g)
    BY <1>7, <2>3, MovesTransitive
  <2>5. CASE o.w = Break(w, g)
    BY <2>1, <2>2, <2>5 DEF Leaves
  <2>6. CASE o.w = Break(v, g)
    <3>1. Ends(row, rest, o.w, g)
      BY <1>6, <1>7, <2>3, <2>6 DEF Ends
    <3> QED
      BY <2>1, <2>4, <2>6, <3>1 DEF Leaves, rest
  <2> QED
    BY <2>1, <2>5, <2>6
<1> QED
  BY <1>10, <1>11

(***************************************************************************)
(* Leaving several gatherings.                                             *)
(***************************************************************************)

\* The function that LeaveEach computes.
Left(w, p, gids, how) == CHOOSE left : left =
  [n \in 0..MaxGid |->
     IF n = 0 THEN {w}
     ELSE UNION {IF n \in gids THEN {o.w : o \in Leave(v, n, p, how)} ELSE {v} :
                   v \in left[n - 1]}]

\* It exists: it is built one gathering at a time.
LEMMA LeftExists ==
  ASSUME NEW w, NEW p, NEW gids, NEW how
  PROVE  Left(w, p, gids, how) =
           [n \in 0..MaxGid |->
              IF n = 0 THEN {w}
              ELSE UNION {IF n \in gids THEN {o.w : o \in Leave(v, n, p, how)} ELSE {v} :
                            v \in Left(w, p, gids, how)[n - 1]}]
<1> DEFINE Next1(n, V) ==
             UNION {IF n \in gids THEN {o.w : o \in Leave(v, n, p, how)} ELSE {v} : v \in V}
           IsLeft(f, k) == f = [n \in 0..k |-> IF n = 0 THEN {w} ELSE Next1(n, f[n - 1])]
           T == {k \in 0..MaxGid : \E f : IsLeft(f, k)}
<1>0. MaxGid \in Nat
  BY GatheringsAssumption
<1> HIDE DEF Next1
<1>1. 0 \in T
  <2>1. IsLeft([n \in 0..0 |-> {w}], 0)
    OBVIOUS
  <2>2. 0 \in 0..MaxGid
    BY <1>0
  <2> HIDE DEF IsLeft
  <2> QED
    BY <2>1, <2>2
<1>2. ASSUME NEW k \in 0..MaxGid, k # 0, k - 1 \in T PROVE k \in T
  <2>1. PICK f : IsLeft(f, k - 1)
    BY <1>2
  <2> DEFINE g == [n \in 0..k |-> IF n < k THEN f[n] ELSE Next1(k, f[k - 1])]
  <2>2. ASSUME NEW n \in 0..k
        PROVE  g[n] = IF n = 0 THEN {w} ELSE Next1(n, g[n - 1])
    <3>1. CASE n = 0
      <4>1. g[0] = f[0] /\ 0 \in 0..(k - 1)
        BY <1>0, <1>2
      <4>2. f[0] = {w}
        BY <2>1, <4>1
      <4> QED
        BY <3>1, <4>1, <4>2
    <3>2. CASE n # 0 /\ n < k
      <4>1. n \in 0..(k - 1) /\ g[n] = f[n] /\ g[n - 1] = f[n - 1]
        BY <1>0, <3>2
      <4>2. f[n] = Next1(n, f[n - 1])
        BY <2>1, <3>2, <4>1
      <4> QED
        BY <3>2, <4>1, <4>2
    <3>3. CASE n = k
      <4>1. g[k - 1] = f[k - 1] /\ k # 0
        BY <1>0, <1>2
      <4> QED
        BY <3>3, <4>1
    <3> QED
      BY <1>0, <3>1, <3>2, <3>3
  <2>3. IsLeft(g, k)
    <3> HIDE DEF g
    <3>1. g = [n \in 0..k |-> g[n]]
      BY DEF g
    <3> QED
      BY <2>2, <3>1
  <2> HIDE DEF IsLeft, g
  <2> QED
    BY <2>3
<1>3. MaxGid \in T
  <2>1. MaxGid \in 0..MaxGid
    BY <1>0
  <2> HIDE DEF T
  <2>2. 0..MaxGid \subseteq T
    BY <1>0, <1>1, <1>2, BoundedInduction
  <2> QED
    BY <2>1, <2>2
<1>4. PICK f : IsLeft(f, MaxGid)
  BY <1>3
<1> QED
  BY <1>4 DEF Left, Next1

\* The player has left the gatherings gids, and the others are as they were.
HasLeft(w, v, p, gids) ==
  /\ v \in Worlds /\ w.broken \subseteq v.broken /\ w.sent \subseteq v.sent
  /\ \A g \in Gids : IF g \in gids THEN Leaves(w, v, g, p) ELSE v.rows[g] = w.rows[g]

\* Statements about other gatherings change nothing about one that was left.
LEMMA LeavesStays ==
  ASSUME NEW w, NEW v, NEW u, NEW g, NEW p, Leaves(w, v, g, p),
         u.rows[g] = v.rows[g], v.broken \subseteq u.broken, v.sent \subseteq u.sent
  PROVE  Leaves(w, u, g, p)
<1> DEFINE row  == w.rows[g]
           rest == Without(row.participants, p)
<1>1. Ends(row, rest, v, g) \/ (g \in v.broken /\ v.rows[g] = row)
  BY DEF Leaves
<1>2. Ends(row, rest, v, g) => Ends(row, rest, u, g)
  <2> HIDE DEF row, rest
  <2> QED
    BY HeardStays DEF Ends
<1> QED
  BY <1>1, <1>2 DEF Leaves

\* LeaveEach: the player leaves all of the gatherings.
LEMMA LeaveEachFacts ==
  ASSUME NEW w \in Worlds, NEW p \in Pids, NEW gids \in SUBSET Registered(w),
         \A g \in gids : p \in Participants(w, g),
         NEW how \in {"Ended", "Disconnected"},
         NEW v \in LeaveEach(w, p, gids, how)
  PROVE  HasLeft(w, v, p, gids)
<1> DEFINE Next1(n, V) ==
             UNION {IF n \in gids THEN {o.w : o \in Leave(t, n, p, how)} ELSE {t} : t \in V}
           f == Left(w, p, gids, how)
           T == {n \in 0..MaxGid :
                   \A u \in f[n] : HasLeft(w, u, p, {g \in gids : g <= n})}
<1>0. MaxGid \in Nat /\ gids \subseteq Gids
  BY GatheringsAssumption, WorldFields
<1>0a. \A g \in gids : g \in Nat /\ 1 <= g /\ g <= MaxGid
  BY <1>0 DEF Gids
<1>1. v \in f[MaxGid]
  BY DEF LeaveEach, Left
<1>2. \A n \in 0..MaxGid : f[n] = IF n = 0 THEN {w} ELSE Next1(n, f[n - 1])
  <2>1. f = [n \in 0..MaxGid |-> IF n = 0 THEN {w} ELSE Next1(n, f[n - 1])]
    BY LeftExists
  <2> HIDE DEF f, Next1
  <2> QED
    BY <2>1
<1> HIDE DEF f
<1>3. 0 \in T
  <2>1. f[0] = {w} /\ 0 \in 0..MaxGid
    <3> HIDE DEF Next1
    <3> QED
      BY <1>0, <1>2
  <2>2. {g \in gids : g <= 0} = {}
    <3>1. \A g \in gids : ~(g <= 0)
      BY <1>0a
    <3> QED
      BY <3>1
  <2>3. HasLeft(w, w, p, {})
    BY DEF HasLeft
  <2> QED
    BY <2>1, <2>2, <2>3
<1>4. ASSUME NEW n \in 0..MaxGid, n # 0, n - 1 \in T PROVE n \in T
  <2> SUFFICES ASSUME NEW u \in f[n]
               PROVE  HasLeft(w, u, p, {g \in gids : g <= n})
    OBVIOUS
  <2>1. n \in Gids
    BY <1>0, <1>4 DEF Gids
  <2>2. \A g \in Gids : (g <= n <=> g <= n - 1 \/ g = n) /\ (g = n => ~(g <= n - 1))
    BY <1>0, <2>1 DEF Gids
  <2>3. PICK t \in f[n - 1] :
          u \in IF n \in gids THEN {o.w : o \in Leave(t, n, p, how)} ELSE {t}
    <3>1. u \in Next1(n, f[n - 1])
      <4> HIDE DEF Next1
      <4> QED
        BY <1>2, <1>4
    <3> QED
      BY <3>1
  <2>4. HasLeft(w, t, p, {g \in gids : g <= n - 1})
    BY <1>4, <2>3
  <2>5. CASE n \notin gids
    <3>1. {g \in gids : g <= n} = {g \in gids : g <= n - 1}
      BY <1>0, <2>2, <2>5
    <3> QED
      BY <2>3, <2>4, <2>5, <3>1
  <2>6. CASE n \in gids
    <3>1. PICK o \in Leave(t, n, p, how) : u = o.w
      BY <2>3, <2>6
    <3>2. t \in Worlds /\ t.rows[n] = w.rows[n]
      BY <2>1, <2>2, <2>4 DEF HasLeft
    <3>3. n \in Registered(t) /\ p \in Participants(t, n)
      BY <2>1, <2>6, <3>2 DEF Registered, Participants
    <3>4. Moves(t, u, n) /\ Leaves(t, u, n, p)
      BY <3>1, <3>2, <3>3, LeaveFacts
    <3>5. Leaves(w, u, n, p)
      BY <3>2, <3>4 DEF Leaves
    <3>6. u \in Worlds /\ w.broken \subseteq u.broken /\ w.sent \subseteq u.sent
      BY <2>4, <3>4 DEF HasLeft, Moves
    <3>7. ASSUME NEW g \in Gids
          PROVE  IF g \in gids /\ g <= n THEN Leaves(w, u, g, p) ELSE u.rows[g] = w.rows[g]
      <4>1. CASE g = n
        BY <2>2, <2>6, <3>5, <4>1
      <4>2. CASE g # n
        <5>1. u.rows[g] = t.rows[g] /\ t.broken \subseteq u.broken /\ t.sent \subseteq u.sent
          BY <3>4, <4>2 DEF Moves
        <5>2. CASE g \in gids /\ g <= n
          <6>1. Leaves(w, t, g, p)
            BY <2>2, <2>4, <4>2, <5>2 DEF HasLeft
          <6> QED
            BY <5>1, <5>2, <6>1, LeavesStays
        <5>3. CASE ~(g \in gids /\ g <= n)
          BY <2>2, <2>4, <4>2, <5>1, <5>3 DEF HasLeft
        <5> QED
          BY <5>2, <5>3
      <4> QED
        BY <4>1, <4>2
    <3> QED
      BY <3>6, <3>7 DEF HasLeft
  <2> QED
    BY <2>5, <2>6
<1>5. MaxGid \in T
  <2>1. MaxGid \in 0..MaxGid
    BY <1>0
  <2> HIDE DEF T
  <2>2. 0..MaxGid \subseteq T
    BY <1>0, <1>3, <1>4, BoundedInduction
  <2> QED
    BY <2>1, <2>2
<1>6. {g \in gids : g <= MaxGid} = gids
  BY <1>0a
<1> QED
  BY <1>1, <1>5, <1>6

\* A world in which every gathering keeps to its size and, unless a statement
\* has failed, its owner and its host take part.
Good(w) ==
  /\ w \in Worlds
  /\ \A g \in Registered(w) : /\ Fit(w.rows[g])
                              /\ g \in w.broken \/ Owned(w.rows[g])

\* Since w, everybody who took part in a gathering that ended or changed hands
\* has heard of it, but for the player p.
Told(w, v, p) ==
  \A g \in Registered(w) :
    \/ g \in v.broken /\ v.rows[g] # NoRow
    \/ v.rows[g] = Gone /\ AllHeard(v, Participants(w, g) \ {p}, "GatheringUnregistered", g)
    \/ /\ v.rows[g] \in Gathering
       /\ v.rows[g].owner # w.rows[g].owner =>
            AllHeard(v, Participants(w, g) \ {p}, "OwnershipChanged", g)

\* A gathering that is left is fit, owned and told of.
LEMMA LeavesKeeps ==
  ASSUME NEW w \in Worlds, NEW g \in Registered(w), NEW p \in Participants(w, g),
         NEW v, Leaves(w, v, g, p)
  PROVE  /\ v.rows[g] \in Gathering \cup {Gone}
         /\ v.rows[g] \in Gathering /\ Fit(w.rows[g]) => Fit(v.rows[g])
         /\ \/ g \in v.broken
            \/ /\ v.rows[g] \in Gathering /\ Owned(w.rows[g]) => Owned(v.rows[g])
               /\ v.rows[g] \in Gathering => p \notin Participants(v, g)
               /\ v.rows[g] = Gone =>
                    AllHeard(v, Participants(w, g) \ {p}, "GatheringUnregistered", g)
               /\ v.rows[g] \in Gathering /\ v.rows[g].owner # w.rows[g].owner =>
                    AllHeard(v, Participants(w, g) \ {p}, "OwnershipChanged", g)
<1> DEFINE row  == w.rows[g]
           rest == Without(row.participants, p)
           x == v.rows[g]
<1>1. row \in Gathering /\ Gone \notin Gathering
  BY WorldFields, GatheringsAssumption
<1>2. row.participants \in Seq(Pids) /\ row.max \in Nat
  BY <1>1, GatheringFields
<1>3. /\ rest \in Seq(Pids) /\ Len(rest) <= Len(row.participants)
      /\ ToSet(rest) = Participants(w, g) \ {p}
  BY <1>2, WithoutFacts DEF Participants
<1>4. Ends(row, rest, v, g) \/ (g \in v.broken /\ x = row)
  BY DEF Leaves
<1>5. Participants(v, g) = ToSet(x.participants)
  BY DEF Participants
<1> HIDE DEF row, rest, x
<1>6. Same(x, row, rest) => /\ x \in Gathering /\ x # Gone
                            /\ x.participants = rest /\ x.max = row.max
  BY <1>1 DEF Same
<1>7. Same(x, row, rest) /\ Fit(row) => Fit(x)
  <2> SUFFICES ASSUME x.participants = rest, x.max = row.max, Fit(row), x.max # 0
               PROVE  Len(x.participants) <= x.max
    BY <1>6 DEF Fit
  <2>1. Len(row.participants) <= row.max
    BY DEF Fit
  <2> QED
    BY <1>2, <1>3, <2>1
<1>8. Same(x, row, rest) => p \notin Participants(v, g)
  BY <1>3, <1>5, <1>6
<1>9. Ends(row, rest, v, g) <=>
        \/ g \in v.broken /\ (x = Gone \/ Same(x, row, rest))
        \/ x = Gone /\ AllHeard(v, Participants(w, g) \ {p}, "GatheringUnregistered", g)
        \/ /\ Same(x, row, rest)
           /\ Owned(row) => Owned(x)
           /\ x.owner # row.owner =>
                AllHeard(v, Participants(w, g) \ {p}, "OwnershipChanged", g)
  BY <1>3 DEF Ends, x
<1>10. /\ x \in Gathering \cup {Gone}
       /\ x \in Gathering /\ Fit(row) => Fit(x)
       /\ \/ g \in v.broken
          \/ /\ x \in Gathering /\ Owned(row) => Owned(x)
             /\ x \in Gathering => p \notin Participants(v, g)
             /\ x = Gone => AllHeard(v, Participants(w, g) \ {p}, "GatheringUnregistered", g)
             /\ x \in Gathering /\ x.owner # row.owner =>
                  AllHeard(v, Participants(w, g) \ {p}, "OwnershipChanged", g)
  BY <1>1, <1>4, <1>6, <1>7, <1>8, <1>9
<1> QED
  BY <1>10 DEF x, row

\* Leaving gatherings keeps a world good.
LEMMA HasLeftKeeps ==
  ASSUME NEW w, Good(w), NEW p, NEW gids \in SUBSET Registered(w),
         \A g \in gids : p \in Participants(w, g),
         NEW v, HasLeft(w, v, p, gids)
  PROVE  Good(v) /\ Told(w, v, p)
<1>1. w \in Worlds /\ v \in Worlds /\ w.broken \subseteq v.broken
  BY DEF Good, HasLeft
<1>2. gids \subseteq Gids /\ Registered(w) \subseteq Gids /\ Registered(v) \subseteq Gids
  BY <1>1, WorldFields
<1>3. Gone \notin Gathering /\ NoRow \notin Gathering
  BY GatheringsAssumption
<1>4. ASSUME NEW g \in Registered(v)
      PROVE  Fit(v.rows[g]) /\ (g \in v.broken \/ Owned(v.rows[g]))
  <2>1. v.rows[g] \in Gathering
    BY <1>1, <1>2, WorldFields
  <2>2. CASE g \in gids
    <3>1. Leaves(w, v, g, p)
      BY <1>2, <2>2 DEF HasLeft
    <3>2. Fit(w.rows[g]) /\ (g \in w.broken \/ Owned(w.rows[g]))
      BY <2>2 DEF Good
    <3> QED
      BY <1>1, <2>1, <2>2, <3>1, <3>2, LeavesKeeps
  <2>3. CASE g \notin gids
    <3>1. v.rows[g] = w.rows[g]
      BY <1>2, <2>3 DEF HasLeft
    <3>2. g \in Registered(w)
      BY <1>1, <1>2, <2>1, <3>1, WorldFields
    <3> QED
      BY <1>1, <3>1, <3>2 DEF Good
  <2> QED
    BY <2>2, <2>3
<1>5. ASSUME NEW g \in Registered(w)
      PROVE  \/ g \in v.broken /\ v.rows[g] # NoRow
             \/ v.rows[g] = Gone
                /\ AllHeard(v, Participants(w, g) \ {p}, "GatheringUnregistered", g)
             \/ /\ v.rows[g] \in Gathering
                /\ v.rows[g].owner # w.rows[g].owner =>
                     AllHeard(v, Participants(w, g) \ {p}, "OwnershipChanged", g)
  <2>1. CASE g \in gids
    <3>1. Leaves(w, v, g, p)
      BY <1>2, <2>1 DEF HasLeft
    <3>2. v.rows[g] \in Gathering \cup {Gone}
      BY <1>1, <2>1, <3>1, LeavesKeeps
    <3>3. NoRow # Gone
      BY GatheringsAssumption
    <3> QED
      BY <1>1, <1>3, <2>1, <3>1, <3>2, <3>3, LeavesKeeps
  <2>2. CASE g \notin gids
    <3>1. v.rows[g] = w.rows[g]
      BY <1>2, <2>2 DEF HasLeft
    <3>2. w.rows[g] \in Gathering
      BY <1>1, <1>2, WorldFields
    <3> QED
      BY <3>1, <3>2
  <2> QED
    BY <2>1, <2>2
<1> QED
  BY <1>1, <1>4, <1>5 DEF Good, Told

\* A player who has left all sessions is in none, unless a statement has failed.
LEMMA NoSessionLeft ==
  ASSUME NEW w \in Worlds, NEW p, NEW v, HasLeft(w, v, p, Sessions(w, p))
  PROVE  Sessions(v, p) \subseteq v.broken
<1> SUFFICES ASSUME NEW g \in Sessions(v, p), g \notin v.broken
             PROVE  FALSE
  OBVIOUS
<1>1. /\ g \in Registered(v) /\ p \in Participants(v, g)
      /\ v.rows[g].type = "MatchmakeSession"
  BY DEF Sessions
<1>2. v \in Worlds
  BY DEF HasLeft
<1>3. g \in Gids /\ v.rows[g] \in Gathering
  BY <1>1, <1>2, WorldFields
<1>4. CASE g \in Sessions(w, p)
  <2>1. Leaves(w, v, g, p)
    BY <1>3, <1>4 DEF HasLeft
  <2>2. g \in Registered(w) /\ p \in Participants(w, g)
    BY <1>4 DEF Sessions
  <2> QED
    BY <1>1, <1>3, <2>1, <2>2, LeavesKeeps
<1>5. CASE g \notin Sessions(w, p)
  <2>1. v.rows[g] = w.rows[g]
    BY <1>3, <1>5 DEF HasLeft
  <2>2. g \in Registered(w) /\ p \in Participants(w, g)
    BY <1>1, <1>3, <2>1, WorldFields DEF Participants
  <2> QED
    BY <1>1, <1>5, <2>1, <2>2 DEF Sessions
<1> QED
  BY <1>4, <1>5

\* NotQueried: nothing is left, and a statement has failed.
LEMMA NotQueriedFacts ==
  ASSUME NEW w \in Worlds, NEW p, NEW all \in SUBSET Gids, NEW gids \in SUBSET all,
         NEW v \in NotQueried(w, all)
  PROVE  HasLeft(w, v, p, gids)
<1>1. v = [w EXCEPT !.broken = @ \cup all]
  BY DEF NotQueried
<1>2. v.rows = w.rows /\ v.broken = w.broken \cup all /\ v.sent = w.sent
  BY <1>1 DEF Worlds
<1>3. v \in Worlds
  BY <1>1 DEF Worlds
<1>4. \A g \in gids : Leaves(w, v, g, p)
  BY <1>2 DEF Leaves
<1> QED
  BY <1>2, <1>3, <1>4 DEF HasLeft

\* EndMatchmakeSessionsParticipation: the player leaves all sessions.
LEMMA EndSessionsFacts ==
  ASSUME NEW w \in Worlds, NEW p \in Pids,
         NEW v \in EndMatchmakeSessionsParticipation(w, p)
  PROVE  HasLeft(w, v, p, Sessions(w, p))
<1>1. /\ Sessions(w, p) \subseteq Registered(w) /\ Sessions(w, p) \subseteq Gids
      /\ \A g \in Sessions(w, p) : p \in Participants(w, g)
  BY WorldFields DEF Sessions
<1>2. CASE v \in LeaveEach(w, p, Sessions(w, p), "Ended")
  BY <1>1, <1>2, LeaveEachFacts
<1>3. CASE v \in NotQueried(w, Sessions(w, p))
  BY <1>1, <1>3, NotQueriedFacts
<1> QED
  BY <1>2, <1>3 DEF EndMatchmakeSessionsParticipation

\* Disconnected: the player leaves the gatherings that ask for it.
LEMMA DisconnectedFacts ==
  ASSUME NEW w, Good(w), NEW p \in Pids, NEW v \in Disconnected(w, p)
  PROVE  Good(v) /\ Told(w, v, p)
<1> DEFINE mine == {g \in Registered(w) : p \in Participants(w, g)}
           gids == {g \in mine : LeftOnDisconnect(w.rows[g])}
<1>1. w \in Worlds
  BY DEF Good
<1>2. mine \subseteq Gids /\ gids \in SUBSET mine /\ gids \in SUBSET Registered(w)
  BY <1>1, WorldFields
<1>3. \A g \in gids : p \in Participants(w, g)
  OBVIOUS
<1>4. v \in LeaveEach(w, p, gids, "Disconnected") \/ v \in NotQueried(w, mine)
  BY DEF Disconnected
<1> HIDE DEF mine, gids
<1>5. HasLeft(w, v, p, gids)
  BY <1>1, <1>2, <1>3, <1>4, LeaveEachFacts, NotQueriedFacts
<1> QED
  BY <1>2, <1>3, <1>5, HasLeftKeeps
-----------------------------------------------------------------------------
(***************************************************************************)
(* Joining a gathering.                                                    *)
(***************************************************************************)

\* An owner and a host that take part, or will when the player p has joined.
HasOwner(row, p) ==
  \/ Owned(row) /\ row.participants # <<>>
  \/ row.participants = <<>> /\ row.owner = p /\ row.host \in {p, NoOne}

\* What it means that the player p joins the gathering g.
Joins(w, o, g, p) ==
  LET row == w.rows[g]
      x == o.w.rows[g]
  IN /\ Moves(w, o.w, g) /\ o.res \in Results
     /\ x \in Gathering /\ x.type = row.type /\ x.owner = row.owner
     /\ Fit(row) => Fit(x)
     /\ g \in o.w.broken \/ (HasOwner(row, p) => Owned(x))
     /\ o.res = "ok" => p \in Participants(o.w, g)

\* Notifications change nothing else.
LEMMA SentFacts ==
  ASSUME NEW w \in Worlds, NEW g, NEW news \in SUBSET Notification
  PROVE  /\ Moves(w, [w EXCEPT !.sent = @ \cup news], g)
         /\ [w EXCEPT !.sent = @ \cup news].rows = w.rows
<1> DEFINE v == [w EXCEPT !.sent = @ \cup news]
<1>1. v.rows = w.rows /\ v.broken = w.broken /\ v.sent = w.sent \cup news
  BY DEF Worlds
<1>2. v \in Worlds
  BY DEF Worlds
<1> QED
  BY <1>1, <1>2 DEF Moves

\* A join that is refused leaves the world as it was.
LEMMA RefusedJoins ==
  ASSUME NEW w \in Worlds, NEW g \in Registered(w), NEW p, NEW e \in Results \ {"ok"},
         NEW o, o = Refused(w, e)
  PROVE  Joins(w, o, g, p)
<1>1. o.w = w /\ o.res = e
  BY DEF Refused
<1>2. w.rows[g] \in Gathering
  BY WorldFields
<1>3. HasOwner(w.rows[g], p) => Owned(w.rows[g])
  BY DEF HasOwner, Owned
<1> QED
  BY <1>1, <1>2, <1>3, MovesReflexive DEF Joins

\* A longer list of participants is written, logged and told.
LEMMA ExtendedJoins ==
  ASSUME NEW w \in Worlds, NEW g \in Registered(w), NEW p \in Pids,
         NEW all \in Seq(Pids), p \in ToSet(all), Participants(w, g) \subseteq ToSet(all),
         Fit(w.rows[g]) => (w.rows[g].max # 0 => Len(all) <= w.rows[g].max),
         NEW u \in WriteAndLog(w, [w EXCEPT !.rows[g].participants = all], g),
         NEW t, u.w \in Worlds => Moves(u.w, t, g) /\ t.rows = u.w.rows,
         NEW o, o = [u EXCEPT !.w = IF u.res = "ok" THEN t ELSE @]
  PROVE  Joins(w, o, g, p)
<1> DEFINE row == w.rows[g]
           x == [row EXCEPT !.participants = all]
           v == Put(w, g, x)
<1>1. g \in Gids /\ row \in Gathering
  BY WorldFields
<1>2. [w EXCEPT !.rows[g].participants = all] = v /\ x \in Gathering
  BY <1>1, PutParticipants
<1>3. /\ x.type = row.type /\ x.owner = row.owner /\ x.host = row.host
      /\ x.max = row.max /\ x.flags = row.flags /\ x.participants = all
  BY <1>1 DEF Gathering
<1> HIDE DEF x
<1>4. Moves(w, v, g) /\ v.rows[g] = x
  BY <1>1, <1>2, PutFacts
<1> HIDE DEF v
<1>5. v \in Worlds
  BY <1>4 DEF Moves
<1>6. /\ u = [w |-> u.w, res |-> u.res]
      /\ \/ u.w = v /\ u.res = "ok"
         \/ u.res = "Unknown" /\ u.w \in {Break(w, g), Break(v, g)}
  BY <1>2, WriteAndLogFacts
<1>7. Fit(row) => Fit(x)
  BY <1>3 DEF Fit
<1>8. HasOwner(row, p) => Owned(x)
  <2>1. CASE row.flags \cap {"PersistentGathering", "PersistentGatheringAllowZeroUsers"} # {}
    BY <1>3, <2>1 DEF Owned
  <2>2. CASE row.owner \in ToSet(all) /\ row.host \in ToSet(all) \cup {NoOne}
    BY <1>3, <2>2 DEF Owned
  <2> QED
    BY <2>1, <2>2 DEF HasOwner, Owned, Participants
<1>9. CASE u.res = "ok"
  <2>1. o.w = t /\ o.res = "ok"
    BY <1>6, <1>9
  <2>2. Moves(w, t, g) /\ t.rows[g] = x
    BY <1>4, <1>5, <1>6, <1>9, MovesTransitive
  <2>3. p \in Participants(o.w, g)
    BY <1>3, <2>1, <2>2 DEF Participants
  <2> QED
    BY <1>2, <1>3, <1>7, <1>8, <2>1, <2>2, <2>3 DEF Joins, Results
<1>10. CASE u.res # "ok"
  <2>1. o.w = u.w /\ o.res = "Unknown" /\ u.w \in {Break(w, g), Break(v, g)}
    BY <1>6, <1>10
  <2>2. /\ Moves(w, Break(w, g), g) /\ Break(w, g).rows = w.rows
        /\ Break(w, g).broken = w.broken \cup {g}
    BY <1>1, BreakFacts
  <2>3. /\ Moves(v, Break(v, g), g) /\ Break(v, g).rows = v.rows
        /\ Break(v, g).broken = v.broken \cup {g}
    BY <1>1, <1>5, BreakFacts
  <2>4. Moves(w, Break(v, g), g)
    BY <1>4, <2>3, MovesTransitive
  <2>5. Moves(w, o.w, g) /\ o.w.rows[g] \in {row, x} /\ g \in o.w.broken
    BY <1>4, <2>1, <2>2, <2>3, <2>4
  <2> QED
    BY <1>1, <1>2, <1>3, <1>7, <2>1, <2>5 DEF Joins, Results
<1> QED
  BY <1>9, <1>10

\* JoinGathering
LEMMA JoinFacts ==
  ASSUME NEW w \in Worlds, NEW g \in Registered(w), NEW p \in Pids, NEW n \in Nat \ {0},
         NEW o \in JoinGathering(w, g, p, n)
  PROVE  Joins(w, o, g, p)
<1> DEFINE row == w.rows[g]
           all == [i \in 1..n |-> p] \o row.participants
           targets == IF Verbose(row) THEN ToSet(all) ELSE {row.owner} \ {p}
           T(v) == Tell(v, targets, "NewParticipant", g, p)
           full == row.max # 0 /\ Len(row.participants) + n > row.max
<1>1. g \in Gids /\ row \in Gathering
  BY WorldFields
<1>2. row.participants \in Seq(Pids) /\ row.max \in Nat /\ row.owner \in Pids
  BY <1>1, GatheringFields
<1>3. CASE full
  <2>1. o = Refused(w, "SessionFull")
    BY <1>3 DEF JoinGathering
  <2> QED
    BY <2>1, RefusedJoins DEF Results
<1>4. CASE ~full /\ p \in ToSet(row.participants)
  <2>1. o = Refused(w, "AlreadyParticipated")
    BY <1>4 DEF JoinGathering
  <2> QED
    BY <2>1, RefusedJoins DEF Results
<1>5. CASE ~full /\ p \notin ToSet(row.participants)
  <2>1. PICK u \in WriteAndLog(w, [w EXCEPT !.rows[g].participants = all], g) :
          o = [u EXCEPT !.w = IF u.res = "ok" THEN T(@) ELSE @]
    BY <1>5 DEF JoinGathering
  <2>2. /\ [i \in 1..n |-> p] \in Seq(Pids) /\ Len([i \in 1..n |-> p]) = n
        /\ ToSet([i \in 1..n |-> p]) = {p}
    BY CopiesTyped
  <2>3. all \in Seq(Pids) /\ Len(all) = n + Len(row.participants)
        /\ ToSet(all) = {p} \cup ToSet(row.participants)
    <3> DEFINE copies == [i \in 1..n |-> p]
    <3> HIDE DEF copies, row
    <3>1. copies \in Seq(Pids) /\ Len(copies) = n /\ ToSet(copies) = {p}
      BY <2>2 DEF copies
    <3>2. copies \o row.participants \in Seq(Pids)
          /\ Len(copies \o row.participants) = n + Len(row.participants)
      BY <1>2, <3>1
    <3>3. ToSet(copies \o row.participants) = {p} \cup ToSet(row.participants)
      BY <1>2, <3>1, ElementsOfConcat
    <3> QED
      BY <3>2, <3>3 DEF copies
  <2> HIDE DEF all
  <2>4. row.max # 0 => Len(all) <= row.max
    BY <1>2, <1>5, <2>3
  <2>5. targets \in SUBSET Pids /\ "NewParticipant" \in Events
    BY <1>2, <2>3, ElementsTyped DEF Events
  <2> HIDE DEF targets
  <2>6. u.w \in Worlds => Moves(u.w, T(u.w), g) /\ T(u.w).rows = u.w.rows
    BY <1>1, <2>5, TellFacts
  <2>7. o = [u EXCEPT !.w = IF u.res = "ok" THEN T(u.w) ELSE @]
    BY <2>1
  <2>8. p \in ToSet(all) /\ Participants(w, g) \subseteq ToSet(all)
    BY <2>3 DEF Participants
  <2> HIDE DEF T
  <2> QED
    BY <2>1, <2>3, <2>4, <2>6, <2>7, <2>8, ExtendedJoins
<1> QED
  BY <1>3, <1>4, <1>5

\* What JoinGatheringWithParticipants sends: the newcomers S are told to switch,
\* and the targets are told of the newcomers.
SwitchTold(v, g, S) ==
  [v EXCEPT !.sent = @ \cup UNION {Tell(v, {q}, "SwitchGathering", g, q).sent : q \in S}]
JoinTold(v, g, targets, S) ==
  [v EXCEPT !.sent = @ \cup UNION {Tell(v, targets, "NewParticipant", g, q).sent : q \in S}]

LEMMA JoinToldFacts ==
  ASSUME NEW v \in Worlds, NEW S \in SUBSET Pids, NEW targets \in SUBSET Pids,
         NEW g \in Gids
  PROVE  /\ Moves(v, SwitchTold(v, g, S), g) /\ SwitchTold(v, g, S).rows = v.rows
         /\ Moves(v, JoinTold(v, g, targets, S), g)
         /\ JoinTold(v, g, targets, S).rows = v.rows
<1> DEFINE switches == UNION {Tell(v, {q}, "SwitchGathering", g, q).sent : q \in S}
           joins == UNION {Tell(v, targets, "NewParticipant", g, q).sent : q \in S}
<1>1. switches \in SUBSET Notification /\ joins \in SUBSET Notification
  <2>0. {"SwitchGathering", "NewParticipant"} \subseteq Events
    BY DEF Events
  <2>1. ASSUME NEW q \in S
        PROVE  /\ Tell(v, {q}, "SwitchGathering", g, q).sent \subseteq Notification
               /\ Tell(v, targets, "NewParticipant", g, q).sent \subseteq Notification
    <3>1. Tell(v, {q}, "SwitchGathering", g, q) \in Worlds
      BY <2>0, TellFacts DEF Moves
    <3>2. Tell(v, targets, "NewParticipant", g, q) \in Worlds
      BY <2>0, TellFacts DEF Moves
    <3> QED
      BY <3>1, <3>2, WorldFields
  <2> QED
    BY <2>1
<1>2. SwitchTold(v, g, S) = [v EXCEPT !.sent = @ \cup switches]
  BY DEF SwitchTold
<1>3. JoinTold(v, g, targets, S) = [v EXCEPT !.sent = @ \cup joins]
  BY DEF JoinTold
<1> HIDE DEF switches, joins
<1> QED
  BY <1>1, <1>2, <1>3, SentFacts

\* The list of the newcomers.
LEMMA NewcomersTyped ==
  ASSUME NEW p \in Pids, NEW extra \in Seq(Pids), NEW joined \in BOOLEAN,
         NEW new, new = (IF joined THEN <<>> ELSE <<p>>) \o extra
  PROVE  /\ new \in Seq(Pids) /\ Len(new) <= 1 + Len(extra)
         /\ ~joined => p \in ToSet(new)
<1>1. CASE joined
  BY <1>1
<1>2. CASE ~joined
  <2>1. <<p>> \in Seq(Pids) /\ p \in ToSet(<<p>>)
    BY DEF ToSet
  <2>2. new = <<p>> \o extra /\ Len(new) = 1 + Len(extra) /\ new \in Seq(Pids)
    BY <1>2
  <2>3. ToSet(<<p>> \o extra) = ToSet(<<p>>) \cup ToSet(extra)
    BY <2>1, ElementsOfConcat
  <2> QED
    BY <2>1, <2>2, <2>3
<1> QED
  BY <1>1, <1>2

\* JoinGatheringWithParticipants
LEMMA JoinWithFacts ==
  ASSUME NEW w \in Worlds, NEW g \in Registered(w), NEW p \in Pids,
         NEW extra \in Seq(Pids), NEW joined \in BOOLEAN,
         NEW o \in JoinGatheringWithParticipants(w, g, p, extra, joined)
  PROVE  Joins(w, o, g, p)
<1> DEFINE row == w.rows[g]
           new == (IF joined THEN <<>> ELSE <<p>>) \o extra
           all == row.participants \o new
           targets == IF Verbose(row) THEN ToSet(all) ELSE {row.owner}
           T(v) == LET v2 == SwitchTold(v, g, ToSet(new) \ {p})
                   IN IF Verbose(row) \/ p # row.owner
                      THEN JoinTold(v2, g, targets, ToSet(new)) ELSE v2
           full == Len(row.participants) + 1 + Len(extra) > row.max
           there == p \in ToSet(row.participants)
<1>1. g \in Gids /\ row \in Gathering
  BY WorldFields
<1>2. row.participants \in Seq(Pids) /\ row.max \in Nat /\ row.owner \in Pids
  BY <1>1, GatheringFields
<1>3. CASE full
  <2>1. o = Refused(w, "SessionFull")
    BY <1>3 DEF JoinGatheringWithParticipants
  <2> QED
    BY <2>1, RefusedJoins DEF Results
<1>4. CASE ~full /\ joined /\ ~there
  <2>1. o = Refused(w, "NotParticipated")
    BY <1>4 DEF JoinGatheringWithParticipants
  <2> QED
    BY <2>1, RefusedJoins DEF Results
<1>5. CASE ~full /\ ~joined /\ there
  <2>1. o = Refused(w, "AlreadyParticipated")
    BY <1>5 DEF JoinGatheringWithParticipants
  <2> QED
    BY <2>1, RefusedJoins DEF Results
<1>6. CASE ~full /\ joined = there
  <2>1. PICK u \in WriteAndLog(w, [w EXCEPT !.rows[g].participants = all], g) :
          o = [u EXCEPT !.w = IF u.res = "ok" THEN T(@) ELSE @]
    BY <1>6 DEF JoinGatheringWithParticipants, SwitchTold, JoinTold
  <2>2. /\ new \in Seq(Pids) /\ Len(new) <= 1 + Len(extra)
        /\ ~joined => p \in ToSet(new)
    BY NewcomersTyped
  <2> HIDE DEF new
  <2>3. /\ all \in Seq(Pids) /\ Len(all) <= Len(row.participants) + 1 + Len(extra)
        /\ ToSet(all) = ToSet(row.participants) \cup ToSet(new)
    BY <1>2, <2>2, ElementsOfConcat
  <2> HIDE DEF all
  <2>4. row.max # 0 => Len(all) <= row.max
    BY <1>2, <1>6, <2>3
  <2>5. p \in ToSet(all) /\ Participants(w, g) \subseteq ToSet(all)
    BY <1>6, <2>2, <2>3 DEF Participants
  <2>6. targets \in SUBSET Pids /\ ToSet(new) \in SUBSET Pids
    BY <1>2, <2>2, <2>3, ElementsTyped
  <2> HIDE DEF targets
  <2>7. ASSUME u.w \in Worlds PROVE Moves(u.w, T(u.w), g) /\ T(u.w).rows = u.w.rows
    <3> DEFINE v1 == u.w
               others == ToSet(new) \ {p}
               v2 == SwitchTold(v1, g, others)
               v3 == JoinTold(v2, g, targets, ToSet(new))
    <3>1. others \in SUBSET Pids
      BY <2>6
    <3>2. Moves(v1, v2, g) /\ v2.rows = v1.rows
      BY <1>1, <2>6, <2>7, <3>1, JoinToldFacts
    <3>3. v2 \in Worlds
      BY <3>2 DEF Moves
    <3>4. Moves(v2, v3, g) /\ v3.rows = v2.rows
      BY <1>1, <2>6, <3>3, JoinToldFacts
    <3>5. T(u.w) \in {v2, v3}
      OBVIOUS
    <3> HIDE DEF v1, v2, v3, T
    <3>6. Moves(v1, v3, g)
      BY <3>2, <3>4, MovesTransitive
    <3> QED
      BY <3>2, <3>4, <3>5, <3>6 DEF v1
  <2>8. o = [u EXCEPT !.w = IF u.res = "ok" THEN T(u.w) ELSE @]
    BY <2>1
  <2> HIDE DEF T
  <2> QED
    BY <2>1, <2>3, <2>4, <2>5, <2>7, <2>8, ExtendedJoins
<1> QED
  BY <1>3, <1>4, <1>5, <1>6

\* Why JoinGathering refuses a player.
LEMMA JoinRefused ==
  ASSUME NEW w, NEW g, NEW p, NEW n, NEW o \in JoinGathering(w, g, p, n)
  PROVE  /\ o.res = "SessionFull" =>
              w.rows[g].max # 0 /\ Len(w.rows[g].participants) + n > w.rows[g].max
         /\ o.res = "AlreadyParticipated" => p \in Participants(w, g)
<1> DEFINE row == w.rows[g]
           all == [i \in 1..n |-> p] \o row.participants
           T(v) == Tell(v, IF Verbose(row) THEN ToSet(all) ELSE {row.owner} \ {p},
                        "NewParticipant", g, p)
           full == row.max # 0 /\ Len(row.participants) + n > row.max
<1>1. CASE full
  <2>1. o = Refused(w, "SessionFull")
    BY <1>1 DEF JoinGathering
  <2> QED
    BY <1>1, <2>1 DEF Refused
<1>2. CASE ~full /\ p \in ToSet(row.participants)
  <2>1. o = Refused(w, "AlreadyParticipated")
    BY <1>2 DEF JoinGathering
  <2> QED
    BY <1>2, <2>1 DEF Refused, Participants
<1>3. CASE ~full /\ p \notin ToSet(row.participants)
  <2>1. PICK u \in WriteAndLog(w, [w EXCEPT !.rows[g].participants = all], g) :
          o = [u EXCEPT !.w = IF u.res = "ok" THEN T(@) ELSE @]
    BY <1>3 DEF JoinGathering
  <2>2. u = [w |-> u.w, res |-> u.res] /\ u.res \in {"ok", "Unknown"}
    BY WriteAndLogFacts
  <2> HIDE DEF T
  <2>3. o.res = u.res
    BY <2>1, <2>2
  <2> QED
    BY <2>2, <2>3
<1> QED
  BY <1>1, <1>2, <1>3

\* What it means that the player p enters a gathering of a type, a new one or
\* one that is there: one gathering has changed, and it is as it should be.
Enters(v, o, p, type) ==
  \E g \in Gids :
    /\ Moves(v, o.w, g) /\ o.res \in Results
    /\ \/ o.w.rows[g] = v.rows[g] /\ o.res # "ok"
       \/ LET x == o.w.rows[g] IN
          /\ x \in Gathering /\ x.type = type
          /\ Fit(x) /\ (g \in o.w.broken \/ Owned(x))
          /\ v.rows[g] = NoRow \/ (v.rows[g] \in Gathering /\ x.owner = v.rows[g].owner)
          /\ o.res = "ok" => p \in Participants(o.w, g)

\* A player joins a gathering that was found.
LEMMA EntersFound ==
  ASSUME NEW v, Good(v), NEW p, NEW g \in Registered(v), v.rows[g].participants # <<>>,
         NEW o, Joins(v, o, g, p)
  PROVE  Enters(v, o, p, v.rows[g].type)
<1> DEFINE row == v.rows[g]
           x == o.w.rows[g]
<1>1. g \in Gids /\ row \in Gathering
  BY WorldFields DEF Good
<1>2. Fit(row) /\ (g \in v.broken \/ Owned(row))
  BY DEF Good
<1>3. /\ Moves(v, o.w, g) /\ o.res \in Results
      /\ x \in Gathering /\ x.type = row.type /\ x.owner = row.owner
      /\ Fit(row) => Fit(x)
      /\ g \in o.w.broken \/ (HasOwner(row, p) => Owned(x))
      /\ o.res = "ok" => p \in Participants(o.w, g)
  BY DEF Joins
<1>4. v.broken \subseteq o.w.broken
  BY <1>3 DEF Moves
<1>5. Owned(row) => HasOwner(row, p)
  BY DEF HasOwner
<1> HIDE DEF row, x
<1>6. Fit(x) /\ (g \in o.w.broken \/ Owned(x))
  BY <1>2, <1>3, <1>4, <1>5
<1> QED
  BY <1>1, <1>3, <1>6 DEF Enters, row, x

\* A player creates a gathering and joins it.
LEMMA EntersNew ==
  ASSUME NEW v, Good(v), NEW p \in Pids, NEW g \in Fresh(v), NEW row \in Gathering,
         row.participants = <<>>, row.owner = p, row.host \in {p, NoOne},
         NEW c \in RegisterGathering(v, g, row),
         NEW o, IF c.res = "ok" THEN g \in Registered(c.w) => Joins(c.w, o, g, p) ELSE o = c
  PROVE  Enters(v, o, p, row.type)
<1> DEFINE v2 == Put(v, g, row)
<1>1. v \in Worlds /\ g \in Gids /\ v.rows[g] = NoRow
  BY DEF Good, Fresh
<1>2. Moves(v, v2, g) /\ v2.rows[g] = row
  BY <1>1, PutFacts
<1>3. \/ c.w = v2 /\ c.res = "ok"
      \/ c.res = "Unknown" /\ c.w \in {Break(v, g), Break(v2, g)}
  BY WriteAndLogFacts DEF RegisterGathering, Put
<1> HIDE DEF v2
<1>4. v2 \in Worlds
  BY <1>2 DEF Moves
<1>5. Fit(row) /\ Owned(row) /\ HasOwner(row, p)
  <2>1. row.max \in Nat /\ Len(<<>>) = 0
    BY GatheringFields
  <2> QED
    BY <2>1 DEF Fit, Owned, HasOwner
<1>6. CASE c.res = "ok"
  <2>1. g \in Registered(v2)
    BY <1>1, <1>2, <1>4, WorldFields
  <2>2. Joins(v2, o, g, p)
    BY <1>3, <1>6, <2>1
  <2> DEFINE x == o.w.rows[g]
  <2>3. /\ Moves(v2, o.w, g) /\ o.res \in Results
        /\ x \in Gathering /\ x.type = row.type
        /\ Fit(x)
        /\ g \in o.w.broken \/ Owned(x)
        /\ o.res = "ok" => p \in Participants(o.w, g)
    BY <1>2, <1>5, <2>2 DEF Joins
  <2>4. Moves(v, o.w, g)
    BY <1>2, <2>3, MovesTransitive
  <2> HIDE DEF x
  <2> QED
    BY <1>1, <2>3, <2>4 DEF Enters, x
<1>7. CASE c.res # "ok"
  <2>1. o.res = "Unknown" /\ o.w \in {Break(v, g), Break(v2, g)}
    BY <1>3, <1>7
  <2>2. /\ Moves(v, Break(v, g), g) /\ Break(v, g).rows = v.rows
    BY <1>1, BreakFacts
  <2>3. /\ Moves(v2, Break(v2, g), g) /\ Break(v2, g).rows = v2.rows
    BY <1>1, <1>4, BreakFacts
  <2>4. Moves(v, Break(v2, g), g)
    BY <1>2, <2>3, MovesTransitive
  <2>5. "Unknown" \in Results
    BY DEF Results
  <2>6. CASE o.w = Break(v, g)
    BY <1>1, <2>1, <2>2, <2>5, <2>6 DEF Enters
  <2>7. CASE o.w = Break(v2, g)
    <3>1. o.w.rows[g] = row
      BY <1>2, <2>3, <2>7
    <3> QED
      BY <1>1, <1>5, <2>1, <2>4, <2>5, <2>7, <3>1 DEF Enters
  <2> QED
    BY <2>1, <2>6, <2>7
<1> QED
  BY <1>6, <1>7

\* Entering a gathering keeps a world good, and nobody misses anything.
LEMMA EntersKeeps ==
  ASSUME NEW w \in Worlds, NEW v, Good(v), NEW p, Told(w, v, p),
         NEW o, NEW type, Enters(v, o, p, type)
  PROVE  /\ Good(o.w) /\ Told(w, o.w, p) /\ o.res \in Results
         /\ type = "MatchmakeSession" /\ Sessions(v, p) \subseteq v.broken /\ o.res = "ok" =>
              /\ Sessions(o.w, p) # {}
              /\ Cardinality(Sessions(o.w, p) \ o.w.broken) <= 1
<1> DEFINE u == o.w
<1>1. PICK g \in Gids :
        /\ Moves(v, u, g) /\ o.res \in Results
        /\ \/ u.rows[g] = v.rows[g] /\ o.res # "ok"
           \/ /\ u.rows[g] \in Gathering /\ u.rows[g].type = type
              /\ Fit(u.rows[g]) /\ (g \in u.broken \/ Owned(u.rows[g]))
              /\ \/ v.rows[g] = NoRow
                 \/ v.rows[g] \in Gathering /\ u.rows[g].owner = v.rows[g].owner
              /\ o.res = "ok" => p \in Participants(u, g)
  BY DEF Enters
<1>2. v \in Worlds /\ u \in Worlds /\ v.broken \subseteq u.broken /\ v.sent \subseteq u.sent
      /\ \A h \in Gids \ {g} : u.rows[h] = v.rows[h]
  BY <1>1 DEF Good, Moves
<1>3. /\ Registered(w) \subseteq Gids /\ Registered(v) \subseteq Gids
      /\ Registered(u) \subseteq Gids
      /\ \A h \in Gids : h \in Registered(v) <=> v.rows[h] \in Gathering
      /\ \A h \in Gids : h \in Registered(u) <=> u.rows[h] \in Gathering
  BY <1>2, WorldFields
<1>4. Gone \notin Gathering /\ NoRow \notin Gathering /\ Gone # NoRow
  BY GatheringsAssumption
<1> HIDE DEF u
<1>5. ASSUME NEW h \in Registered(u)
      PROVE  Fit(u.rows[h]) /\ (h \in u.broken \/ Owned(u.rows[h]))
  <2>1. CASE h = g /\ u.rows[g] # v.rows[g]
    BY <1>1, <2>1
  <2>2. CASE u.rows[h] = v.rows[h]
    <3>1. h \in Registered(v)
      BY <1>3, <2>2
    <3> QED
      BY <1>2, <2>2, <3>1 DEF Good
  <2> QED
    BY <1>2, <1>3, <2>1, <2>2
<1>6. ASSUME NEW h \in Registered(w)
      PROVE  \/ h \in u.broken /\ u.rows[h] # NoRow
             \/ u.rows[h] = Gone
                /\ AllHeard(u, Participants(w, h) \ {p}, "GatheringUnregistered", h)
             \/ /\ u.rows[h] \in Gathering
                /\ u.rows[h].owner # w.rows[h].owner =>
                     AllHeard(u, Participants(w, h) \ {p}, "OwnershipChanged", h)
  <2> DEFINE qs == Participants(w, h) \ {p}
  <2>1. \/ h \in v.broken /\ v.rows[h] # NoRow
        \/ v.rows[h] = Gone /\ AllHeard(v, qs, "GatheringUnregistered", h)
        \/ /\ v.rows[h] \in Gathering
           /\ v.rows[h].owner # w.rows[h].owner => AllHeard(v, qs, "OwnershipChanged", h)
    BY DEF Told
  <2> HIDE DEF qs
  <2>2. /\ AllHeard(v, qs, "GatheringUnregistered", h) =>
             AllHeard(u, qs, "GatheringUnregistered", h)
        /\ AllHeard(v, qs, "OwnershipChanged", h) => AllHeard(u, qs, "OwnershipChanged", h)
    BY <1>2, HeardStays
  <2>3. CASE u.rows[h] = v.rows[h]
    BY <1>2, <2>1, <2>2, <2>3 DEF qs
  <2>4. CASE u.rows[h] # v.rows[h]
    <3>1. h = g
      BY <1>2, <1>3, <2>4
    <3>2. v.rows[h] # NoRow
      BY <1>4, <2>1
    <3>3. /\ u.rows[h] \in Gathering /\ v.rows[h] \in Gathering
          /\ u.rows[h].owner = v.rows[h].owner
      BY <1>1, <2>4, <3>1, <3>2
    <3> QED
      BY <1>2, <1>4, <2>1, <2>2, <3>2, <3>3 DEF qs
  <2> QED
    BY <2>3, <2>4
<1>7. ASSUME type = "MatchmakeSession", Sessions(v, p) \subseteq v.broken, o.res = "ok"
      PROVE  /\ Sessions(u, p) # {}
             /\ Cardinality(Sessions(u, p) \ u.broken) <= 1
  <2>1. g \in Sessions(u, p)
    BY <1>1, <1>3, <1>7 DEF Sessions
  <2>2. Sessions(u, p) \ u.broken \subseteq {g}
    <3> SUFFICES ASSUME NEW h \in Sessions(u, p), h # g
                 PROVE  h \in u.broken
      OBVIOUS
    <3>1. h \in Registered(u) /\ p \in Participants(u, h)
          /\ u.rows[h].type = "MatchmakeSession"
      BY DEF Sessions
    <3>2. u.rows[h] = v.rows[h] /\ h \in Registered(v)
      BY <1>2, <1>3, <3>1
    <3>3. h \in Sessions(v, p)
      BY <3>1, <3>2 DEF Sessions, Participants
    <3> QED
      BY <1>2, <1>7, <3>3
  <2>3. Cardinality({g}) = 1 /\ IsFiniteSet({g})
    BY FS_Singleton
  <2>4. Cardinality(Sessions(u, p) \ u.broken) <= Cardinality({g})
    BY <2>2, <2>3, FS_Subset
  <2> QED
    BY <2>1, <2>3, <2>4
<1> QED
  BY <1>1, <1>2, <1>5, <1>6, <1>7 DEF Good, Told, u
-----------------------------------------------------------------------------
(***************************************************************************)
(* The outcomes of the handlers.                                           *)
(***************************************************************************)

\* The inductive invariant.  What CapacityKept and OwnerTakesPart say of the
\* gatherings in the database is what Good says of the world a handler finds.
IInv == TypeOK /\ Good(World)

\* What every outcome of a handler that the player p has called must be for the
\* invariants to be kept and the promises to be true.
Promise(o, p, method) ==
  /\ o.res \in Results /\ Good(o.w) /\ Told(World, o.w, p)
  /\ method \in {"session", "match"} /\ o.res = "ok" =>
       /\ Sessions(o.w, p) # {}
       /\ Cardinality(Sessions(o.w, p) \ o.w.broken) <= 1
  /\ method = "match" => \/ o.res \notin {"SessionFull", "AlreadyParticipated"}
                         \/ o.w.broken # {}

\* A good world stays good when the notifications have been sent, and it has the
\* same sessions.
LEMMA GoodWithout ==
  ASSUME NEW v, Good(v), NEW u, u = [rows |-> v.rows, broken |-> v.broken, sent |-> {}]
  PROVE  Good(u) /\ \A p : Sessions(u, p) = Sessions(v, p)
<1>1. v \in Worlds
  BY DEF Good
<1>2. u \in Worlds /\ u.rows = v.rows /\ u.broken = v.broken
  BY <1>1 DEF Worlds
<1>3. Registered(u) = Registered(v)
  BY <1>2 DEF Registered
<1>4. Good(u)
  BY <1>2, <1>3 DEF Good
<1>5. \A p : Sessions(u, p) = Sessions(v, p)
  BY <1>2, <1>3 DEF Sessions, Participants
<1> QED
  BY <1>4, <1>5

\* The world in which a player has left all sessions.
LEMMA AfterEndSessions ==
  ASSUME IInv, NEW p \in Pids, NEW v \in EndMatchmakeSessionsParticipation(World, p)
  PROVE  /\ Good(v) /\ Told(World, v, p)
         /\ Sessions(v, p) \subseteq v.broken
<1> DEFINE w == World
<1>1. Good(w) /\ w \in Worlds
  BY DEF IInv, Good
<1>2. HasLeft(w, v, p, Sessions(w, p))
  BY <1>1, EndSessionsFacts
<1> HIDE DEF w
<1>3. Sessions(w, p) \in SUBSET Registered(w) /\ \A g \in Sessions(w, p) : p \in Participants(w, g)
  BY DEF Sessions
<1>4. Good(v) /\ Told(w, v, p)
  BY <1>1, <1>2, <1>3, HasLeftKeeps
<1>5. Sessions(v, p) \subseteq v.broken
  BY <1>1, <1>2, NoSessionLeft
<1> QED
  BY <1>4, <1>5 DEF w

\* A choice of Created is a registration in one of the worlds.
LEMMA CreatedFacts ==
  ASSUME NEW ws, NEW row, NEW c \in Created(ws, row)
  PROVE  \E v \in ws : \E g \in Fresh(v) : c.gid = g /\ c.o \in RegisterGathering(v, g, row)
<1>1. PICK v \in ws : c \in UNION {{Choice(g, o) : o \in RegisterGathering(v, g, row)} :
                                     g \in Fresh(v)}
  BY DEF Created
<1>2. PICK g \in Fresh(v) : c \in {Choice(g, o) : o \in RegisterGathering(v, g, row)}
  BY <1>1
<1>3. PICK o \in RegisterGathering(v, g, row) : c = Choice(g, o)
  BY <1>2
<1>4. c.gid = g /\ c.o = o
  BY <1>3 DEF Choice
<1> QED
  BY <1>4

\* A registration of a new row: the row is there when it succeeds.
LEMMA RegisterFacts ==
  ASSUME NEW v \in Worlds, NEW g \in Gids, NEW row \in Gathering,
         NEW c \in RegisterGathering(v, g, row)
  PROVE  /\ c.res \in {"ok", "Unknown"}
         /\ c.res = "ok" => /\ c.w \in Worlds /\ c.w.rows[g] = row
                            /\ g \in Registered(c.w)
<1> DEFINE v2 == Put(v, g, row)
<1>1. Moves(v, v2, g) /\ v2.rows[g] = row
  BY PutFacts
<1>2. v2 \in Worlds
  BY <1>1 DEF Moves
<1>3. \/ c.w = v2 /\ c.res = "ok"
      \/ c.res = "Unknown"
  BY WriteAndLogFacts DEF RegisterGathering, Put
<1> HIDE DEF v2
<1>4. g \in Registered(v2)
  BY <1>1, <1>2, WorldFields
<1> QED
  BY <1>1, <1>2, <1>3, <1>4

\* A row with which a gathering begins.
Begins(row, p) == /\ row \in Gathering /\ row.participants = <<>>
                  /\ row.owner = p /\ row.host \in {p, NoOne}

\* A player who creates a gathering enters it, and is not told that it is full
\* unless there are guests.
LEMMA EnteredNew ==
  ASSUME NEW ws, \A v \in ws : Good(v), NEW p \in Pids, NEW row, Begins(row, p),
         NEW n \in Nat \ {0}, NEW o \in Entered(Created(ws, row), p, n)
  PROVE  /\ \E v \in ws : Enters(v, o, p, row.type)
         /\ n = 1 => o.res \notin {"SessionFull", "AlreadyParticipated"}
<1>1. PICK c \in Created(ws, row) :
        o \in IF c.o.res = "ok" THEN JoinGathering(c.o.w, c.gid, p, n) ELSE {c.o}
  BY DEF Entered
<1>2. PICK v \in ws : \E g \in Fresh(v) : c.gid = g /\ c.o \in RegisterGathering(v, g, row)
  BY CreatedFacts
<1>3. PICK g \in Fresh(v) : c.gid = g /\ c.o \in RegisterGathering(v, g, row)
  BY <1>2
<1>4. Good(v) /\ v \in Worlds /\ g \in Gids
  BY DEF Good, Fresh
<1>5. /\ row \in Gathering /\ row.participants = <<>>
      /\ row.owner = p /\ row.host \in {p, NoOne}
  BY DEF Begins
<1> DEFINE r == c.o
<1>6. r \in RegisterGathering(v, g, row)
      /\ o \in IF r.res = "ok" THEN JoinGathering(r.w, g, p, n) ELSE {r}
  BY <1>1, <1>3
<1> HIDE DEF r
<1>7. /\ r.res \in {"ok", "Unknown"}
      /\ r.res = "ok" => r.w \in Worlds /\ r.w.rows[g] = row /\ g \in Registered(r.w)
  BY <1>4, <1>5, <1>6, RegisterFacts
<1>8. IF r.res = "ok" THEN g \in Registered(r.w) => Joins(r.w, o, g, p) ELSE o = r
  BY <1>6, <1>7, JoinFacts
<1>9. Enters(v, o, p, row.type)
  BY <1>4, <1>5, <1>6, <1>8, EntersNew
<1>10. ASSUME n = 1 PROVE o.res \notin {"SessionFull", "AlreadyParticipated"}
  <2>1. CASE r.res = "ok"
    <3>1. o \in JoinGathering(r.w, g, p, 1) /\ r.w.rows[g].participants = <<>>
          /\ r.w.rows[g].max = row.max
      BY <1>5, <1>6, <1>7, <1>10, <2>1
    <3>2. row.max \in Nat /\ Len(<<>>) = 0
      BY <1>5, GatheringFields
    <3>3. ~(row.max # 0 /\ 0 + 1 > row.max)
      BY <3>2
    <3>4. p \notin Participants(r.w, g)
      BY <3>1 DEF Participants, ToSet
    <3> QED
      BY <3>1, <3>2, <3>3, <3>4, JoinRefused
  <2>2. CASE r.res # "ok"
    BY <1>6, <1>7, <2>2
  <2> QED
    BY <2>1, <2>2
<1> QED
  BY <1>9, <1>10

\* A player who creates a session for several enters it.
LEMMA EnteredWithNew ==
  ASSUME NEW ws, \A v \in ws : Good(v), NEW p \in Pids, NEW row, Begins(row, p),
         NEW extra \in Seq(Pids), NEW o \in EnteredWith(Created(ws, row), p, extra)
  PROVE  \E v \in ws : Enters(v, o, p, row.type)
<1>1. PICK c \in Created(ws, row) :
        o \in IF c.o.res = "ok"
              THEN JoinGatheringWithParticipants(c.o.w, c.gid, p, extra, FALSE) ELSE {c.o}
  BY DEF EnteredWith
<1>2. PICK v \in ws : \E g \in Fresh(v) : c.gid = g /\ c.o \in RegisterGathering(v, g, row)
  BY CreatedFacts
<1>3. PICK g \in Fresh(v) : c.gid = g /\ c.o \in RegisterGathering(v, g, row)
  BY <1>2
<1>4. Good(v) /\ v \in Worlds /\ g \in Gids
  BY DEF Good, Fresh
<1>5. /\ row \in Gathering /\ row.participants = <<>>
      /\ row.owner = p /\ row.host \in {p, NoOne}
  BY DEF Begins
<1> DEFINE r == c.o
<1>6. r \in RegisterGathering(v, g, row)
      /\ o \in IF r.res = "ok" THEN JoinGatheringWithParticipants(r.w, g, p, extra, FALSE)
               ELSE {r}
  BY <1>1, <1>3
<1> HIDE DEF r
<1>7. r.res = "ok" => r.w \in Worlds /\ g \in Registered(r.w)
  BY <1>4, <1>5, <1>6, RegisterFacts
<1>8. IF r.res = "ok" THEN g \in Registered(r.w) => Joins(r.w, o, g, p) ELSE o = r
  BY <1>6, <1>7, JoinWithFacts
<1>9. Enters(v, o, p, row.type)
  BY <1>4, <1>5, <1>6, <1>8, EntersNew
<1> QED
  BY <1>9

\* What Findable finds.
LEMMA FoundFacts ==
  ASSUME NEW v, NEW g \in Findable(v)
  PROVE  /\ g \in Registered(v) /\ v.rows[g].type = "MatchmakeSession"
         /\ v.rows[g].participants # <<>>
BY DEF Findable

\* A player who joins a session that was found enters it.
LEMMA EnteredFound ==
  ASSUME NEW ws, \A v \in ws : Good(v), NEW choices,
         \A c \in choices : \E v \in ws : \E g \in Findable(v) : c.gid = g /\ c.o = Done(v),
         NEW p \in Pids, NEW n \in Nat \ {0}, NEW o \in Entered(choices, p, n)
  PROVE  \E v \in ws : Enters(v, o, p, "MatchmakeSession")
<1>1. PICK c \in choices :
        o \in IF c.o.res = "ok" THEN JoinGathering(c.o.w, c.gid, p, n) ELSE {c.o}
  BY DEF Entered
<1>2. PICK v \in ws : \E g \in Findable(v) : c.gid = g /\ c.o = Done(v)
  OBVIOUS
<1>3. PICK g \in Findable(v) : c.gid = g /\ c.o = Done(v)
  BY <1>2
<1>4. o \in JoinGathering(v, g, p, n)
  <2>1. c.o.w = v /\ c.o.res = "ok"
    BY <1>3 DEF Done
  <2> QED
    BY <1>1, <1>3, <2>1
<1>5. Good(v) /\ v \in Worlds
  BY DEF Good
<1>6. /\ g \in Registered(v) /\ v.rows[g].type = "MatchmakeSession"
      /\ v.rows[g].participants # <<>>
  BY FoundFacts
<1>7. Joins(v, o, g, p)
  BY <1>4, <1>5, <1>6, JoinFacts
<1>8. Enters(v, o, p, v.rows[g].type)
  BY <1>5, <1>6, <1>7, EntersFound
<1> QED
  BY <1>6, <1>8

\* A player who joins such a session with others enters it.
LEMMA EnteredWithFound ==
  ASSUME NEW ws, \A v \in ws : Good(v), NEW choices,
         \A c \in choices : \E v \in ws : \E g \in Findable(v) : c.gid = g /\ c.o = Done(v),
         NEW p \in Pids, NEW extra \in Seq(Pids), NEW o \in EnteredWith(choices, p, extra)
  PROVE  \E v \in ws : Enters(v, o, p, "MatchmakeSession")
<1>1. PICK c \in choices :
        o \in IF c.o.res = "ok"
              THEN JoinGatheringWithParticipants(c.o.w, c.gid, p, extra, FALSE) ELSE {c.o}
  BY DEF EnteredWith
<1>2. PICK v \in ws : \E g \in Findable(v) : c.gid = g /\ c.o = Done(v)
  OBVIOUS
<1>3. PICK g \in Findable(v) : c.gid = g /\ c.o = Done(v)
  BY <1>2
<1>4. o \in JoinGatheringWithParticipants(v, g, p, extra, FALSE)
  <2>1. c.o.w = v /\ c.o.res = "ok"
    BY <1>3 DEF Done
  <2> QED
    BY <1>1, <1>3, <2>1
<1>5. Good(v) /\ v \in Worlds
  BY DEF Good
<1>6. /\ g \in Registered(v) /\ v.rows[g].type = "MatchmakeSession"
      /\ v.rows[g].participants # <<>>
  BY FoundFacts
<1>7. Joins(v, o, g, p)
  BY <1>4, <1>5, <1>6, JoinWithFacts
<1>8. Enters(v, o, p, v.rows[g].type)
  BY <1>5, <1>6, <1>7, EntersFound
<1> QED
  BY <1>6, <1>8

\* FindMatchmakeSession finds a session with room, and one the player is not in
\* unless a statement has failed, so that the join is not refused.
LEMMA FoundIsJoined ==
  ASSUME NEW v, Good(v), NEW p, Sessions(v, p) \subseteq v.broken,
         NEW g \in FindMatchmakeSession(v), NEW o \in JoinGathering(v, g, p, 1),
         v.broken \subseteq o.w.broken
  PROVE  o.res \notin {"SessionFull", "AlreadyParticipated"} \/ o.w.broken # {}
<1>1. /\ g \in Findable(v)
      /\ Len(v.rows[g].participants) < v.rows[g].max
  BY DEF FindMatchmakeSession
<1>2. g \in Registered(v) /\ v.rows[g].type = "MatchmakeSession"
  BY <1>1, FoundFacts
<1>3. v.rows[g] \in Gathering
  BY <1>2, WorldFields DEF Good
<1>4. Len(v.rows[g].participants) \in Nat /\ v.rows[g].max \in Nat
  BY <1>3, GatheringFields
<1>5. ~(Len(v.rows[g].participants) + 1 > v.rows[g].max)
  BY <1>1, <1>4
<1>6. o.res # "SessionFull"
  BY <1>5, JoinRefused
<1>7. p \in Participants(v, g) => g \in v.broken
  BY <1>2 DEF Sessions
<1>8. o.res = "AlreadyParticipated" => o.w.broken # {}
  BY <1>7, JoinRefused
<1> QED
  BY <1>6, <1>8

\* Who enters a session after having left all of them keeps every promise but
\* that of the match, which is about the refusals.
LEMMA EntersPromise ==
  ASSUME IInv, NEW p \in Pids, NEW o, NEW method \in Methods,
         \E v \in EndMatchmakeSessionsParticipation(World, p) :
           Enters(v, o, p, "MatchmakeSession"),
         method = "match" => \/ o.res \notin {"SessionFull", "AlreadyParticipated"}
                             \/ o.w.broken # {}
  PROVE  Promise(o, p, method)
<1>1. PICK v \in EndMatchmakeSessionsParticipation(World, p) :
        Enters(v, o, p, "MatchmakeSession")
  OBVIOUS
<1>2. /\ Good(v) /\ Told(World, v, p)
      /\ Sessions(v, p) \subseteq v.broken
  BY AfterEndSessions
<1>3. World \in Worlds
  BY DEF IInv, Good
<1> DEFINE w == World
<1> HIDE DEF w
<1>4. w \in Worlds /\ Told(w, v, p)
  BY <1>2, <1>3 DEF w
<1>5. /\ Good(o.w) /\ Told(w, o.w, p) /\ o.res \in Results
      /\ o.res = "ok" => /\ Sessions(o.w, p) # {}
                         /\ Cardinality(Sessions(o.w, p) \ o.w.broken) <= 1
  BY <1>1, <1>2, <1>4, EntersKeeps
<1> QED
  BY <1>5 DEF Promise, w

\* A request that is given up keeps what leaving the sessions keeps.
LEMMA GivenUpPromise ==
  ASSUME IInv, NEW p \in Pids, NEW method \in Methods,
         NEW o \in GivenUp(EndMatchmakeSessionsParticipation(World, p))
  PROVE  Promise(o, p, method)
<1>1. PICK v \in EndMatchmakeSessionsParticipation(World, p) : o = Refused(v, "Refused")
  BY DEF GivenUp
<1>2. o.w = v /\ o.res = "Refused"
  BY <1>1 DEF Refused
<1>3. Good(v) /\ Told(World, v, p)
  BY AfterEndSessions
<1> QED
  BY <1>2, <1>3 DEF Promise, Results
-----------------------------------------------------------------------------
(***************************************************************************)
(* The steps.                                                              *)
(***************************************************************************)

\* What ChangesAreTold says of a step.
ChangesTold ==
  \A g \in Registered(World) \ broken' : last'.method # "restart" =>
     \A q \in Participants(World, g) \ {last'.pid} : link'[q] = "up" =>
       /\ gatherings'[g] = Gone =>
            \E n \in sent' : n.to = q /\ n.gid = g /\ n.event = "GatheringUnregistered"
       /\ gatherings'[g] # Gone /\ gatherings'[g].owner # gatherings[g].owner =>
            \E n \in sent' : n.to = q /\ n.gid = g /\ n.event = "OwnershipChanged"

\* What every step establishes.
Holds == IInv' /\ OneSession' /\ MatchIsJoined' /\ ChangesTold

\* The world of the next state.
LEMMA NextWorld ==
  ASSUME NEW o, gatherings' = o.w.rows, broken' = o.w.broken
  PROVE  World' = [rows |-> o.w.rows, broken |-> o.w.broken, sent |-> {}]
BY DEF World

\* An answer that keeps the promises of its handler.
LEMMA AnswerHolds ==
  ASSUME IInv, NEW p \in Pids, NEW method \in Methods, NEW o, Promise(o, p, method),
         gatherings' = o.w.rows, broken' = o.w.broken, sent' = o.w.sent,
         last' = [pid |-> p, method |-> method,
                  res |-> IF method = "other" THEN "ok" ELSE o.res],
         link' \in [Pids -> {"up", "down"}], late' \subseteq Pids,
         \A q \in Pids \ {p} : link'[q] = "up" => link[q] = "up"
  PROVE  Holds
<1>1. Good(o.w) /\ Told(World, o.w, p) /\ o.res \in Results
  BY DEF Promise
<1>2. o.w \in Worlds
  BY <1>1 DEF Good
<1>3. /\ o.w.rows \in [Gids -> Gathering \cup {NoRow, Gone}]
      /\ o.w.broken \subseteq Gids /\ o.w.sent \subseteq Notification
  BY <1>2, WorldFields
<1>4. TypeOK'
  <2>1. last' \in [pid : Pids \cup {NoOne}, method : Methods, res : Results]
    BY <1>1 DEF Results
  <2> QED
    BY <1>3, <2>1 DEF TypeOK
<1>5. World' = [rows |-> o.w.rows, broken |-> o.w.broken, sent |-> {}]
  BY NextWorld
<1>6. Good(World)' /\ Sessions(World, last.pid)' = Sessions(o.w, p)
  <2>1. Good(World') /\ \A q : Sessions(World', q) = Sessions(o.w, q)
    BY <1>1, <1>5, GoodWithout
  <2>2. Good(World)' <=> Good(World')
    BY DEF Good, Worlds, Fit, Owned, Registered
  <2>3. Sessions(World, last.pid)' = Sessions(World', p)
    BY DEF Sessions, Registered, Participants
  <2> QED
    BY <2>1, <2>2, <2>3
<1>7. OneSession'
  BY <1>6 DEF Promise, OneSession
<1>8. MatchIsJoined'
  BY DEF Promise, MatchIsJoined
<1>9. ChangesTold
  <2> SUFFICES ASSUME NEW g \in Registered(World), g \notin broken',
                      NEW q \in Participants(World, g) \ {p}, link'[q] = "up"
               PROVE  /\ gatherings'[g] = Gone =>
                           \E n \in sent' : n.to = q /\ n.gid = g /\
                                            n.event = "GatheringUnregistered"
                      /\ gatherings'[g] # Gone /\ gatherings'[g].owner # gatherings[g].owner =>
                           \E n \in sent' : n.to = q /\ n.gid = g /\
                                            n.event = "OwnershipChanged"
    BY DEF ChangesTold
  <2>1. \/ o.w.rows[g] = Gone
           /\ AllHeard(o.w, Participants(World, g) \ {p}, "GatheringUnregistered", g)
        \/ /\ o.w.rows[g] \in Gathering
           /\ o.w.rows[g].owner # World.rows[g].owner =>
                AllHeard(o.w, Participants(World, g) \ {p}, "OwnershipChanged", g)
    BY <1>1 DEF Told
  <2>2. q \in Pids /\ q # p
    <3>1. World.rows[g] \in Gathering
      BY WorldFields DEF IInv, Good
    <3>2. World.rows[g].participants \in Seq(Pids)
      BY <3>1, GatheringFields
    <3> QED
      BY <3>2, ElementsTyped DEF Participants
  <2>3. link[q] = "up"
    BY <2>2
  <2>4. Gone \notin Gathering /\ World.rows[g] = gatherings[g]
    BY GatheringsAssumption DEF World
  <2>5. CASE o.w.rows[g] = Gone
    <3>1. Heard(o.w, q, "GatheringUnregistered", g)
      BY <2>1, <2>3, <2>4, <2>5 DEF AllHeard
    <3> QED
      BY <2>5, <3>1 DEF Heard
  <2>6. CASE o.w.rows[g] # Gone /\ o.w.rows[g].owner # gatherings[g].owner
    <3>1. Heard(o.w, q, "OwnershipChanged", g)
      BY <2>1, <2>3, <2>4, <2>6 DEF AllHeard
    <3> QED
      BY <2>6, <3>1 DEF Heard
  <2> QED
    BY <2>5, <2>6
<1> QED
  BY <1>4, <1>6, <1>7, <1>8, <1>9 DEF Holds, IInv

\* A handler all of whose outcomes keep its promises.
LEMMA HandlerHolds ==
  ASSUME IInv, NEW p \in Pids, NEW method \in Methods, NEW STATE outcomes,
         Handler(p, method, outcomes), \A o \in outcomes : Promise(o, p, method)
  PROVE  Holds
<1>1. PICK o \in outcomes :
        /\ gatherings' = o.w.rows /\ broken' = o.w.broken /\ sent' = o.w.sent
        /\ last' = [pid |-> p, method |-> method,
                    res |-> IF method = "other" THEN "ok" ELSE o.res]
  BY DEF Handler, Answer
<1>2. Promise(o, p, method)
  OBVIOUS
<1>3. /\ link' \in [Pids -> {"up", "down"}] /\ late' \subseteq Pids
      /\ \A q \in Pids \ {p} : link'[q] = "up" => link[q] = "up"
  BY DEF Handler, IInv, TypeOK
<1> QED
  BY <1>1, <1>2, <1>3, AnswerHolds

\* A world is told of itself.
LEMMA ToldReflexive ==
  ASSUME NEW w \in Worlds, NEW p
  PROVE  Told(w, w, p)
BY WorldFields DEF Told

\* One row has changed.
LEMMA OneRowKeeps ==
  ASSUME NEW w, Good(w), NEW g \in Registered(w), NEW p, NEW v, Moves(w, v, g),
         v.rows[g] \in Gathering =>
           Fit(v.rows[g]) /\ (g \in v.broken \/ Owned(v.rows[g])),
         \/ g \in v.broken /\ v.rows[g] # NoRow
         \/ v.rows[g] = Gone /\ AllHeard(v, Participants(w, g) \ {p}, "GatheringUnregistered", g)
         \/ /\ v.rows[g] \in Gathering
            /\ v.rows[g].owner # w.rows[g].owner =>
                 AllHeard(v, Participants(w, g) \ {p}, "OwnershipChanged", g)
  PROVE  Good(v) /\ Told(w, v, p)
<1>1. w \in Worlds /\ v \in Worlds /\ w.broken \subseteq v.broken
      /\ \A h \in Gids \ {g} : v.rows[h] = w.rows[h]
  BY DEF Good, Moves
<1>2. /\ Registered(w) \subseteq Gids /\ Registered(v) \subseteq Gids
      /\ \A h \in Gids : h \in Registered(w) <=> w.rows[h] \in Gathering
      /\ \A h \in Gids : h \in Registered(v) <=> v.rows[h] \in Gathering
  BY <1>1, WorldFields
<1>3. ASSUME NEW h \in Registered(v)
      PROVE  Fit(v.rows[h]) /\ (h \in v.broken \/ Owned(v.rows[h]))
  <2>1. CASE h = g
    BY <1>2, <2>1
  <2>2. CASE h # g
    <3>1. v.rows[h] = w.rows[h] /\ h \in Registered(w)
      BY <1>1, <1>2, <2>2
    <3> QED
      BY <1>1, <3>1 DEF Good
  <2> QED
    BY <2>1, <2>2
<1>4. ASSUME NEW h \in Registered(w), h # g
      PROVE  v.rows[h] = w.rows[h] /\ v.rows[h] \in Gathering
  BY <1>1, <1>2, <1>4
<1> QED
  BY <1>1, <1>3, <1>4 DEF Good, Told

\* A new session begins with its creator as owner and host.
LEMMA NewSessionBegins ==
  ASSUME NEW p \in Pids, NEW max \in Caps, NEW flags \in FlagSets
  PROVE  Begins(NewSession(p, max, flags), p)
         /\ NewSession(p, max, flags).type = "MatchmakeSession"
BY GatheringsAssumption DEF Begins, NewSession, Gathering

\* createMatchmakeSession
LEMMA CreateMatchmakeSessionHolds ==
  ASSUME IInv, NEW p \in Pids, CreateMatchmakeSession(p)
  PROVE  Holds
<1> DEFINE ws == EndMatchmakeSessionsParticipation(World, p)
<1>0. "session" \in Methods
  BY DEF Methods
<1>1. \A v \in ws : Good(v)
  BY AfterEndSessions
<1>2. CASE \E max \in Caps, flags \in FlagSets :
             LET new == Created(ws, NewSession(p, max, flags))
             IN \/ \E n \in 1..MaxVacant : Handler(p, "session", Entered(new, p, n))
                \/ \E extra \in Extras : Handler(p, "session", EnteredWith(new, p, extra))
  <2>1. PICK max \in Caps, flags \in FlagSets :
          \/ \E n \in 1..MaxVacant :
               Handler(p, "session", Entered(Created(ws, NewSession(p, max, flags)), p, n))
          \/ \E extra \in Extras :
               Handler(p, "session", EnteredWith(Created(ws, NewSession(p, max, flags)), p, extra))
    BY <1>2
  <2> DEFINE row == NewSession(p, max, flags)
  <2>2. Begins(row, p) /\ row.type = "MatchmakeSession"
    BY NewSessionBegins
  <2> HIDE DEF row, ws
  <2>3. CASE \E n \in 1..MaxVacant : Handler(p, "session", Entered(Created(ws, row), p, n))
    <3>1. PICK n \in 1..MaxVacant : Handler(p, "session", Entered(Created(ws, row), p, n))
      BY <2>3
    <3>2. n \in Nat \ {0}
      OBVIOUS
    <3>3. ASSUME NEW o \in Entered(Created(ws, row), p, n) PROVE Promise(o, p, "session")
      <4>1. \E v \in ws : Enters(v, o, p, "MatchmakeSession")
        BY <1>1, <2>2, <3>2, EnteredNew
      <4> QED
        BY <1>0, <4>1, EntersPromise DEF ws
    <3> QED
      BY <1>0, <3>1, <3>3, HandlerHolds
  <2>4. CASE \E extra \in Extras :
               Handler(p, "session", EnteredWith(Created(ws, row), p, extra))
    <3>1. PICK extra \in Extras :
            Handler(p, "session", EnteredWith(Created(ws, row), p, extra))
      BY <2>4
    <3>2. extra \in Seq(Pids)
      BY GatheringsAssumption
    <3>3. ASSUME NEW o \in EnteredWith(Created(ws, row), p, extra)
          PROVE  Promise(o, p, "session")
      <4>1. \E v \in ws : Enters(v, o, p, "MatchmakeSession")
        BY <1>1, <2>2, <3>2, EnteredWithNew
      <4> QED
        BY <1>0, <4>1, EntersPromise DEF ws
    <3> QED
      BY <1>0, <3>1, <3>3, HandlerHolds
  <2> QED
    BY <2>1, <2>3, <2>4 DEF row
<1>3. CASE Handler(p, "session", GivenUp(ws))
  <2>1. \A o \in GivenUp(ws) : Promise(o, p, "session")
    BY <1>0, GivenUpPromise
  <2> QED
    BY <1>0, <1>3, <2>1, HandlerHolds
<1> QED
  BY <1>2, <1>3 DEF CreateMatchmakeSession

\* The choices among sessions that were found.
LEMMA FoundChoices ==
  ASSUME NEW ws, NEW c,
         \/ c \in UNION {{Choice(g, Done(w)) : g \in Findable(w)} : w \in ws}
         \/ c \in UNION {{Choice(g, Done(w)) : g \in FindMatchmakeSession(w)} : w \in ws}
  PROVE  \E v \in ws : \E g \in Findable(v) : c.gid = g /\ c.o = Done(v)
<1>1. PICK v \in ws : \/ c \in {Choice(g, Done(v)) : g \in Findable(v)}
                      \/ c \in {Choice(g, Done(v)) : g \in FindMatchmakeSession(v)}
  OBVIOUS
<1>2. FindMatchmakeSession(v) \subseteq Findable(v)
  BY DEF FindMatchmakeSession
<1>3. PICK g \in Findable(v) : c = Choice(g, Done(v))
  BY <1>1, <1>2
<1>4. c.gid = g /\ c.o = Done(v)
  BY <1>3 DEF Choice
<1> QED
  BY <1>4

\* autoMatchmakePostpone
LEMMA AutoMatchmakePostponeHolds ==
  ASSUME IInv, NEW p \in Pids, AutoMatchmakePostpone(p)
  PROVE  Holds
<1> DEFINE ws == EndMatchmakeSessionsParticipation(World, p)
           found == UNION {{Choice(g, Done(w)) : g \in FindMatchmakeSession(w)} : w \in ws}
<1>0. "match" \in Methods
  BY DEF Methods
<1>1. \A v \in ws : Good(v) /\ Sessions(v, p) \subseteq v.broken
  BY AfterEndSessions
<1>2. CASE Handler(p, "match", Entered(found, p, 1))
  <2>1. ASSUME NEW o \in Entered(found, p, 1) PROVE Promise(o, p, "match")
    <3>1. \A c \in found : \E v \in ws : \E g \in Findable(v) : c.gid = g /\ c.o = Done(v)
      BY FoundChoices
    <3>2. \E v \in ws : Enters(v, o, p, "MatchmakeSession")
      <4> HIDE DEF ws, found
      <4> QED
        BY <1>1, <2>1, <3>1, EnteredFound
    <3>3. o.res \notin {"SessionFull", "AlreadyParticipated"} \/ o.w.broken # {}
      <4>1. PICK c \in found :
              o \in IF c.o.res = "ok" THEN JoinGathering(c.o.w, c.gid, p, 1) ELSE {c.o}
        BY <2>1 DEF Entered
      <4>2. PICK v \in ws : c \in {Choice(g, Done(v)) : g \in FindMatchmakeSession(v)}
        OBVIOUS
      <4>3. PICK g \in FindMatchmakeSession(v) : c = Choice(g, Done(v))
        BY <4>2
      <4> HIDE DEF ws, found
      <4>4. c.gid = g /\ c.o.w = v /\ c.o.res = "ok"
        BY <4>3 DEF Choice, Done
      <4>5. o \in JoinGathering(v, g, p, 1)
        BY <4>1, <4>4
      <4>6. Good(v) /\ Sessions(v, p) \subseteq v.broken
        BY <1>1
      <4>7. g \in Registered(v) /\ v \in Worlds
        BY <4>6, FoundFacts DEF FindMatchmakeSession, Good
      <4>8. Joins(v, o, g, p)
        BY <4>5, <4>7, JoinFacts
      <4>9. v.broken \subseteq o.w.broken
        BY <4>8 DEF Joins, Moves
      <4> QED
        BY <4>5, <4>6, <4>9, FoundIsJoined
    <3> QED
      BY <1>0, <3>2, <3>3, EntersPromise
  <2> HIDE DEF found
  <2> QED
    BY <1>0, <1>2, <2>1, HandlerHolds
<1>3. CASE \E max \in Caps, flags \in FlagSets :
             Handler(p, "match", Entered(Created(ws, NewSession(p, max, flags)), p, 1))
  <2>1. PICK max \in Caps, flags \in FlagSets :
          Handler(p, "match", Entered(Created(ws, NewSession(p, max, flags)), p, 1))
    BY <1>3
  <2> DEFINE row == NewSession(p, max, flags)
  <2>2. Begins(row, p) /\ row.type = "MatchmakeSession"
    BY NewSessionBegins
  <2>3. Handler(p, "match", Entered(Created(ws, row), p, 1))
    BY <2>1
  <2> HIDE DEF row, ws
  <2>4. ASSUME NEW o \in Entered(Created(ws, row), p, 1) PROVE Promise(o, p, "match")
    <3>1. /\ \E v \in ws : Enters(v, o, p, "MatchmakeSession")
          /\ o.res \notin {"SessionFull", "AlreadyParticipated"}
      BY <1>1, <2>2, EnteredNew
    <3> QED
      BY <1>0, <3>1, EntersPromise DEF ws
  <2> QED
    BY <1>0, <2>3, <2>4, HandlerHolds
<1>4. CASE Handler(p, "match", GivenUp(ws))
  <2>1. \A o \in GivenUp(ws) : Promise(o, p, "match")
    BY <1>0, GivenUpPromise
  <2> QED
    BY <1>0, <1>4, <2>1, HandlerHolds
<1> QED
  BY <1>2, <1>3, <1>4 DEF AutoMatchmakePostpone

\* autoMatchmakeWithSearchCriteriaPostpone
LEMMA AutoMatchmakeBySearchCriteriaHolds ==
  ASSUME IInv, NEW p \in Pids, AutoMatchmakeBySearchCriteria(p)
  PROVE  Holds
<1> DEFINE ws == EndMatchmakeSessionsParticipation(World, p)
           found == UNION {{Choice(g, Done(w)) : g \in Findable(w)} : w \in ws}
<1>0. "session" \in Methods
  BY DEF Methods
<1>1. \A v \in ws : Good(v)
  BY AfterEndSessions
<1>2. \A c \in found : \E v \in ws : \E g \in Findable(v) : c.gid = g /\ c.o = Done(v)
  BY FoundChoices
<1>3. CASE \E n \in 1..MaxVacant : Handler(p, "session", Entered(found, p, n))
  <2>1. PICK n \in 1..MaxVacant : Handler(p, "session", Entered(found, p, n))
    BY <1>3
  <2> HIDE DEF found, ws
  <2>2. ASSUME NEW o \in Entered(found, p, n) PROVE Promise(o, p, "session")
    <3>1. \E v \in ws : Enters(v, o, p, "MatchmakeSession")
      BY <1>1, <1>2, EnteredFound
    <3> QED
      BY <1>0, <3>1, EntersPromise DEF ws
  <2> QED
    BY <1>0, <2>1, <2>2, HandlerHolds
<1>4. CASE \E extra \in Extras : Handler(p, "session", EnteredWith(found, p, extra))
  <2>1. PICK extra \in Extras : Handler(p, "session", EnteredWith(found, p, extra))
    BY <1>4
  <2>2. extra \in Seq(Pids)
    BY GatheringsAssumption
  <2> HIDE DEF found, ws
  <2>3. ASSUME NEW o \in EnteredWith(found, p, extra) PROVE Promise(o, p, "session")
    <3>1. \E v \in ws : Enters(v, o, p, "MatchmakeSession")
      BY <1>1, <1>2, <2>2, EnteredWithFound
    <3> QED
      BY <1>0, <3>1, EntersPromise DEF ws
  <2> QED
    BY <1>0, <2>1, <2>3, HandlerHolds
<1> QED
  BY <1>3, <1>4 DEF AutoMatchmakeBySearchCriteria

\* joinMatchmakeSession
LEMMA JoinMatchmakeSessionHolds ==
  ASSUME IInv, NEW p \in Pids, JoinMatchmakeSession(p)
  PROVE  Holds
<1> DEFINE w == World
<1>0. "other" \in Methods
  BY DEF Methods
<1>1. Good(w) /\ w \in Worlds
  BY DEF IInv, Good
<1>2. PICK g \in Findable(w) :
        \/ \E n \in 1..MaxVacant : Handler(p, "other", JoinGathering(w, g, p, n))
        \/ \E extra \in Extras, joined \in BOOLEAN :
             Handler(p, "other", JoinGatheringWithParticipants(w, g, p, extra, joined))
  BY DEF JoinMatchmakeSession
<1> HIDE DEF w
<1>3. g \in Registered(w) /\ w.rows[g].participants # <<>>
  BY FoundFacts
<1>4. ASSUME NEW o, Joins(w, o, g, p) PROVE Promise(o, p, "other")
  <2>1. Told(w, w, p)
    BY <1>1, ToldReflexive
  <2>2. Enters(w, o, p, w.rows[g].type)
    BY <1>1, <1>3, <1>4, EntersFound
  <2>3. Good(o.w) /\ Told(w, o.w, p) /\ o.res \in Results
    BY <1>1, <2>1, <2>2, EntersKeeps
  <2> QED
    BY <2>3 DEF Promise, w
<1>5. CASE \E n \in 1..MaxVacant : Handler(p, "other", JoinGathering(w, g, p, n))
  <2>1. PICK n \in 1..MaxVacant : Handler(p, "other", JoinGathering(w, g, p, n))
    BY <1>5
  <2>2. \A o \in JoinGathering(w, g, p, n) : Promise(o, p, "other")
    BY <1>1, <1>3, <1>4, JoinFacts
  <2> QED
    BY <1>0, <2>1, <2>2, HandlerHolds DEF w
<1>6. CASE \E extra \in Extras, joined \in BOOLEAN :
             Handler(p, "other", JoinGatheringWithParticipants(w, g, p, extra, joined))
  <2>1. PICK extra \in Extras, joined \in BOOLEAN :
             Handler(p, "other", JoinGatheringWithParticipants(w, g, p, extra, joined))
    BY <1>6
  <2>2. extra \in Seq(Pids)
    BY GatheringsAssumption
  <2>3. \A o \in JoinGatheringWithParticipants(w, g, p, extra, joined) : Promise(o, p, "other")
    BY <1>1, <1>3, <1>4, <2>2, JoinWithFacts
  <2> QED
    BY <1>0, <2>1, <2>3, HandlerHolds DEF w
<1> QED
  BY <1>2, <1>5, <1>6

\* createCommunity
LEMMA CreateCommunityHolds ==
  ASSUME IInv, NEW p \in Pids, CreateCommunity(p)
  PROVE  Holds
<1>0. "other" \in Methods
  BY DEF Methods
<1>1. PICK max \in Caps, flags \in CommunityFlagSets :
        Handler(p, "other", Entered(Created({World},
          [NewSession(p, max, flags) EXCEPT !.type = "PersistentGathering", !.host = NoOne]),
          p, 1))
  BY DEF CreateCommunity
<1> DEFINE row == [NewSession(p, max, flags) EXCEPT !.type = "PersistentGathering",
                                                    !.host = NoOne]
           w == World
<1>2. Begins(row, p)
  <2> DEFINE session == NewSession(p, max, flags)
             community == [session EXCEPT !.type = "PersistentGathering"]
  <2>1. max \in Nat /\ flags \in SUBSET Flags /\ <<>> \in Seq(Pids)
    BY GatheringsAssumption
  <2>2. /\ session \in Gathering /\ session.owner = p
        /\ session.participants = <<>>
    BY <2>1 DEF NewSession, Gathering
  <2> HIDE DEF session
  <2>3. /\ community \in Gathering /\ community.owner = p
        /\ community.participants = <<>>
    BY <2>2 DEF Gathering
  <2>4. row = [community EXCEPT !.host = NoOne]
    BY DEF session
  <2> HIDE DEF community, row
  <2>5. row \in Gathering /\ row.owner = p /\ row.participants = <<>> /\ row.host = NoOne
    BY <2>3, <2>4 DEF Gathering
  <2> QED
    BY <2>5 DEF Begins
<1>3. Good(w) /\ w \in Worlds
  BY DEF IInv, Good
<1>4. Handler(p, "other", Entered(Created({w}, row), p, 1))
  BY <1>1
<1> HIDE DEF row, w
<1>5. ASSUME NEW o \in Entered(Created({w}, row), p, 1) PROVE Promise(o, p, "other")
  <2>1. Told(w, w, p)
    BY <1>3, ToldReflexive
  <2>2. \E v \in {w} : Enters(v, o, p, row.type)
    <3>1. \A v \in {w} : Good(v)
      BY <1>3
    <3> QED
      BY <1>2, <1>5, <3>1, EnteredNew
  <2>3. Enters(w, o, p, row.type)
    BY <2>2
  <2>4. Good(o.w) /\ Told(w, o.w, p) /\ o.res \in Results
    BY <1>3, <2>1, <2>3, EntersKeeps
  <2> QED
    BY <2>4 DEF Promise, w
<1> QED
  BY <1>0, <1>4, <1>5, HandlerHolds

\* endParticipation
LEMMA EndParticipationHolds ==
  ASSUME IInv, NEW p \in Pids, EndParticipation(p)
  PROVE  Holds
<1> DEFINE w == World
<1>0. "other" \in Methods
  BY DEF Methods
<1>1. Good(w) /\ w \in Worlds
  BY DEF IInv, Good
<1>2. PICK g \in Gids : Handler(p, "other", EndGatheringParticipation(w, g, p))
  BY DEF EndParticipation
<1> HIDE DEF w
<1>3. ASSUME NEW o \in EndGatheringParticipation(w, g, p) PROVE Promise(o, p, "other")
  <2>1. CASE g \notin Registered(w) \/ p \notin Participants(w, g)
    <3>1. o.w = w /\ o.res = "NotParticipated"
      BY <1>3, <2>1 DEF EndGatheringParticipation, Refused
    <3>2. Told(w, w, p)
      BY <1>1, ToldReflexive
    <3> QED
      BY <1>1, <3>1, <3>2 DEF Promise, Results, w
  <2>2. CASE g \in Registered(w) /\ p \in Participants(w, g)
    <3>1. o \in Leave(w, g, p, "Ended")
      BY <1>3, <2>2 DEF EndGatheringParticipation
    <3>2. Moves(w, o.w, g) /\ o.res \in {"ok", "Unknown"} /\ Leaves(w, o.w, g, p)
      BY <1>1, <2>2, <3>1, LeaveFacts
    <3>3. HasLeft(w, o.w, p, {g})
      BY <3>2 DEF HasLeft, Moves
    <3>4. {g} \in SUBSET Registered(w) /\ \A h \in {g} : p \in Participants(w, h)
      BY <2>2
    <3>5. Good(o.w) /\ Told(w, o.w, p)
      BY <1>1, <3>3, <3>4, HasLeftKeeps
    <3> QED
      BY <3>2, <3>5 DEF Promise, Results, w
  <2> QED
    BY <2>1, <2>2
<1> QED
  BY <1>0, <1>2, <1>3, HandlerHolds DEF w

\* unregisterGathering
LEMMA UnregisterByOwnerHolds ==
  ASSUME IInv, NEW p \in Pids, UnregisterByOwner(p)
  PROVE  Holds
<1> DEFINE w == World
<1>0. "other" \in Methods
  BY DEF Methods
<1>1. Good(w) /\ w \in Worlds
  BY DEF IInv, Good
<1>2. PICK g \in Registered(w) : Handler(p, "other", Dissolve(w, g, p, Participants(w, g)))
  BY DEF UnregisterByOwner
<1> HIDE DEF w
<1>3. g \in Gids /\ w.rows[g] \in Gathering
  BY <1>1, WorldFields
<1>4. Participants(w, g) \in SUBSET Pids
  <2>1. w.rows[g].participants \in Seq(Pids)
    BY <1>3, GatheringFields
  <2> QED
    BY <2>1, ElementsTyped DEF Participants
<1>5. ASSUME NEW o \in Dissolve(w, g, p, Participants(w, g)) PROVE Promise(o, p, "other")
  <2>1. /\ Moves(w, o.w, g) /\ o.res \in {"ok", "Unknown"}
        /\ o.w.rows[g] \in {w.rows[g], Gone}
        /\ \/ g \in o.w.broken
           \/ /\ o.w.rows[g] = Gone
              /\ AllHeard(o.w, Participants(w, g), "GatheringUnregistered", g)
    BY <1>1, <1>3, <1>4, <1>5, DissolveFacts
  <2>2. Fit(w.rows[g]) /\ (g \in w.broken \/ Owned(w.rows[g])) /\ w.broken \subseteq o.w.broken
    BY <1>1, <2>1 DEF Good, Moves
  <2>3. Gone \notin Gathering /\ NoRow \notin Gathering /\ Gone # NoRow
    BY GatheringsAssumption
  <2>4. g \in o.w.broken \/
          AllHeard(o.w, Participants(w, g) \ {p}, "GatheringUnregistered", g)
    BY <2>1 DEF AllHeard
  <2>5. Good(o.w) /\ Told(w, o.w, p)
    BY <1>1, <1>3, <2>1, <2>2, <2>3, <2>4, OneRowKeeps
  <2> QED
    BY <2>1, <2>5 DEF Promise, Results, w
<1> QED
  BY <1>0, <1>2, <1>5, HandlerHolds DEF w

\* A statement about one row that keeps its size, its participants and its flags,
\* and tells of a change of owner.
LEMMA UpdatePromise ==
  ASSUME IInv, NEW p \in Pids, NEW g \in Registered(World),
         NEW x \in Gathering, x.participants = World.rows[g].participants,
         x.max = World.rows[g].max, x.flags = World.rows[g].flags,
         Owned(World.rows[g]) => Owned(x),
         NEW o, Moves(World, o.w, g), o.res \in Results,
         \/ g \in o.w.broken /\ o.w.rows[g] \in {World.rows[g], x}
         \/ /\ o.w.rows[g] = x
            /\ x.owner # World.rows[g].owner =>
                 AllHeard(o.w, Participants(World, g), "OwnershipChanged", g)
  PROVE  Promise(o, p, "other")
<1> DEFINE w == World
           row == w.rows[g]
           v == o.w
<1>1. Good(w) /\ w \in Worlds
  BY DEF IInv, Good
<1>2. row \in Gathering /\ Fit(row) /\ (g \in w.broken \/ Owned(row)) /\ w.broken \subseteq v.broken
  BY <1>1, WorldFields DEF Good, Moves
<1>3. Gone \notin Gathering /\ NoRow \notin Gathering
  BY GatheringsAssumption
<1>4. Fit(x)
  BY <1>2 DEF Fit
<1> HIDE DEF w, row, v
<1>5. /\ v.rows[g] \in {row, x}
      /\ Fit(v.rows[g]) /\ (g \in v.broken \/ Owned(v.rows[g]))
  BY <1>2, <1>4 DEF w, row, v
<1>6. g \in v.broken \/ (v.rows[g].owner # row.owner =>
                           AllHeard(v, Participants(w, g) \ {p}, "OwnershipChanged", g))
  BY DEF AllHeard, w, row, v
<1>7. Moves(w, v, g) /\ g \in Registered(w)
  BY DEF w, v
<1>8. Good(v) /\ Told(w, v, p)
  BY <1>1, <1>2, <1>3, <1>5, <1>6, <1>7, OneRowKeeps DEF row
<1> QED
  BY <1>8 DEF Promise, w, v

\* The host of a row is written, or whether it is open.
LEMMA PutHost ==
  ASSUME NEW w \in Worlds, NEW g \in Gids, w.rows[g] \in Gathering, NEW q \in Pids
  PROVE  /\ [w EXCEPT !.rows[g].host = q] = Put(w, g, [w.rows[g] EXCEPT !.host = q])
         /\ [w.rows[g] EXCEPT !.host = q] \in Gathering
<1>1. [w.rows[g] EXCEPT !.host = q] \in Gathering
  BY DEF Gathering
<1>2. [w EXCEPT !.rows[g].host = q] = Put(w, g, [w.rows[g] EXCEPT !.host = q])
  BY DEF Put
<1> QED
  BY <1>1, <1>2

LEMMA PutOpen ==
  ASSUME NEW w \in Worlds, NEW g \in Gids, w.rows[g] \in Gathering, NEW open \in BOOLEAN
  PROVE  /\ [w EXCEPT !.rows[g].open = open] = Put(w, g, [w.rows[g] EXCEPT !.open = open])
         /\ [w.rows[g] EXCEPT !.open = open] \in Gathering
<1>1. [w.rows[g] EXCEPT !.open = open] \in Gathering
  BY DEF Gathering
<1>2. [w EXCEPT !.rows[g].open = open] = Put(w, g, [w.rows[g] EXCEPT !.open = open])
  BY DEF Put
<1> QED
  BY <1>1, <1>2

\* A row is written and logged: it is there, or a statement has failed.
LEMMA WrittenFacts ==
  ASSUME NEW w \in Worlds, NEW g \in Gids, NEW x \in Gathering,
         NEW o \in WriteAndLog(w, Put(w, g, x), g)
  PROVE  /\ Moves(w, o.w, g)
         /\ \/ o.res = "ok" /\ o.w = Put(w, g, x) /\ o.w.rows[g] = x
            \/ o.res = "Unknown" /\ g \in o.w.broken /\ o.w.rows[g] \in {w.rows[g], x}
<1> DEFINE v == Put(w, g, x)
<1>1. Moves(w, v, g) /\ v.rows[g] = x
  BY PutFacts
<1>2. v \in Worlds
  BY <1>1 DEF Moves
<1>3. \/ o.w = v /\ o.res = "ok"
      \/ o.res = "Unknown" /\ o.w \in {Break(w, g), Break(v, g)}
  BY WriteAndLogFacts
<1> HIDE DEF v
<1>4. /\ Moves(w, Break(w, g), g) /\ Break(w, g).rows = w.rows
      /\ Break(w, g).broken = w.broken \cup {g}
  BY BreakFacts
<1>5. /\ Moves(v, Break(v, g), g) /\ Break(v, g).rows = v.rows
      /\ Break(v, g).broken = v.broken \cup {g}
  BY <1>2, BreakFacts
<1>6. Moves(w, Break(v, g), g)
  BY <1>1, <1>5, MovesTransitive
<1>7. CASE o.w = v /\ o.res = "ok"
  BY <1>1, <1>7 DEF v
<1>8. CASE o.res = "Unknown" /\ o.w \in {Break(w, g), Break(v, g)}
  BY <1>1, <1>4, <1>5, <1>6, <1>8
<1> QED
  BY <1>3, <1>7, <1>8

\* openParticipation, closeParticipation
LEMMA SetParticipationHolds ==
  ASSUME IInv, NEW p \in Pids, SetParticipation(p)
  PROVE  Holds
<1> DEFINE w == World
<1>0. "other" \in Methods
  BY DEF Methods
<1>1. Good(w) /\ w \in Worlds
  BY DEF IInv, Good
<1>2. PICK g \in Findable(w), open \in BOOLEAN :
        Handler(p, "other", Write(w, [w EXCEPT !.rows[g].open = open], g))
  BY DEF SetParticipation
<1> DEFINE row == w.rows[g]
           x == [row EXCEPT !.open = open]
           outcomes == Write(w, [w EXCEPT !.rows[g].open = open], g)
<1>3. g \in Registered(w) /\ g \in Gids /\ row \in Gathering
  BY <1>1, FoundFacts, WorldFields
<1>4. [w EXCEPT !.rows[g].open = open] = Put(w, g, x) /\ x \in Gathering
  <2> HIDE DEF w
  <2> QED
    BY <1>1, <1>3, PutOpen
<1>5. /\ x.participants = row.participants /\ x.max = row.max /\ x.flags = row.flags
      /\ x.owner = row.owner /\ x.host = row.host
  <2> HIDE DEF row
  <2> QED
    BY <1>3 DEF Gathering
<1>6. outcomes = Write(w, Put(w, g, x), g)
  BY <1>4
<1> HIDE DEF x, w, outcomes
<1>7. Owned(row) => Owned(x)
  BY <1>5 DEF Owned
<1>8. ASSUME NEW o \in outcomes PROVE Promise(o, p, "other")
  <2>1. o \in WriteAndLog(w, Put(w, g, x), g)
    BY <1>6 DEF WriteAndLog
  <2>2. /\ Moves(w, o.w, g)
        /\ \/ o.res = "ok" /\ o.w = Put(w, g, x) /\ o.w.rows[g] = x
           \/ o.res = "Unknown" /\ g \in o.w.broken /\ o.w.rows[g] \in {w.rows[g], x}
    BY <1>1, <1>3, <1>4, <2>1, WrittenFacts
  <2>3. o.res \in Results
    BY <2>2 DEF Results
  <2> QED
    BY <1>3, <1>4, <1>5, <1>7, <2>2, <2>3, UpdatePromise DEF w
<1>9. Handler(p, "other", outcomes)
  BY <1>2 DEF outcomes
<1> QED
  BY <1>0, <1>8, <1>9, HandlerHolds

\* updateSessionHost, when the participant becomes the host.
LEMMA NewHostHolds ==
  ASSUME IInv, NEW p \in Pids, NEW g \in Registered(World), p \in Participants(World, g),
         Handler(p, "other", WriteAndLog(World, [World EXCEPT !.rows[g].host = p], g))
  PROVE  Holds
<1> DEFINE w == World
           row == w.rows[g]
           x == [row EXCEPT !.host = p]
           outcomes == WriteAndLog(w, [w EXCEPT !.rows[g].host = p], g)
<1>0. "other" \in Methods
  BY DEF Methods
<1>1. Good(w) /\ w \in Worlds /\ p \in ToSet(row.participants)
  BY DEF IInv, Good, Participants
<1>3. g \in Registered(w) /\ g \in Gids /\ row \in Gathering
  BY <1>1, WorldFields
<1>4. [w EXCEPT !.rows[g].host = p] = Put(w, g, x) /\ x \in Gathering
  <2> HIDE DEF w
  <2> QED
    BY <1>1, <1>3, PutHost
<1>5. /\ x.participants = row.participants /\ x.max = row.max /\ x.flags = row.flags
      /\ x.owner = row.owner /\ x.host = p
  <2> HIDE DEF row
  <2> QED
    BY <1>3 DEF Gathering
<1>6. outcomes = WriteAndLog(w, Put(w, g, x), g)
  BY <1>4
<1>9. Handler(p, "other", outcomes)
  OBVIOUS
<1> HIDE DEF x, w, outcomes
<1>7. Owned(row) => Owned(x)
  BY <1>1, <1>5 DEF Owned
<1>8. ASSUME NEW o \in outcomes PROVE Promise(o, p, "other")
  <2>2. /\ Moves(w, o.w, g)
        /\ \/ o.res = "ok" /\ o.w = Put(w, g, x) /\ o.w.rows[g] = x
           \/ o.res = "Unknown" /\ g \in o.w.broken /\ o.w.rows[g] \in {w.rows[g], x}
    BY <1>1, <1>3, <1>4, <1>6, WrittenFacts
  <2>3. o.res \in Results
    BY <2>2 DEF Results
  <2> QED
    BY <1>3, <1>4, <1>5, <1>7, <2>2, <2>3, UpdatePromise DEF w
<1> QED
  BY <1>0, <1>8, <1>9, HandlerHolds
\* A new owner is written, and everybody is told.
LEMMA TakeOverFacts ==
  ASSUME NEW w \in Worlds, NEW g \in Registered(w), NEW p \in Pids, NEW y \in Gathering,
         NEW o \in {IF r.res = "ok"
                    THEN Done(Tell(Put(w, g, y), Participants(w, g), "OwnershipChanged", g, p))
                    ELSE r : r \in WriteAndLog(w, Put(w, g, y), g)}
  PROVE  /\ Moves(w, o.w, g) /\ o.res \in Results
         /\ \/ g \in o.w.broken /\ o.w.rows[g] \in {w.rows[g], y}
            \/ o.w.rows[g] = y /\ AllHeard(o.w, Participants(w, g), "OwnershipChanged", g)
<1> DEFINE v == Put(w, g, y)
           qs == Participants(w, g)
           told == Tell(v, qs, "OwnershipChanged", g, p)
<1>1. g \in Gids /\ w.rows[g] \in Gathering /\ "OwnershipChanged" \in Events
  BY WorldFields DEF Events
<1>2. qs \in SUBSET Pids
  <2>1. w.rows[g].participants \in Seq(Pids)
    BY <1>1, GatheringFields
  <2> QED
    BY <2>1, ElementsTyped DEF Participants
<1>3. Moves(w, v, g) /\ v.rows[g] = y
  BY <1>1, PutFacts
<1>4. v \in Worlds
  BY <1>3 DEF Moves
<1>5. PICK r \in WriteAndLog(w, v, g) : o = IF r.res = "ok" THEN Done(told) ELSE r
  OBVIOUS
<1>6. /\ Moves(w, r.w, g)
      /\ \/ r.res = "ok" /\ r.w = v /\ r.w.rows[g] = y
         \/ r.res = "Unknown" /\ g \in r.w.broken /\ r.w.rows[g] \in {w.rows[g], y}
  BY <1>1, <1>5, WrittenFacts
<1>7. CASE r.res = "ok"
  <2>1. o.w = told /\ o.res = "ok"
    BY <1>5, <1>7 DEF Done
  <2> HIDE DEF v, qs
  <2>2. /\ Moves(v, told, g) /\ told.rows = v.rows
        /\ AllHeard(told, qs, "OwnershipChanged", g)
    BY <1>1, <1>2, <1>4, TellFacts
  <2> HIDE DEF told
  <2>3. Moves(w, told, g)
    BY <1>3, <2>2, MovesTransitive
  <2>4. AllHeard(o.w, qs, "OwnershipChanged", g) /\ o.w.rows[g] = y
    BY <1>3, <2>1, <2>2
  <2> QED
    BY <2>1, <2>3, <2>4 DEF Results, qs
<1>8. CASE r.res # "ok"
  <2>1. o = r /\ r.res = "Unknown"
    BY <1>5, <1>6, <1>8
  <2> QED
    BY <1>6, <2>1 DEF Results
<1> QED
  BY <1>7, <1>8

\* updateSessionHost, when the participant becomes the owner too.
LEMMA NewOwnerHolds ==
  ASSUME IInv, NEW p \in Pids, NEW g \in Registered(World), p \in Participants(World, g),
         NEW STATE owner,
         owner = [[World EXCEPT !.rows[g].host = p] EXCEPT !.rows[g].owner = p],
         Handler(p, "other",
           {IF o.res = "ok"
            THEN Done(Tell(owner, Participants(World, g), "OwnershipChanged", g, p)) ELSE o :
              o \in WriteAndLog(World, owner, g)})
  PROVE  Holds
<1> DEFINE w == World
           row == w.rows[g]
           x == [row EXCEPT !.host = p]
           y == [x EXCEPT !.owner = p]
           outcomes == {IF o.res = "ok"
                        THEN Done(Tell(Put(w, g, y), Participants(w, g),
                                       "OwnershipChanged", g, p))
                        ELSE o : o \in WriteAndLog(w, Put(w, g, y), g)}
<1>0. "other" \in Methods
  BY DEF Methods
<1>1. Good(w) /\ w \in Worlds /\ p \in ToSet(row.participants)
  BY DEF IInv, Good, Participants
<1>2. g \in Registered(w) /\ g \in Gids /\ row \in Gathering
  BY <1>1, WorldFields
<1>3. [w EXCEPT !.rows[g].host = p] = Put(w, g, x) /\ x \in Gathering
  <2> HIDE DEF w
  <2> QED
    BY <1>1, <1>2, PutHost
<1>4. /\ x.participants = row.participants /\ x.max = row.max /\ x.flags = row.flags
      /\ x.host = p
  <2> HIDE DEF row
  <2> QED
    BY <1>2 DEF Gathering
<1>5. owner = [Put(w, g, x) EXCEPT !.rows[g].owner = p]
  BY <1>3
<1> HIDE DEF x
<1>6. /\ y \in Gathering /\ y.participants = row.participants /\ y.max = row.max
      /\ y.flags = row.flags /\ y.host = p /\ y.owner = p
  BY <1>3, <1>4 DEF Gathering
<1>7. owner = Put(w, g, y)
  <2> HIDE DEF w
  <2>1. Put(w, g, x).rows[g] = x
    BY <1>1, <1>2, <1>3, PutFacts
  <2>2. [Put(w, g, x) EXCEPT !.rows[g].owner = p] = Put(Put(w, g, x), g, y)
    BY <2>1 DEF Put
  <2>3. Put(Put(w, g, x), g, y) = Put(w, g, y)
    BY <1>1, <1>2 DEF Put, Worlds
  <2> QED
    BY <1>5, <2>2, <2>3
<1>8. Handler(p, "other", outcomes)
  BY <1>7
<1> HIDE DEF y, w, outcomes
<1>9. Owned(row) => Owned(y)
  BY <1>1, <1>6 DEF Owned
<1>10. ASSUME NEW o \in outcomes PROVE Promise(o, p, "other")
  <2>1. /\ Moves(w, o.w, g) /\ o.res \in Results
        /\ \/ g \in o.w.broken /\ o.w.rows[g] \in {w.rows[g], y}
           \/ o.w.rows[g] = y /\ AllHeard(o.w, Participants(w, g), "OwnershipChanged", g)
    BY <1>1, <1>2, <1>6, <1>10, TakeOverFacts DEF outcomes
  <2> QED
    BY <1>2, <1>6, <1>9, <2>1, UpdatePromise DEF w
<1> QED
  BY <1>0, <1>8, <1>10, HandlerHolds

\* updateSessionHost, updateSessionHostV1, updateSessionURL
LEMMA UpdateSessionHostHolds ==
  ASSUME IInv, NEW p \in Pids, UpdateSessionHost(p)
  PROVE  Holds
<1> DEFINE Host(g)  == [World EXCEPT !.rows[g].host = p]
           Owner(g) == [[World EXCEPT !.rows[g].host = p] EXCEPT !.rows[g].owner = p]
<1>1. PICK g \in Registered(World), takesOver \in BOOLEAN :
        /\ p \in Participants(World, g)
        /\ Handler(p, "other",
             IF takesOver
             THEN {IF o.res = "ok"
                   THEN Done(Tell(Owner(g), Participants(World, g), "OwnershipChanged", g, p))
                   ELSE o : o \in WriteAndLog(World, Owner(g), g)}
             ELSE WriteAndLog(World, Host(g), g))
  BY DEF UpdateSessionHost
<1>2. CASE takesOver
  BY <1>1, <1>2, NewOwnerHolds
<1>3. CASE ~takesOver
  BY <1>1, <1>3, NewHostHolds
<1> QED
  BY <1>2, <1>3

\* The callback of a connection that ended.
LEMMA DisconnectParticipantHolds ==
  ASSUME IInv, NEW p \in Pids, DisconnectParticipant(p)
  PROVE  Holds
<1> DEFINE w == World
<1>1. Good(w)
  BY DEF IInv
<1>2. "other" \in Methods /\ "ok" \in Results
  BY DEF Methods, Results
<1>3. PICK o \in {Done(v) : v \in Disconnected(w, p)} :
        /\ gatherings' = o.w.rows /\ broken' = o.w.broken /\ sent' = o.w.sent
        /\ last' = [pid |-> p, method |-> "other", res |-> "ok"]
  BY DEF DisconnectParticipant, Answer
<1>4. PICK v \in Disconnected(w, p) : o = Done(v)
  BY <1>3
<1>5. o.w = v /\ o.res = "ok"
  BY <1>4 DEF Done
<1> HIDE DEF w
<1>6. Good(v) /\ Told(w, v, p)
  BY <1>1, <1>4, DisconnectedFacts
<1>7. Promise(o, p, "other")
  BY <1>2, <1>5, <1>6 DEF Promise, w
<1>8. link \in [Pids -> {"up", "down"}] /\ late \subseteq Pids
  BY DEF IInv, TypeOK
<1>9. link' = [link EXCEPT ![p] = "down"] /\ late' \in {late, late \cup {p}}
  BY DEF DisconnectParticipant
<1>10. /\ link' \in [Pids -> {"up", "down"}] /\ late' \subseteq Pids
       /\ \A q \in Pids \ {p} : link'[q] = "up" => link[q] = "up"
  BY <1>8, <1>9
<1> QED
  BY <1>2, <1>3, <1>7, <1>10, AnswerHolds
\* What holds of the tables stays true while they stay.
LEMMA SameTablesKeep ==
  ASSUME Good(World), gatherings' = gatherings, broken' = broken
  PROVE  Good(World)'
<1>1. World' = World
  BY DEF World
<1>2. Good(World)' <=> Good(World')
  BY DEF Good, Worlds, Fit, Owned, Registered
<1> QED
  BY <1>1, <1>2

\* A player connects.
LEMMA ConnectHolds ==
  ASSUME IInv, NEW p \in Pids, Connect(p)
  PROVE  Holds
<1>1. /\ gatherings' = gatherings /\ broken' = broken /\ late' = late
      /\ link' = [link EXCEPT ![p] = "up"] /\ sent' = {} /\ last' = Nothing
  BY DEF Connect
<1>2. TypeOK /\ Good(World)
  BY DEF IInv
<1>3. TypeOK'
  <2>1. Nothing \in [pid : Pids \cup {NoOne}, method : Methods, res : Results]
    BY DEF Nothing, Methods, Results
  <2>2. link' \in [Pids -> {"up", "down"}]
    BY <1>1, <1>2 DEF TypeOK
  <2>3. /\ gatherings' \in [Gids -> Gathering \cup {NoRow, Gone}]
        /\ late' \subseteq Pids /\ broken' \subseteq Gids
    BY <1>1, <1>2 DEF TypeOK
  <2>4. /\ sent' \subseteq Notification
        /\ last' \in [pid : Pids \cup {NoOne}, method : Methods, res : Results]
    BY <1>1, <2>1
  <2> QED
    BY <2>2, <2>3, <2>4 DEF TypeOK
<1>4. Good(World)'
  BY <1>1, <1>2, SameTablesKeep
<1>5. OneSession' /\ MatchIsJoined'
  BY <1>1 DEF OneSession, MatchIsJoined, Nothing
<1>6. ChangesTold
  <2>1. ASSUME NEW g \in Registered(World) PROVE gatherings[g] # Gone
    BY DEF Registered, World
  <2> QED
    BY <1>1, <2>1 DEF ChangesTold
<1> QED
  BY <1>3, <1>4, <1>5, <1>6 DEF Holds, IInv

\* A new process unregisters the sessions, or fails to.
LEMMA RestartHolds ==
  ASSUME IInv, Restart
  PROVE  Holds
<1>1. /\ link' = [p \in Pids |-> "down"] /\ late' = {} /\ broken' = broken
      /\ sent' = {} /\ last' = [Nothing EXCEPT !.method = "restart"]
  BY DEF Restart
<1>2. /\ gatherings \in [Gids -> Gathering \cup {NoRow, Gone}]
      /\ broken \subseteq Gids /\ Good(World)
  BY DEF IInv, TypeOK
<1>3. /\ gatherings' \in [Gids -> Gathering \cup {NoRow, Gone}]
      /\ \A g \in Gids : gatherings'[g] \in {gatherings[g], Gone}
  BY <1>2 DEF Restart
<1>4. last' = [pid |-> NoOne, method |-> "restart", res |-> "ok"]
  BY <1>1 DEF Nothing
<1>5. TypeOK'
  <2>1. last' \in [pid : Pids \cup {NoOne}, method : Methods, res : Results]
    BY <1>4 DEF Methods, Results
  <2>2. link' \in [Pids -> {"up", "down"}] /\ late' \subseteq Pids
    BY <1>1
  <2>3. broken' \subseteq Gids /\ sent' \subseteq Notification
    BY <1>1, <1>2
  <2> QED
    BY <1>3, <2>1, <2>2, <2>3 DEF TypeOK
<1>6. Good(World)'
  <2>1. World'.rows = gatherings' /\ World'.broken = broken /\ World'.sent = {}
    BY <1>1 DEF World
  <2>2. World' \in Worlds
    BY <1>1, <1>2, <1>3 DEF World, Worlds
  <2>3. ASSUME NEW g \in Registered(World')
        PROVE  /\ g \in Registered(World) /\ World'.rows[g] = World.rows[g]
               /\ World'.broken = World.broken
    BY <1>1, <1>3, <2>1, <2>3 DEF Registered, World
  <2>4. Good(World')
    <3> SUFFICES ASSUME NEW g \in Registered(World')
                 PROVE  /\ Fit(World'.rows[g])
                        /\ g \in World'.broken \/ Owned(World'.rows[g])
      BY <2>2 DEF Good
    <3>1. Fit(World.rows[g]) /\ (g \in World.broken \/ Owned(World.rows[g]))
      BY <1>2, <2>3 DEF Good
    <3> QED
      BY <2>3, <3>1
  <2> QED
    BY <2>4 DEF Good, Worlds, Fit, Owned, Registered
<1>7. OneSession' /\ MatchIsJoined' /\ ChangesTold
  BY <1>4 DEF OneSession, MatchIsJoined, ChangesTold
<1> QED
  BY <1>5, <1>6, <1>7 DEF Holds, IInv

-----------------------------------------------------------------------------
(***************************************************************************)
(* The theorems                                                            *)
(***************************************************************************)

LEMMA NextHolds == ASSUME IInv, Next PROVE Holds
<1>1. CASE Restart
  BY <1>1, RestartHolds
<1>2. ASSUME NEW p \in Pids,
             \/ CreateMatchmakeSession(p) \/ AutoMatchmakePostpone(p)
             \/ AutoMatchmakeBySearchCriteria(p) \/ JoinMatchmakeSession(p)
             \/ CreateCommunity(p) \/ EndParticipation(p) \/ UnregisterByOwner(p)
             \/ UpdateSessionHost(p) \/ SetParticipation(p)
             \/ Connect(p) \/ DisconnectParticipant(p)
      PROVE  Holds
  <2>1. CASE CreateMatchmakeSession(p)
    BY <2>1, CreateMatchmakeSessionHolds
  <2>2. CASE AutoMatchmakePostpone(p)
    BY <2>2, AutoMatchmakePostponeHolds
  <2>3. CASE AutoMatchmakeBySearchCriteria(p)
    BY <2>3, AutoMatchmakeBySearchCriteriaHolds
  <2>4. CASE JoinMatchmakeSession(p)
    BY <2>4, JoinMatchmakeSessionHolds
  <2>5. CASE CreateCommunity(p)
    BY <2>5, CreateCommunityHolds
  <2>6. CASE EndParticipation(p)
    BY <2>6, EndParticipationHolds
  <2>7. CASE UnregisterByOwner(p)
    BY <2>7, UnregisterByOwnerHolds
  <2>8. CASE UpdateSessionHost(p)
    BY <2>8, UpdateSessionHostHolds
  <2>9. CASE SetParticipation(p)
    BY <2>9, SetParticipationHolds
  <2>10. CASE Connect(p)
    BY <2>10, ConnectHolds
  <2>11. CASE DisconnectParticipant(p)
    BY <2>11, DisconnectParticipantHolds
  <2> QED
    BY <1>2, <2>1, <2>2, <2>3, <2>4, <2>5, <2>6, <2>7, <2>8, <2>9, <2>10, <2>11
<1> QED
  BY <1>1, <1>2 DEF Next

\* What is true of a state, and of the answer that led to it.
Inv == IInv /\ OneSession /\ MatchIsJoined

LEMMA InitHolds == Init => Inv
<1> SUFFICES ASSUME Init PROVE Inv
  OBVIOUS
<1>1. TypeOK
  BY DEF Init, TypeOK, Nothing, Methods, Results
<1>2. Good(World)
  <2>1. World.rows = [g \in Gids |-> NoRow] /\ World.broken = {} /\ World.sent = {}
    BY DEF Init, World
  <2>2. World \in Worlds
    BY DEF Init, World, Worlds
  <2>3. Registered(World) = {}
    BY <2>1 DEF Registered
  <2> QED
    BY <2>2, <2>3 DEF Good
<1>3. OneSession /\ MatchIsJoined
  BY DEF Init, Nothing, OneSession, MatchIsJoined
<1> QED
  BY <1>1, <1>2, <1>3 DEF Inv, IInv

LEMMA StutterKeeps == Inv /\ UNCHANGED vars => Inv'
<1> SUFFICES ASSUME Inv, UNCHANGED vars PROVE Inv'
  OBVIOUS
<1>1. /\ gatherings' = gatherings /\ link' = link /\ late' = late
      /\ broken' = broken /\ sent' = sent /\ last' = last
  BY DEF vars
<1>2. TypeOK'
  BY <1>1 DEF Inv, IInv, TypeOK
<1>3. Good(World)'
  BY <1>1, SameTablesKeep DEF Inv, IInv
<1>4. OneSession'
  <2>1. Sessions(World, last.pid)' = Sessions(World, last.pid)
    BY <1>1 DEF Sessions, Registered, Participants, World
  <2> QED
    BY <1>1, <2>1 DEF Inv, OneSession
<1>5. MatchIsJoined'
  BY <1>1 DEF Inv, MatchIsJoined
<1> QED
  BY <1>2, <1>3, <1>4, <1>5 DEF Inv, IInv

\* Whatever the outcomes of the statements and whatever the order of requests,
\* connections and restarts, the tables stay good, and an answer is true.
THEOREM Invariant == Spec => []Inv
<1>1. Inv /\ [Next]_vars => Inv'
  BY NextHolds, StutterKeeps DEF Holds, Inv
<1> QED
  BY InitHolds, <1>1, PTL DEF Spec

\* The tables of the matchmaking hold gatherings of the declared types, and a
\* notification goes to a player about a player.
THEOREM TypeCorrect == Spec => []TypeOK
<1>1. Inv => TypeOK
  BY DEF Inv, IInv
<1> QED
  BY Invariant, <1>1, PTL

\* No way into a gathering leads past its max_participants, for any maxima,
\* numbers of guests and lists of players that are brought along.
THEOREM CapacityIsKept == Spec => []CapacityKept
<1>1. Inv => CapacityKept
  BY DEF Inv, IInv, Good, Fit, CapacityKept, World
<1> QED
  BY Invariant, <1>1, PTL

\* The owner and the host of a gathering that somebody is in take part in it,
\* however its participants left, unless a statement has failed or its flags
\* let it go on without anybody.
THEOREM OwnerParticipates == Spec => []OwnerTakesPart
<1>1. Inv => OwnerTakesPart
  BY DEF Inv, IInv, Good, Owned, OwnerTakesPart, World
<1> QED
  BY Invariant, <1>1, PTL

\* A player who was let into a session is in that session only, however many
\* there were before.
THEOREM InOneSession == Spec => []OneSession
<1>1. Inv => OneSession
  BY DEF Inv
<1> QED
  BY Invariant, <1>1, PTL

\* autoMatchmakePostpone joins what it has found.
THEOREM FoundIsJoinable == Spec => []MatchIsJoined
<1>1. Inv => MatchIsJoined
  BY DEF Inv
<1> QED
  BY Invariant, <1>1, PTL

\* Whoever stays in a gathering and is connected is told when a handler or a
\* disconnection unregisters it or changes its owner.
THEOREM EverybodyIsTold == Spec => ChangesAreTold
<1>1. Inv /\ Next => ChangesTold
  BY NextHolds DEF Inv, Holds
<1>2. Inv /\ [Next]_vars => [ChangesTold]_vars
  BY <1>1
<1>3. Spec => [][ChangesTold]_vars
  BY Invariant, <1>2, PTL DEF Spec
<1> QED
  BY <1>3 DEF ChangesAreTold, ChangesTold
=============================================================================

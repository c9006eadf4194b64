-------------------------- MODULE ObjectLifecycle --------------------------
(***************************************************************************)
(* What the DataStore promises of an object: it is created once, for one   *)
(* owner who stays its owner, waits for its file unless it is imported     *)
(* with it, may be published, and once withdrawn never comes back.  An id  *)
(* is never used for a second object.                                      *)
(***************************************************************************)
CONSTANTS Objects, Owners, NoOwner
VARIABLES stage, owner

lifeVars == <<stage, owner>>

\* Objects may be there from before.
Init ==
  /\ stage \in [Objects -> {"absent", "published"}]
  /\ owner \in [Objects -> Owners \cup {NoOwner}]
  /\ \A o \in Objects : owner[o] = NoOwner <=> stage[o] = "absent"

Create(o) ==
  /\ stage[o] = "absent"
  /\ stage' = [stage EXCEPT ![o] = "pending"]
  /\ \E p \in Owners : owner' = [owner EXCEPT ![o] = p]

Import(o) ==
  /\ stage[o] = "absent"
  /\ stage' = [stage EXCEPT ![o] = "published"]
  /\ \E p \in Owners : owner' = [owner EXCEPT ![o] = p]

Publish(o) ==
  /\ stage[o] = "pending"
  /\ stage' = [stage EXCEPT ![o] = "published"]
  /\ UNCHANGED owner

Withdraw(o) ==
  /\ stage[o] \in {"pending", "published"}
  /\ stage' = [stage EXCEPT ![o] = "withdrawn"]
  /\ UNCHANGED owner

Next == \E o \in Objects : Create(o) \/ Import(o) \/ Publish(o) \/ Withdraw(o)

Spec == Init /\ [][Next]_lifeVars
=============================================================================

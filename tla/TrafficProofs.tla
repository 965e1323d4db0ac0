---------------------------- MODULE TrafficProofs ---------------------------
(***************************************************************************)
(* Proofs about the clients, what they listen to and what the worker sends *)
(* through them, for any number of accounts, users, channels, tasks,       *)
(* targets and campaigns and for any limits.                               *)
(* ClientPool: the reference count is exact, and the pool implements       *)
(* SharedClient. ChannelSync: pending rows have a task, settled rows are   *)
(* those the settings ask for.  ChannelListeners: the handlers follow the  *)
(* rows. PostMonitor: the cursor passes over no post.  Governor: how far a *)
(* counter goes past its limit.  CommentDelivery: one comment per message, *)
(* none lost silently, the pace.  Priming: nobody is primed twice, a       *)
(* running campaign has a tick to come, and lets go of the targets it      *)
(* took.  Shilling: a dialog is said line by line, each line once.         *)
(***************************************************************************)
EXTENDS ClientPool, ChannelSync, ChannelListeners, PostMonitor, Governor, CommentDelivery,
        Priming, Shilling, FiniteSetTheorems, WellFoundedInduction, TLAPS

(*************** ClientPool ***************)

\* A user that has called the pool did so for an account.
UsersKnown == \A u \in Users : At(u, "out") \/ user[u].acct \in Accounts

IInv == PoolTypeOK /\ UsersKnown /\ RefsExact

UserRows == [at: PoolPlaces, acct: Accounts \cup {NULL}, client: Clients \cup {NULL}]

\* Only user u moves, to a place, still for its account if it has one.
UserMoves(u, place, a) ==
    /\ user' \in [Users -> UserRows]
    /\ user'[u].at = place /\ user'[u].acct = a
    /\ \A v \in Users \ {u} : user'[v] = user[v]
-----------------------------------------------------------------------------
\* What a step does to the accounts that the abstract pool knows: nothing (Quiet), or one
\* user takes a reference of one account, gives it back, or leaves it behind.
Same(a) == Holders(a)' = Holders(a) /\ managed'[a] = managed[a] /\ lost'[a] = lost[a]

Others(a) == overdrawn' = overdrawn /\ \A b \in Accounts \ (overdrawn \cup {a}) : Same(b)

Quiet == overdrawn' = overdrawn /\ \A a \in Accounts \ overdrawn : Same(a)

Takes(u, a) ==
    /\ a \in Accounts \ overdrawn /\ Others(a)
    /\ u \notin Holders(a) /\ Holders(a)' = Holders(a) \cup {u}
    /\ managed'[a].refs = managed[a].refs + 1 /\ lost'[a] = lost[a]

Gives(u, a) ==
    /\ a \in Accounts \ overdrawn /\ Others(a)
    /\ u \in Holders(a) /\ Holders(a)' = Holders(a) \ {u}
    /\ IF managed[a].refs - 1 <= 0 THEN managed'[a] = Absent
                                   ELSE managed'[a].refs = managed[a].refs - 1
    /\ lost'[a] = lost[a]

Leaves(u, a) ==
    /\ a \in Accounts \ overdrawn /\ Others(a)
    /\ u \in Holders(a) /\ Holders(a)' = Holders(a) \ {u}
    /\ managed'[a] = managed[a] /\ lost'[a] = lost[a] + 1

Step == RefsExact' /\ [Shared!SharedNext]_(Shared!sharedVars)
-----------------------------------------------------------------------------
\* Those who hold a client are some of the users.
LEMMA HoldersFinite ==
  ASSUME PoolAssumption, NEW a \in Accounts
  PROVE  /\ IsFiniteSet(Holders(a)) /\ Cardinality(Holders(a)) \in Nat
         /\ Holders(a) \in SUBSET Users
         /\ \A u \in Holders(a) : /\ Cardinality(Holders(a) \ {u}) = Cardinality(Holders(a)) - 1
                                  /\ Cardinality(Holders(a)) > 0
         /\ \A u \in Users : u \notin Holders(a) =>
               Cardinality(Holders(a) \cup {u}) = Cardinality(Holders(a)) + 1
<1>1. Holders(a) \in SUBSET Users /\ IsFiniteSet(Users)
  BY DEF Holders, PoolAssumption
<1>2. IsFiniteSet(Holders(a)) /\ Cardinality(Holders(a)) \in Nat
  BY <1>1, FS_Subset, FS_CardinalityType
<1>3. ASSUME NEW u \in Holders(a)
      PROVE  /\ Cardinality(Holders(a) \ {u}) = Cardinality(Holders(a)) - 1
             /\ Cardinality(Holders(a)) > 0
  <2>1. Cardinality(Holders(a) \ {u}) = Cardinality(Holders(a)) - 1
    BY <1>2, FS_RemoveElement
  <2>2. IsFiniteSet(Holders(a) \ {u})
    BY <1>2, FS_RemoveElement
  <2>3. Cardinality(Holders(a) \ {u}) \in Nat
    BY <2>2, FS_CardinalityType
  <2> QED
    BY <1>2, <2>1, <2>3
<1>4. ASSUME NEW u \in Users, u \notin Holders(a)
      PROVE  Cardinality(Holders(a) \cup {u}) = Cardinality(Holders(a)) + 1
  BY <1>2, <1>4, FS_AddElement
<1> QED
  BY <1>1, <1>2, <1>3, <1>4

\* Counts and lost references are numbers.
LEMMA Numbers ==
  ASSUME PoolTypeOK, NEW a \in Accounts
  PROVE  managed[a].refs \in Nat /\ lost[a] \in Nat /\ Absent.refs = 0
BY DEF PoolTypeOK, Absent

LEMMA QuietStep == ASSUME IInv, Quiet PROVE Step
<1>1. RefsExact'
  BY DEF IInv, RefsExact, Quiet, Same
<1>2. UNCHANGED Shared!sharedVars
  BY DEF Quiet, Same, Shared!sharedVars
<1> QED
  BY <1>1, <1>2 DEF Step

LEMMA TakesStep ==
  ASSUME PoolAssumption, IInv, PoolTypeOK', NEW u \in Users, NEW a \in Accounts, Takes(u, a)
  PROVE  Step
<1>1. managed[a].refs = Cardinality(Holders(a)) + lost[a]
  BY DEF IInv, RefsExact, Takes
<1>2. managed'[a].refs = Cardinality(Holders(a)') + lost'[a] /\ managed'[a].refs > 0
  BY <1>1, HoldersFinite, Numbers DEF Takes, IInv
<1>3. RefsExact'
  BY <1>2 DEF IInv, RefsExact, Takes, Others, Same
<1>4. managed'[a] # Absent
  BY <1>2, Numbers DEF IInv
<1>5. Shared!Hold(u, a)
  BY <1>4 DEF Takes, Others, Same, Shared!Hold
<1> QED
  BY <1>3, <1>5 DEF Step, Shared!SharedNext

LEMMA GivesStep ==
  ASSUME PoolAssumption, IInv, PoolTypeOK', NEW u \in Users, NEW a \in Accounts, Gives(u, a)
  PROVE  Step
<1>1. managed[a].refs = Cardinality(Holders(a)) + lost[a]
  BY DEF IInv, RefsExact, Gives
<1>2. /\ managed[a].refs \in Nat /\ managed'[a].refs \in Nat /\ lost[a] \in Nat
      /\ Cardinality(Holders(a)) \in Nat /\ Cardinality(Holders(a)) > 0
      /\ Cardinality(Holders(a)') = Cardinality(Holders(a)) - 1
  <2>1. managed'[a].refs \in Nat
    BY DEF PoolTypeOK
  <2>2. managed[a].refs \in Nat /\ lost[a] \in Nat
    BY Numbers DEF IInv
  <2>3. /\ Cardinality(Holders(a)) \in Nat /\ Cardinality(Holders(a)) > 0
        /\ Cardinality(Holders(a) \ {u}) = Cardinality(Holders(a)) - 1
    BY HoldersFinite DEF Gives
  <2>4. Holders(a)' = Holders(a) \ {u}
    BY DEF Gives
  <2> QED
    BY <2>1, <2>2, <2>3, <2>4
<1>3. managed'[a].refs = managed[a].refs - 1
  BY <1>1, <1>2, Numbers DEF Gives, IInv
<1>4. managed'[a].refs = Cardinality(Holders(a)') + lost'[a]
  BY <1>1, <1>2, <1>3 DEF Gives
<1>5. RefsExact'
  BY <1>4 DEF IInv, RefsExact, Gives, Others, Same
<1>6. managed'[a] = Absent <=> Holders(a) = {u} /\ lost[a] = 0
  <2>1. managed'[a] = Absent <=> managed[a].refs = 1
    BY <1>2, <1>3, Numbers DEF Gives, IInv
  <2>2. Cardinality(Holders(a)) = 1 <=> Holders(a) = {u}
    <3>1. Cardinality(Holders(a) \ {u}) = Cardinality(Holders(a)) - 1
          /\ IsFiniteSet(Holders(a) \ {u})
      BY HoldersFinite, FS_RemoveElement DEF Gives
    <3>2. Cardinality(Holders(a) \ {u}) = 0 <=> Holders(a) \ {u} = {}
      BY <3>1, FS_EmptySet
    <3>3. Holders(a) \ {u} = {} <=> Holders(a) = {u}
      BY DEF Gives
    <3> QED
      BY <1>2, <3>1, <3>2, <3>3
  <2> QED
    BY <1>1, <1>2, <2>1, <2>2
<1>7. managed[a] # Absent
  BY <1>1, <1>2, Numbers DEF IInv
<1>8. Shared!GiveBack(u, a)
  <2> DEFINE holders == [b \in Accounts |-> IF b \in overdrawn THEN {} ELSE Holders(b)]
             open == {b \in Accounts \ overdrawn : managed[b] # Absent}
             abandoned == {b \in Accounts \ overdrawn : lost[b] > 0}
  <2>1. u \in holders[a] /\ holders[a] = Holders(a)
    BY DEF Gives
  <2>2. holders' = [holders EXCEPT ![a] = @ \ {u}]
    BY DEF Gives, Others, Same
  <2>3. a \in abandoned <=> lost[a] # 0
    BY <1>2 DEF Gives
  <2>4. open' = IF holders[a] = {u} /\ a \notin abandoned THEN open \ {a} ELSE open
    <3>1. \A b \in Accounts \ overdrawn : b # a => (managed'[b] # Absent <=> managed[b] # Absent)
      BY DEF Gives, Others, Same
    <3>2. overdrawn' = overdrawn /\ a \in open /\ a \in Accounts \ overdrawn
      BY <1>7 DEF Gives, Others
    <3>3. CASE managed'[a] = Absent
      <4>1. open' = open \ {a}
        BY <3>1, <3>2, <3>3
      <4> QED
        BY <1>6, <2>1, <2>3, <3>3, <4>1
    <3>4. CASE managed'[a] # Absent
      <4>1. open' = open
        BY <3>1, <3>2, <3>4
      <4> QED
        BY <1>6, <2>1, <2>3, <3>4, <4>1
    <3> QED
      BY <3>3, <3>4
  <2>5. UNCHANGED <<abandoned, overdrawn>>
    BY DEF Gives, Others, Same
  <2> QED
    BY <2>1, <2>2, <2>4, <2>5 DEF Shared!GiveBack
<1> QED
  BY <1>5, <1>8 DEF Step, Shared!SharedNext

LEMMA LeavesStep ==
  ASSUME PoolAssumption, IInv, PoolTypeOK', NEW u \in Users, NEW a \in Accounts, Leaves(u, a)
  PROVE  Step
<1>1. managed[a].refs = Cardinality(Holders(a)) + lost[a]
  BY DEF IInv, RefsExact, Leaves
<1>2. /\ lost[a] \in Nat /\ Cardinality(Holders(a)) \in Nat
      /\ Cardinality(Holders(a)') = Cardinality(Holders(a)) - 1
  <2>1. lost[a] \in Nat
    BY Numbers DEF IInv
  <2>2. /\ Cardinality(Holders(a)) \in Nat
        /\ Cardinality(Holders(a) \ {u}) = Cardinality(Holders(a)) - 1
    BY HoldersFinite DEF Leaves
  <2>3. Holders(a)' = Holders(a) \ {u}
    BY DEF Leaves
  <2> QED
    BY <2>1, <2>2, <2>3
<1>3. managed'[a].refs = Cardinality(Holders(a)') + lost'[a]
  BY <1>1, <1>2 DEF Leaves
<1>4. RefsExact'
  BY <1>3 DEF IInv, RefsExact, Leaves, Others, Same
<1>5. Shared!Abandon(u, a)
  <2> DEFINE holders == [b \in Accounts |-> IF b \in overdrawn THEN {} ELSE Holders(b)]
             open == {b \in Accounts \ overdrawn : managed[b] # Absent}
             abandoned == {b \in Accounts \ overdrawn : lost[b] > 0}
  <2>1. u \in holders[a]
    BY DEF Leaves
  <2>2. holders' = [holders EXCEPT ![a] = @ \ {u}]
    BY DEF Leaves, Others, Same
  <2>3. abandoned' = abandoned \cup {a}
    BY <1>2 DEF Leaves, Others, Same
  <2>4. UNCHANGED <<overdrawn, open>>
    BY DEF Leaves, Others, Same
  <2> QED
    BY <2>1, <2>2, <2>3, <2>4 DEF Shared!Abandon
<1> QED
  BY <1>4, <1>5 DEF Step, Shared!SharedNext
-----------------------------------------------------------------------------
\* Who holds a client after a step of one user.
LEMMA HoldersMove ==
  ASSUME NEW u \in Users, NEW place, NEW b, UserMoves(u, place, b), NEW a \in Accounts
  PROVE  /\ Holders(a)' = (Holders(a) \ {u})
                             \cup (IF b = a /\ place \in Holding THEN {u} ELSE {})
         /\ u \in Holders(a) <=> user[u].acct = a /\ user[u].at \in Holding
BY DEF UserMoves, Holders

\* Whoever is under way has an account, before and after a step.
LEMMA KnownStays ==
  ASSUME IInv, NEW u \in Users, NEW place, NEW a, UserMoves(u, place, a),
         place = "out" \/ a \in Accounts
  PROVE  UsersKnown'
BY DEF UserMoves, UsersKnown, At, IInv

\* A row with two fields changed is a row.
LEMMA RowTypes ==
  ASSUME PoolTypeOK, NEW u \in Users
  PROVE  /\ user[u] \in UserRows /\ user \in [Users -> UserRows]
         /\ user[u].at \in PoolPlaces
         /\ Out \in UserRows /\ Out.at = "out" /\ Out.acct = NULL
         /\ Absent \in [client: Clients \cup {NULL}, refs: Nat]
BY DEF PoolTypeOK, UserRows, Out, Absent, PoolPlaces

\* A user goes on to a place, keeping account and client.
LEMMA MovedMoves ==
  ASSUME PoolTypeOK, NEW u \in Users, NEW place \in PoolPlaces, user' = Moved(u, place)
  PROVE  UserMoves(u, place, user[u].acct)
<1>1. [user[u] EXCEPT !.at = place] \in UserRows
  BY RowTypes DEF UserRows
<1>2. user' = [user EXCEPT ![u] = [user[u] EXCEPT !.at = place]]
  BY RowTypes DEF Moved
<1> QED
  BY <1>1, <1>2, RowTypes DEF UserMoves, UserRows

\* A user is done.
LEMMA OutMoves ==
  ASSUME PoolTypeOK, NEW u \in Users, user' = [user EXCEPT ![u] = Out]
  PROVE  UserMoves(u, "out", NULL)
BY RowTypes DEF UserMoves

\* A user goes on to a place, and its client is known now.
LEMMA ClientMoves ==
  ASSUME PoolTypeOK, NEW u \in Users, NEW place \in PoolPlaces, NEW c \in Clients \cup {NULL},
         user' = [user EXCEPT ![u].at = place, ![u].client = c]
  PROVE  UserMoves(u, place, user[u].acct)
<1>1. [user[u] EXCEPT !.at = place, !.client = c] \in UserRows
  BY RowTypes DEF UserRows
<1>2. user' = [user EXCEPT ![u] = [user[u] EXCEPT !.at = place, !.client = c]]
  BY RowTypes
<1>3. [user[u] EXCEPT !.at = place, !.client = c].at = place
      /\ [user[u] EXCEPT !.at = place, !.client = c].acct = user[u].acct
  BY RowTypes DEF UserRows
<1> QED
  BY <1>1, <1>2, <1>3, RowTypes DEF UserMoves

\* A release is over, or its second half is to come.
LEMMA LeftMoves ==
  ASSUME PoolTypeOK, NEW u \in Users, user' = Left(u)
  PROVE  UserMoves(u, "out", NULL) \/ UserMoves(u, "again", user[u].acct)
<1>1. CASE u \in twice
  <2>1. user' = [user EXCEPT ![u] = [user[u] EXCEPT !.at = "again", !.client = NULL]]
    BY <1>1, RowTypes DEF Left
  <2>2. [user[u] EXCEPT !.at = "again", !.client = NULL] \in UserRows
    BY RowTypes DEF UserRows, PoolPlaces
  <2>3. [user[u] EXCEPT !.at = "again", !.client = NULL].at = "again"
        /\ [user[u] EXCEPT !.at = "again", !.client = NULL].acct = user[u].acct
    BY RowTypes DEF UserRows
  <2> QED
    BY <2>1, <2>2, <2>3, RowTypes DEF UserMoves
<1>2. CASE u \notin twice
  BY <1>2, RowTypes, OutMoves DEF Left
<1> QED
  BY <1>1, <1>2
-----------------------------------------------------------------------------
\* One lemma per action: types, that users have accounts, and the abstract step.
LEMMA InitIInv == ASSUME PoolAssumption, PoolInit PROVE IInv /\ Shared!SharedInit
<1>1. \A u \in Users : user[u] = Out
  BY DEF PoolInit
<1>2. PoolTypeOK
  <2>1. Out \in [at: PoolPlaces, acct: Accounts \cup {NULL}, client: Clients \cup {NULL}]
    BY DEF Out, PoolPlaces
  <2>2. Absent \in [client: Clients \cup {NULL}, refs: Nat]
    BY DEF Absent
  <2> QED
    BY <2>1, <2>2 DEF PoolInit, PoolTypeOK
<1>3. UsersKnown
  BY <1>1 DEF UsersKnown, At, Out
<1>4. \A a \in Accounts : Holders(a) = {}
  BY <1>1 DEF Holders, Holding, Out
<1>5. RefsExact
  <2> SUFFICES ASSUME NEW a \in Accounts PROVE managed[a].refs = Cardinality(Holders(a)) + lost[a]
    BY DEF RefsExact
  <2>1. Cardinality(Holders(a)) = 0
    BY <1>4, FS_EmptySet
  <2>2. managed[a].refs = 0 /\ lost[a] = 0
    BY DEF PoolInit, Absent
  <2> QED
    BY <2>1, <2>2
<1>6. Shared!SharedInit
  BY <1>4 DEF PoolInit, Shared!SharedInit
<1> QED
  BY <1>2, <1>3, <1>5, <1>6 DEF IInv

LEMMA CallGetKeeps ==
  ASSUME IInv, NEW u \in Users, NEW a \in Accounts, CallGet(u, a)
  PROVE  PoolTypeOK' /\ UsersKnown' /\ Step
<1> DEFINE new == [at |-> "get", acct |-> a, client |-> NULL]
<1>1. new \in UserRows /\ new.at = "get" /\ new.acct = a
  BY DEF UserRows, PoolPlaces
<1> HIDE DEF new
<1>2. UserMoves(u, "get", a)
  BY <1>1, RowTypes DEF IInv, CallGet, UserMoves, new
<1>3. PoolTypeOK'
  BY <1>2 DEF IInv, PoolTypeOK, CallGet, doubles, UserMoves, UserRows
<1>4. UsersKnown'
  BY <1>2, KnownStays
<1>5. \A b \in Accounts : Holders(b)' = Holders(b)
  BY <1>2, HoldersMove DEF CallGet, At, Holding
<1>6. Quiet
  BY <1>5 DEF CallGet, Quiet, Same, doubles
<1> QED
  BY <1>3, <1>4, <1>6, QuietStep

LEMMA GetSharedKeeps ==
  ASSUME PoolAssumption, IInv, NEW u \in Users, GetShared(u)
  PROVE  PoolTypeOK' /\ UsersKnown' /\ Step
<1>1. PICK a \in Accounts : a = user[u].acct
  BY DEF GetShared, IInv, UsersKnown, At
<1> DEFINE c == managed[a].client
<1>2. c \in Clients \cup {NULL} /\ managed[a].refs \in Nat
      /\ managed[a] \in [client: Clients \cup {NULL}, refs: Nat]
  BY <1>1 DEF IInv, PoolTypeOK
<1>3. PICK place \in {"using", "connecting"} : UserMoves(u, place, a)
  <2>1. "using" \in PoolPlaces /\ "connecting" \in PoolPlaces
    BY DEF PoolPlaces
  <2> HIDE DEF c
  <2>2. CASE conn[c] = "on"
    <3>1. user' = [user EXCEPT ![u].at = "using", ![u].client = c]
      BY <1>1, <2>2 DEF GetShared, c
    <3> QED
      BY <1>1, <1>2, <2>1, <3>1, ClientMoves DEF IInv
  <2>3. CASE conn[c] # "on"
    <3>1. user' = [user EXCEPT ![u].at = "connecting", ![u].client = c]
      BY <1>1, <2>3 DEF GetShared, c
    <3> QED
      BY <1>1, <1>2, <2>1, <3>1, ClientMoves DEF IInv
  <2> QED
    BY <2>2, <2>3
<1>4. managed' = [managed EXCEPT ![a].refs = @ + 1]
  BY <1>1 DEF GetShared
<1>5. /\ managed' \in [Accounts -> [client: Clients \cup {NULL}, refs: Nat]]
      /\ managed'[a].refs = managed[a].refs + 1
      /\ \A b \in Accounts \ {a} : managed'[b] = managed[b]
  <2> QED
    BY <1>1, <1>2, <1>4 DEF IInv, PoolTypeOK
<1>6. PoolTypeOK'
  <2>1. lock' \in Users \cup {NULL}
    BY DEF GetShared, IInv, PoolTypeOK
  <2> QED
    BY <1>3, <1>5, <2>1 DEF IInv, PoolTypeOK, GetShared, doubles, UserMoves, UserRows
<1>7. UsersKnown'
  BY <1>1, <1>3, KnownStays
<1>8. \A b \in Accounts : /\ Holders(b)' = IF b = a THEN Holders(b) \cup {u} ELSE Holders(b)
                          /\ u \notin Holders(b)
  <2>1. user[u].at = "get" /\ place \in Holding
    BY DEF GetShared, At, Holding
  <2> QED
    BY <1>1, <1>3, <2>1, HoldersMove DEF Holding
<1>9. lost' = lost /\ overdrawn' = overdrawn
  BY DEF GetShared, doubles
<1>10. CASE a \in overdrawn
  <2>1. Quiet
    BY <1>5, <1>8, <1>9, <1>10 DEF Quiet, Same
  <2> QED
    BY <1>6, <1>7, <2>1, QuietStep
<1>11. CASE a \notin overdrawn
  <2>1. Takes(u, a)
    <3>1. Others(a)
      BY <1>5, <1>8, <1>9 DEF Others, Same
    <3>2. managed'[a].refs = managed[a].refs + 1
      BY <1>5
    <3>3. u \notin Holders(a) /\ Holders(a)' = Holders(a) \cup {u}
      BY <1>1, <1>8
    <3>4. lost'[a] = lost[a] /\ a \in Accounts \ overdrawn
      BY <1>1, <1>9, <1>11
    <3> QED
      BY <3>1, <3>2, <3>3, <3>4 DEF Takes
  <2> QED
    BY <1>1, <1>6, <1>7, <2>1, TakesStep
<1> QED
  BY <1>10, <1>11

LEMMA GetNewKeeps ==
  ASSUME PoolAssumption, IInv, NEW u \in Users, GetNew(u)
  PROVE  PoolTypeOK' /\ UsersKnown' /\ Step
<1>1. PICK a \in Accounts : a = user[u].acct
  BY DEF GetNew, IInv, UsersKnown, At
<1>2. PICK c \in Clients : /\ managed' = [managed EXCEPT ![a] = [client |-> c, refs |-> 1]]
                           /\ user' = [user EXCEPT ![u].at = "connecting", ![u].client = c]
  BY <1>1 DEF GetNew
<1>3. UserMoves(u, "connecting", a)
  BY <1>1, <1>2, ClientMoves DEF IInv, PoolPlaces
<1>4. /\ managed' \in [Accounts -> [client: Clients \cup {NULL}, refs: Nat]]
      /\ managed'[a].refs = 1 /\ managed[a].refs = 0
      /\ \A b \in Accounts \ {a} : managed'[b] = managed[b]
  <2>1. managed[a] = Absent
    BY <1>1 DEF GetNew
  <2> QED
    BY <1>1, <1>2, <2>1 DEF IInv, PoolTypeOK, Absent
<1>5. lost' = lost /\ overdrawn' = overdrawn /\ lock' = u
  BY DEF GetNew, doubles
<1>6. PoolTypeOK'
  BY <1>3, <1>4, <1>5 DEF IInv, PoolTypeOK, GetNew, doubles, UserMoves, UserRows
<1>7. UsersKnown'
  BY <1>1, <1>3, KnownStays
<1>8. \A b \in Accounts : /\ Holders(b)' = IF b = a THEN Holders(b) \cup {u} ELSE Holders(b)
                          /\ u \notin Holders(b)
  <2>1. user[u].at = "get"
    BY DEF GetNew, At
  <2> QED
    BY SMTT(20), <1>1, <1>3, <2>1, HoldersMove DEF Holding
<1>9. CASE a \in overdrawn
  <2>1. Quiet
    BY <1>4, <1>5, <1>8, <1>9 DEF Quiet, Same
  <2> QED
    BY <1>6, <1>7, <2>1, QuietStep
<1>10. CASE a \notin overdrawn
  <2>1. Takes(u, a)
    <3>1. Others(a)
      BY <1>4, <1>8, <1>5 DEF Others, Same
    <3>2. managed'[a].refs = managed[a].refs + 1
      BY <1>4
    <3>3. u \notin Holders(a) /\ Holders(a)' = Holders(a) \cup {u}
      BY <1>1, <1>8
    <3>4. lost'[a] = lost[a] /\ a \in Accounts \ overdrawn
      BY <1>1, <1>5, <1>10
    <3> QED
      BY <3>1, <3>2, <3>3, <3>4 DEF Takes
  <2> QED
    BY <1>1, <1>6, <1>7, <2>1, TakesStep
<1> QED
  BY <1>9, <1>10

\* Steps that move one user and leave entries and lost references alone.
LEMMA MoveKeeps ==
  ASSUME IInv, NEW u \in Users, NEW place, NEW a, UserMoves(u, place, a),
         place = "out" \/ a \in Accounts, place \in Holding => a = user[u].acct,
         place \in Holding <=> user[u].at \in Holding,
         conn' \in [Clients -> {"on", "off"}], lock' \in Users \cup {NULL},
         twice' \subseteq Users, mishaps' \in Nat, UNCHANGED <<managed, lost, overdrawn, closed>>
  PROVE  PoolTypeOK' /\ UsersKnown' /\ Step
<1>1. PoolTypeOK'
  BY DEF IInv, PoolTypeOK, UserMoves, UserRows
<1>2. UsersKnown'
  BY KnownStays
<1>3. ASSUME NEW b \in Accounts PROVE Holders(b)' = Holders(b)
  <2>1. /\ Holders(b)' = (Holders(b) \ {u})
                             \cup (IF a = b /\ place \in Holding THEN {u} ELSE {})
        /\ u \in Holders(b) <=> user[u].acct = b /\ user[u].at \in Holding
    BY HoldersMove
  <2>2. CASE place \in Holding
    BY <2>1, <2>2
  <2>3. CASE place \notin Holding
    BY <2>1, <2>3
  <2> QED
    BY <2>2, <2>3
<1>4. Quiet
  BY <1>3 DEF Quiet, Same
<1> QED
  BY <1>1, <1>2, <1>4, QuietStep
\* A user that has nothing is refused, connects, calls release, fails or loses its network;
\* a disconnect returns.
LEMMA PlainKeeps ==
  ASSUME IInv, NEW u \in Users,
         \/ GetRefused(u) \/ Connect(u) \/ CallRelease(u) \/ UseFails(u) \/ Disconnect(u)
  PROVE  PoolTypeOK' /\ UsersKnown' /\ Step
<1>1. /\ conn \in [Clients -> {"on", "off"}] /\ lock \in Users \cup {NULL}
      /\ twice \subseteq Users /\ mishaps \in Nat /\ PoolTypeOK
  BY DEF IInv, PoolTypeOK
<1>2. ~ At(u, "out") => user[u].acct \in Accounts
  BY DEF IInv, UsersKnown
<1>3. {"using", "release"} \subseteq Holding /\ {"using", "release"} \subseteq PoolPlaces
  BY DEF Holding, PoolPlaces
<1>4. CASE GetRefused(u)
  <2>1. UserMoves(u, "out", NULL)
    BY <1>1, <1>4, OutMoves DEF GetRefused
  <2>2. "out" \notin Holding /\ user[u].at \notin Holding
    BY <1>4 DEF GetRefused, At, Holding
  <2> QED
    BY <1>1, <1>4, <2>1, <2>2, MoveKeeps DEF GetRefused, doubles
<1>5. CASE Connect(u)
  <2>1. UserMoves(u, "using", user[u].acct)
    BY <1>1, <1>3, <1>5, MovedMoves DEF Connect
  <2>2. user[u].at \in Holding /\ ~ At(u, "out")
    BY <1>5 DEF Connect, At, Holding
  <2>3. conn' \in [Clients -> {"on", "off"}] /\ lock' \in Users \cup {NULL}
    BY <1>1, <1>5 DEF Connect
  <2> QED
    BY <1>1, <1>2, <1>3, <1>5, <2>1, <2>2, <2>3, MoveKeeps DEF Connect, doubles
<1>6. CASE CallRelease(u)
  <2>1. UserMoves(u, "release", user[u].acct)
    BY <1>1, <1>3, <1>6, MovedMoves DEF CallRelease
  <2>2. user[u].at \in Holding /\ ~ At(u, "out")
    BY <1>6 DEF CallRelease, At, Holding
  <2> QED
    BY <1>1, <1>2, <1>3, <1>6, <2>1, <2>2, MoveKeeps DEF CallRelease, doubles
<1>7. CASE UseFails(u)
  <2>1. UserMoves(u, "release", user[u].acct)
    BY <1>1, <1>3, <1>7, MovedMoves DEF UseFails
  <2>2. user[u].at \in Holding /\ ~ At(u, "out")
    BY <1>7 DEF UseFails, At, Holding
  <2>3. twice' \subseteq Users /\ mishaps' \in Nat
    BY <1>1, <1>7 DEF UseFails
  <2> QED
    BY <1>1, <1>2, <1>3, <1>7, <2>1, <2>2, <2>3, MoveKeeps DEF UseFails
<1>8. CASE Disconnect(u)
  <2>1. UserMoves(u, "out", NULL) \/ UserMoves(u, "again", user[u].acct)
    BY <1>1, <1>8, LeftMoves DEF Disconnect
  <2>2. user[u].at \notin Holding /\ ~ At(u, "out")
    BY <1>8 DEF Disconnect, At, Holding
  <2>3. /\ conn' \in [Clients -> {"on", "off"}] /\ lock' \in Users \cup {NULL}
        /\ twice' \subseteq Users /\ mishaps' \in Nat
    BY <1>1, <1>8 DEF Disconnect
  <2>4. "out" \notin Holding /\ "again" \notin Holding
    BY DEF Holding
  <2> QED
    BY <1>2, <1>8, <2>1, <2>2, <2>3, <2>4, MoveKeeps DEF Disconnect
<1> QED
  BY <1>4, <1>5, <1>6, <1>7, <1>8

\* What giving back a reference does to the entry and to the user.
LEMMA Drops ==
  ASSUME IInv, NEW u \in Users, ~ At(u, "out"), DropReference(u)
  PROVE  /\ lock' \in Users \cup {NULL}
         /\ managed' \in [Accounts -> [client: Clients \cup {NULL}, refs: Nat]]
         /\ \A b \in Accounts \ {user[u].acct} : managed'[b] = managed[b]
         /\ IF managed[user[u].acct].refs - 1 <= 0
            THEN managed'[user[u].acct] = Absent
            ELSE managed'[user[u].acct].refs = managed[user[u].acct].refs - 1
         /\ \/ UserMoves(u, "out", NULL)
            \/ \E place \in {"closing", "again"} : UserMoves(u, place, user[u].acct)
<1> DEFINE a == user[u].acct
<1>1. /\ a \in Accounts /\ managed[a] \in [client: Clients \cup {NULL}, refs: Nat]
      /\ managed[a].refs \in Nat /\ managed[a].client \in Clients \cup {NULL}
      /\ managed \in [Accounts -> [client: Clients \cup {NULL}, refs: Nat]] /\ PoolTypeOK
  BY DEF IInv, UsersKnown, PoolTypeOK
<1>2. CASE managed[a].refs - 1 <= 0
  <2>1. /\ managed' = [managed EXCEPT ![a] = Absent] /\ lock' = u
        /\ user' = [user EXCEPT ![u].at = "closing", ![u].client = managed[a].client]
    BY <1>2 DEF DropReference
  <2>2. UserMoves(u, "closing", a)
    BY <1>1, <2>1, ClientMoves DEF PoolPlaces
  <2> HIDE DEF a
  <2>3. /\ managed' \in [Accounts -> [client: Clients \cup {NULL}, refs: Nat]]
        /\ managed'[a] = Absent /\ \A b \in Accounts \ {a} : managed'[b] = managed[b]
    BY <1>1, <2>1, RowTypes
  <2> QED
    BY <1>2, <2>1, <2>2, <2>3 DEF a
<1>3. CASE ~ (managed[a].refs - 1 <= 0)
  <2>1. /\ managed' = [managed EXCEPT ![a].refs = @ - 1] /\ lock' = NULL
        /\ user' = Left(u)
    BY <1>3 DEF DropReference
  <2>2. UserMoves(u, "out", NULL) \/ UserMoves(u, "again", a)
    BY <1>1, <2>1, LeftMoves
  <2> HIDE DEF a
  <2>3. managed[a].refs - 1 \in Nat
    BY <1>1, <1>3
  <2>4. /\ managed' \in [Accounts -> [client: Clients \cup {NULL}, refs: Nat]]
        /\ managed'[a].refs = managed[a].refs - 1
        /\ \A b \in Accounts \ {a} : managed'[b] = managed[b]
    BY <1>1, <2>1, <2>3
  <2> QED
    BY <1>3, <2>1, <2>2, <2>4 DEF a
<1> QED
  BY <1>2, <1>3
\* A holder gives its reference back: after a connect that failed, or in a release.
LEMMA GivesBack ==
  ASSUME PoolAssumption, IInv, NEW u \in Users, user[u].at \in {"connecting", "release"},
         DropReference(u), twice' \subseteq Users,
         UNCHANGED <<conn, lost, overdrawn, mishaps, closed>>
  PROVE  PoolTypeOK' /\ UsersKnown' /\ Step
<1>1. ~ At(u, "out") /\ user[u].at \in Holding
  BY DEF At, Holding
<1>2. PICK a \in Accounts : a = user[u].acct
  BY <1>1 DEF IInv, UsersKnown
<1>3. /\ lock' \in Users \cup {NULL}
      /\ managed' \in [Accounts -> [client: Clients \cup {NULL}, refs: Nat]]
      /\ \A b \in Accounts \ {a} : managed'[b] = managed[b]
      /\ IF managed[a].refs - 1 <= 0
         THEN managed'[a] = Absent ELSE managed'[a].refs = managed[a].refs - 1
  BY <1>1, <1>2, Drops
<1>4. PICK place \in {"out", "closing", "again"}, b \in {a, NULL} :
         UserMoves(u, place, b) /\ (place = "out" \/ b = a)
  <2>1. UserMoves(u, "out", NULL) \/ \E place \in {"closing", "again"} : UserMoves(u, place, a)
    BY <1>1, <1>2, Drops
  <2> QED
    BY <2>1
<1>5. PoolTypeOK'
  BY <1>3, <1>4 DEF IInv, PoolTypeOK, UserMoves, UserRows
<1>6. UsersKnown'
  BY <1>2, <1>4, KnownStays
<1>7. place \notin Holding
  BY <1>4 DEF Holding
<1>8. \A x \in Accounts : /\ Holders(x)' = Holders(x) \ {u}
                          /\ u \in Holders(x) <=> x = a
  BY <1>1, <1>2, <1>4, <1>7, HoldersMove
<1>9. CASE a \in overdrawn
  <2>1. ASSUME NEW x \in Accounts \ overdrawn PROVE Same(x)
    <3>1. x # a /\ Holders(x)' = Holders(x)
      BY <1>8, <1>9
    <3> QED
      BY <1>3, <3>1 DEF Same
  <2> QED
    BY <1>5, <1>6, <2>1, QuietStep DEF Quiet
<1>10. CASE a \notin overdrawn
  <2>1. Others(a)
    BY ZenonT(30), <1>3, <1>8 DEF Others, Same
  <2>2. Gives(u, a)
    BY <1>3, <1>8, <1>10, <2>1 DEF Gives
  <2> QED
    BY <1>2, <1>5, <1>6, <2>2, GivesStep
<1> QED
  BY <1>9, <1>10

LEMMA ConnectFailsKeeps ==
  ASSUME PoolAssumption, IInv, NEW u \in Users, ConnectFails(u)
  PROVE  PoolTypeOK' /\ UsersKnown' /\ Step
<1>1. twice' \subseteq Users
  BY DEF ConnectFails, doubles, IInv, PoolTypeOK
<1> QED
  BY <1>1, GivesBack DEF ConnectFails, At, doubles

\* A release finds its entry: only an account that was overdrawn may have lost it.
LEMMA ReleaseKeeps ==
  ASSUME PoolAssumption, IInv, NEW u \in Users, Release(u)
  PROVE  PoolTypeOK' /\ UsersKnown' /\ Step
<1>1. /\ user[u].at = "release" /\ ~ At(u, "out") /\ user[u].at \in Holding
      /\ twice' \subseteq Users
      /\ UNCHANGED <<conn, lost, overdrawn, mishaps, closed>>
  BY DEF Release, At, Holding, IInv, PoolTypeOK
<1>2. PICK a \in Accounts : a = user[u].acct
  BY <1>1 DEF IInv, UsersKnown
<1>3. CASE managed[a] = Absent
  <2>1. user' = Left(u) /\ UNCHANGED <<managed, lock>>
    BY <1>2, <1>3 DEF Release
  <2>2. PICK place \in {"out", "again"}, b \in {a, NULL} :
           UserMoves(u, place, b) /\ (place = "out" \/ b = a)
    BY <1>2, <2>1, LeftMoves DEF IInv
  <2>3. PoolTypeOK'
    BY <1>1, <2>1, <2>2 DEF IInv, PoolTypeOK, UserMoves, UserRows
  <2>4. UsersKnown'
    BY <2>2, KnownStays
  <2>5. place \notin Holding
    BY <2>2 DEF Holding
  <2>6. \A x \in Accounts : /\ Holders(x)' = Holders(x) \ {u}
                            /\ u \in Holders(x) <=> x = a
    BY <1>1, <1>2, <2>2, <2>5, HoldersMove
  <2>7. a \in overdrawn
    <3>1. SUFFICES ASSUME a \notin overdrawn PROVE FALSE
      OBVIOUS
    <3>2. managed[a].refs = Cardinality(Holders(a)) + lost[a]
      BY <3>1 DEF IInv, RefsExact
    <3>3. managed[a].refs = 0 /\ lost[a] \in Nat
      BY <1>3, Numbers DEF IInv
    <3>4. Cardinality(Holders(a)) > 0 /\ Cardinality(Holders(a)) \in Nat
      BY <2>6, HoldersFinite
    <3> QED
      BY <3>2, <3>3, <3>4
  <2>8. ASSUME NEW x \in Accounts \ overdrawn PROVE Same(x)
    <3>1. Holders(x)' = Holders(x)
      BY <2>6, <2>7
    <3> QED
      BY <1>1, <2>1, <3>1 DEF Same
  <2> QED
    BY <1>1, <2>3, <2>4, <2>8, QuietStep DEF Quiet
<1>4. CASE managed[a] # Absent
  BY <1>1, <1>2, <1>4, GivesBack DEF Release
<1> QED
  BY <1>3, <1>4

\* A second release spoils an account, or finds it spoilt, or finds nothing.
LEMMA ReleaseAgainKeeps ==
  ASSUME PoolAssumption, IInv, NEW u \in Users, ReleaseAgain(u)
  PROVE  PoolTypeOK' /\ UsersKnown' /\ Step
<1>1. /\ user[u].at = "again" /\ ~ At(u, "out") /\ user[u].at \notin Holding
      /\ UNCHANGED <<conn, lost, twice, mishaps, closed>>
      /\ conn \in [Clients -> {"on", "off"}] /\ twice \subseteq Users /\ mishaps \in Nat
      /\ lock \in Users \cup {NULL}
  BY DEF ReleaseAgain, At, Holding, IInv, PoolTypeOK
<1>2. PICK a \in Accounts : a = user[u].acct
  BY <1>1 DEF IInv, UsersKnown
<1>3. CASE managed[a] = Absent
  <2>1. user' = [user EXCEPT ![u] = Out] /\ UNCHANGED <<managed, lock, overdrawn>>
    BY <1>2, <1>3 DEF ReleaseAgain
  <2>2. UserMoves(u, "out", NULL) /\ "out" \notin Holding
    BY <2>1, OutMoves DEF IInv, Holding
  <2> QED
    BY <1>1, <2>1, <2>2, MoveKeeps
<1>4. CASE managed[a] # Absent
  <2>1. DropReference(u) /\ overdrawn' = overdrawn \cup {a}
    BY <1>2, <1>4 DEF ReleaseAgain
  <2>2. /\ lock' \in Users \cup {NULL}
        /\ managed' \in [Accounts -> [client: Clients \cup {NULL}, refs: Nat]]
        /\ \A b \in Accounts \ {a} : managed'[b] = managed[b]
    BY <1>1, <1>2, <2>1, Drops
  <2>3. PICK place \in {"out", "closing", "again"}, b \in {a, NULL} :
           UserMoves(u, place, b) /\ (place = "out" \/ b = a)
    <3>1. UserMoves(u, "out", NULL) \/ \E place \in {"closing", "again"} : UserMoves(u, place, a)
      BY <1>1, <1>2, <2>1, Drops
    <3> QED
      BY <3>1
  <2>4. PoolTypeOK'
    BY <1>1, <2>1, <2>2, <2>3 DEF IInv, PoolTypeOK, UserMoves, UserRows
  <2>5. UsersKnown'
    BY <2>3, KnownStays
  <2>6. \A x \in Accounts : Holders(x)' = Holders(x)
    <3>1. place \notin Holding
      BY <2>3 DEF Holding
    <3>2. ASSUME NEW x \in Accounts PROVE Holders(x)' = Holders(x)
      <4>1. Holders(x)' = Holders(x) \ {u} /\ u \notin Holders(x)
        BY <1>1, <2>3, <3>1, HoldersMove
      <4> QED
        BY <4>1
    <3> QED
      BY <3>2
  <2>7. RefsExact'
    BY <1>1, <2>1, <2>2, <2>6 DEF IInv, RefsExact
  <2>8. [Shared!SharedNext]_(Shared!sharedVars)
    <3>1. CASE a \in overdrawn
      <4>1. overdrawn' = overdrawn
        BY <2>1, <3>1
      <4> QED
        BY <1>1, <2>2, <2>6, <3>1, <4>1 DEF Shared!sharedVars
    <3>2. CASE a \notin overdrawn
      <4>1. Shared!Spoil(a)
        BY <1>1, <1>4, <2>1, <2>2, <2>6, <3>2 DEF Shared!Spoil
      <4> QED
        BY <4>1 DEF Shared!SharedNext
    <3> QED
      BY <3>1, <3>2
  <2> QED
    BY <2>4, <2>5, <2>7, <2>8 DEF Step
<1> QED
  BY <1>3, <1>4

\* A reference is left behind: the caller forgets it, or its release is cancelled.
LEMMA LeavesBehind ==
  ASSUME PoolAssumption, IInv, NEW u \in Users, user[u].at \in {"using", "release"},
         user' = [user EXCEPT ![u] = Out], lost' = [lost EXCEPT ![user[u].acct] = @ + 1],
         twice' \subseteq Users, mishaps' \in Nat,
         UNCHANGED <<managed, conn, lock, overdrawn, closed>>
  PROVE  PoolTypeOK' /\ UsersKnown' /\ Step
<1>1. ~ At(u, "out") /\ user[u].at \in Holding /\ "out" \notin Holding
  BY DEF At, Holding
<1>2. PICK a \in Accounts : a = user[u].acct
  BY <1>1 DEF IInv, UsersKnown
<1>3. UserMoves(u, "out", NULL)
  BY OutMoves DEF IInv
<1>4. /\ lost' \in [Accounts -> Nat] /\ lost'[a] = lost[a] + 1
      /\ \A b \in Accounts \ {a} : lost'[b] = lost[b]
  BY <1>2 DEF IInv, PoolTypeOK
<1>5. PoolTypeOK'
  BY <1>3, <1>4 DEF IInv, PoolTypeOK, UserMoves, UserRows
<1>6. UsersKnown'
  BY <1>3, KnownStays
<1>7. \A x \in Accounts : /\ Holders(x)' = Holders(x) \ {u}
                          /\ u \in Holders(x) <=> x = a
  BY <1>1, <1>2, <1>3, HoldersMove
<1>8. CASE a \in overdrawn
  <2>1. ASSUME NEW x \in Accounts \ overdrawn PROVE Same(x)
    <3>1. x # a /\ Holders(x)' = Holders(x)
      BY <1>7, <1>8
    <3> QED
      BY <1>4, <3>1 DEF Same
  <2> QED
    BY <1>5, <1>6, <2>1, QuietStep DEF Quiet
<1>9. CASE a \notin overdrawn
  <2>1. Others(a)
    <3>1. ASSUME NEW x \in Accounts \ (overdrawn \cup {a}) PROVE Same(x)
      <4>1. x \in Accounts \ {a}
        BY <3>1
      <4>2. lost'[x] = lost[x]
        BY <1>4, <4>1
      <4>3. Holders(x)' = Holders(x) \ {u} /\ u \notin Holders(x)
        BY ONLY <1>7, <4>1
      <4>4. Holders(x)' = Holders(x)
        BY ONLY <4>3
      <4> QED
        BY <4>2, <4>4 DEF Same
    <3> QED
      BY <3>1 DEF Others
  <2>2. Leaves(u, a)
    BY <1>4, <1>7, <1>9, <2>1 DEF Leaves
  <2> QED
    BY <1>2, <1>5, <1>6, <2>2, LeavesStep
<1> QED
  BY <1>8, <1>9

LEMMA ForgetKeeps ==
  ASSUME PoolAssumption, IInv, NEW u \in Users, Forget(u)
  PROVE  PoolTypeOK' /\ UsersKnown' /\ Step
<1>1. twice' \subseteq Users /\ mishaps' \in Nat
  BY DEF Forget, doubles, IInv, PoolTypeOK
<1> QED
  BY <1>1, LeavesBehind DEF Forget, At, doubles

\* A cancelled release leaves its reference behind, unless the second one makes up for it;
\* in `get` there is nothing yet.
LEMMA CancelKeeps ==
  ASSUME PoolAssumption, IInv, NEW u \in Users, Cancel(u)
  PROVE  PoolTypeOK' /\ UsersKnown' /\ Step
<1>1. /\ twice' \subseteq Users /\ mishaps' \in Nat /\ user[u].at \in {"get", "release", "again"}
      /\ UNCHANGED <<managed, conn, lock, overdrawn, closed>>
      /\ conn \in [Clients -> {"on", "off"}] /\ lock \in Users \cup {NULL}
  BY DEF Cancel, IInv, PoolTypeOK
<1>2. CASE u \in twice
  <2>1. UNCHANGED <<lost, user>>
    BY <1>2 DEF Cancel
  <2>2. PoolTypeOK' /\ UsersKnown'
    BY <1>1, <2>1 DEF IInv, PoolTypeOK, UsersKnown, At
  <2>3. Quiet
    BY <1>1, <2>1 DEF Quiet, Same, Holders
  <2> QED
    BY <2>2, <2>3, QuietStep
<1>3. CASE u \notin twice /\ user[u].at = "release"
  BY <1>1, <1>3, LeavesBehind DEF Cancel, At
<1>4. CASE u \notin twice /\ user[u].at # "release"
  <2>1. user' = [user EXCEPT ![u] = Out] /\ lost' = lost
    BY <1>4 DEF Cancel, At
  <2>2. UserMoves(u, "out", NULL) /\ "out" \notin Holding /\ user[u].at \notin Holding
    BY <1>1, <1>4, <2>1, OutMoves DEF IInv, Holding
  <2> QED
    BY <1>1, <2>1, <2>2, MoveKeeps
<1> QED
  BY <1>2, <1>3, <1>4

\* A connection drops: nobody holds anything less.
LEMMA NetworkDropsKeeps ==
  ASSUME IInv, NEW c \in Clients, NetworkDrops(c)
  PROVE  PoolTypeOK' /\ UsersKnown' /\ Step
<1>1. PoolTypeOK' /\ UsersKnown'
  BY DEF IInv, PoolTypeOK, UsersKnown, At, NetworkDrops, doubles
<1>2. Quiet
  BY DEF NetworkDrops, doubles, Quiet, Same, Holders
<1> QED
  BY <1>1, <1>2, QuietStep

\* The shutdown of a worker whose users are all done.
LEMMA CloseAllKeeps ==
  ASSUME PoolAssumption, IInv, CloseAll
  PROVE  PoolTypeOK' /\ UsersKnown' /\ Step
<1>1. /\ managed' = [a \in Accounts |-> Absent] /\ lost' = [a \in Accounts |-> 0]
      /\ overdrawn' = {} /\ user' = user /\ \A u \in Users : user[u].at = "out"
  BY DEF CloseAll, At
<1>2. PoolTypeOK'
  <2>1. Absent \in [client: Clients \cup {NULL}, refs: Nat]
    BY DEF Absent
  <2>2. closed' \in BOOLEAN /\ conn' \in [Clients -> {"on", "off"}]
    BY DEF CloseAll, IInv, PoolTypeOK
  <2> QED
    BY <1>1, <2>1, <2>2 DEF CloseAll, IInv, PoolTypeOK
<1>3. UsersKnown'
  BY <1>1 DEF IInv, UsersKnown, At
<1>4. \A a \in Accounts : Holders(a) = {} /\ Holders(a)' = {}
  BY <1>1 DEF Holders, Holding
<1>5. RefsExact'
  <2> SUFFICES ASSUME NEW a \in Accounts
               PROVE  managed'[a].refs = Cardinality(Holders(a)') + lost'[a]
    BY DEF RefsExact
  <2>1. Cardinality(Holders(a)') = 0
    BY <1>4, FS_EmptySet
  <2>2. managed'[a].refs = 0 /\ lost'[a] = 0
    BY <1>1 DEF Absent
  <2> QED
    BY <2>1, <2>2
<1>6. Shared!ShutDown
  BY <1>1, <1>4 DEF Shared!ShutDown
<1> QED
  BY <1>2, <1>3, <1>5, <1>6 DEF Step, Shared!SharedNext

LEMMA NextKeeps ==
  ASSUME PoolAssumption, IInv, [PoolNext]_poolVars
  PROVE  IInv' /\ [Shared!SharedNext]_(Shared!sharedVars)
<1>1. ASSUME NEW u \in Users,
             \/ Get(u) \/ Locked(u) \/ CallRelease(u) \/ Release(u)
             \/ ReleaseAgain(u) \/ Cancel(u) \/ Forget(u) \/ UseFails(u)
             \/ \E a \in Accounts : CallGet(u, a)
      PROVE  PoolTypeOK' /\ UsersKnown' /\ Step
  BY <1>1, GetSharedKeeps, GetNewKeeps, PlainKeeps, ConnectFailsKeeps, ReleaseKeeps,
     ReleaseAgainKeeps, CancelKeeps, ForgetKeeps, CallGetKeeps DEF Get, Locked
<1>2. CASE UNCHANGED poolVars
  <2>1. PoolTypeOK' /\ UsersKnown'
    BY <1>2 DEF IInv, PoolTypeOK, UsersKnown, At, poolVars
  <2>2. Quiet
    BY <1>2 DEF poolVars, Quiet, Same, Holders
  <2> QED
    BY <2>1, <2>2, QuietStep DEF IInv, Step
<1>3. CASE PoolNext
  <2>1. PoolTypeOK' /\ UsersKnown' /\ Step
    BY <1>1, <1>3, NetworkDropsKeeps, CloseAllKeeps DEF PoolNext
  <2> QED
    BY <2>1 DEF IInv, Step
<1> QED
  BY <1>2, <1>3
-----------------------------------------------------------------------------
\* worker/client_pool/pool.py:69-137: for any number of accounts and users the count of an
\* account that nobody gave back twice is the number of those who hold its client and of
\* those who never will give it back.
THEOREM CountIsExact == ASSUME PoolAssumption PROVE PoolSpec => [](PoolTypeOK /\ RefsExact)
<1>1. PoolInit => IInv
  BY InitIInv
<1>2. IInv /\ [PoolNext]_poolVars => IInv'
  BY NextKeeps
<1>3. IInv => PoolTypeOK /\ RefsExact
  BY DEF IInv
<1> QED
  BY <1>1, <1>2, <1>3, PTL DEF PoolSpec

\* Every behaviour of the pool, with its counts, its lock and its awaits, is one of
\* SharedClient: an account's client is open exactly as long as somebody holds it or has
\* left it behind (worker/client_pool/pool.py:69-137).
THEOREM PoolImplementsSharedClient == ASSUME PoolAssumption PROVE PoolSpec => PoolIsShared
<1>1. PoolInit => IInv /\ Shared!SharedInit
  BY InitIInv
<1>2. IInv /\ [PoolNext]_poolVars => IInv' /\ [Shared!SharedNext]_(Shared!sharedVars)
  BY NextKeeps
<1> QED
  BY <1>1, <1>2, PTL DEF PoolSpec, PoolIsShared, Shared!SharedSpec
-----------------------------------------------------------------------------
(*************** ChannelSync ***************)

RowRecord == [ref: Refs \cup {""}, mine: BOOLEAN,
              status: {"none", "pending", "working", "failed", "gone"}]

\* A row may have this owner and this status.
Fits(mine, st) == \A r \in Refs : [ref |-> r, mine |-> mine, status |-> st] \in RowRecord

\* What the type invariant says of everything but the rows.
RestOK ==
    /\ on \in BOOLEAN /\ mode \in {"links", "subscriptions"}
    /\ links \subseteq Refs /\ standing \in {"apart", "assigned", "idle"}
    /\ reading \in [open: BOOLEAN, gone: SUBSET Ids, missing: SUBSET Refs, again: SUBSET Ids,
                    scan: BOOLEAN]
    /\ drift \in BOOLEAN
    /\ syncs \in Nat /\ scans \in Nat /\ resolves \in [Ids -> Nat]
    /\ planned \subseteq Ids /\ strays \subseteq Ids /\ removed \subseteq Refs
    /\ edits \in Nat /\ harms \in Nat

\* The rows there are have the first ids, and each has a channel or a folder.
RowsInOrder ==
    /\ Born \in Nat
    /\ \A i \in Ids : rows[i].status # "none" <=> i <= Born
    /\ \A i \in Ids : rows[i].status # "none" => rows[i].ref \in Refs

\* Only rows there are can be left over.
StraysAreRows == \A i \in strays : rows[i].status # "none"

\* What a sync decides on is kept until it commits, and only rows there are are to go.
ReadingOK ==
    /\ ~reading.open => reading = NoSync
    /\ \A i \in reading.gone : rows[i].status # "none"

\* SyncSettles, said of a sync that is under way too: as no other sync has been asked for since
\* its reading, the settings are those it read, but for links taken away; what is not wanted is
\* among what it drops, and what is missing among what it creates.
Settling ==
    harms = 0 /\ syncs = 0 /\ ~drift =>
        /\ Stale \subseteq strays \cup reading.gone
        /\ Explicit => links \subseteq LiveRefs \cup removed \cup reading.missing
        /\ \A i \in reading.gone : Unwanted(rows[i].ref)

RowsInv == SyncTypeOK /\ RowsInOrder /\ StraysAreRows /\ ReadingOK /\ PendingHasTask /\ Settling
-----------------------------------------------------------------------------
LEMMA TypeParts ==
  /\ SyncTypeOK <=> rows \in [Ids -> RowRecord] /\ RestOK
  /\ SyncTypeOK' <=> rows' \in [Ids -> RowRecord] /\ RestOK'
BY DEF SyncTypeOK, RowRecord, RestOK

\* Listing a finite set and numbering rows by the list gives each of its members a row.

LEMMA ListsAll ==
  ASSUME NEW S, IsFiniteSet(S)
  PROVE  /\ Cardinality(S) \in Nat
         /\ \A n \in 1..Cardinality(S) : SetToSeq(S)[n] \in S
         /\ \A x \in S : \E n \in 1..Cardinality(S) : SetToSeq(S)[n] = x
<1>1. Cardinality(S) \in Nat /\ ExistsBijection(1..Cardinality(S), S) BY FS_CardinalityType
<1> DEFINE D == 1..Cardinality(S)
<1>2. PICK f : f \in Bijection(D, S) BY <1>1 DEF ExistsBijection
<1>3. f \in [D -> S] /\ IsInjective(f) BY <1>2 DEF Bijection, Injection
<1>4. SetToSeq(S) = CHOOSE g \in [D -> S] : IsInjective(g) BY DEF SetToSeq
<1>5. SetToSeq(S) \in [D -> S] /\ IsInjective(SetToSeq(S)) BY <1>3, <1>4
<1>6. SetToSeq(S) \in Injection(D, S) BY <1>5 DEF Injection
<1>7. IsFiniteSet(D) /\ Cardinality(D) = Cardinality(S) BY <1>1, FS_Interval
<1>8. SetToSeq(S) \in Surjection(D, S) BY <1>6, <1>7, FS_Injection
<1>9. \A x \in S : \E n \in D : SetToSeq(S)[n] = x BY <1>8 DEF Surjection
<1> QED BY <1>1, <1>5, <1>9

LEMMA SubsetsFinite == SyncAssumption => \A refs \in SUBSET Refs : IsFiniteSet(refs)
BY FS_Subset DEF SyncAssumption

LEMMA CreatedFacts ==
  ASSUME SyncAssumption, Born \in Nat, NEW f \in [Ids -> RowRecord],
         NEW refs \in SUBSET Refs, Room(refs), NEW mine, NEW st, Fits(mine, st)
  PROVE  /\ Cardinality(refs) \in Nat /\ Born + Cardinality(refs) <= MaxRows
         /\ Fresh(refs) \subseteq Ids
         /\ \A i \in Fresh(refs) : i > Born
         /\ Created(f, refs, mine, st) \in [Ids -> RowRecord]
         /\ \A i \in Ids \ Fresh(refs) : Created(f, refs, mine, st)[i] = f[i]
         /\ \A i \in Fresh(refs) : /\ Created(f, refs, mine, st)[i].ref \in refs
                                   /\ Created(f, refs, mine, st)[i].mine = mine
                                   /\ Created(f, refs, mine, st)[i].status = st
         /\ \A r \in refs : \E i \in Fresh(refs) : Created(f, refs, mine, st)[i].ref = r
<1> DEFINE N == Cardinality(refs)
           L == SetToSeq(refs)
           g == Created(f, refs, mine, st)
<1>1. IsFiniteSet(refs) BY SubsetsFinite
<1>2. /\ N \in Nat
      /\ \A n \in 1..N : L[n] \in refs
      /\ \A x \in refs : \E n \in 1..N : L[n] = x
  BY <1>1, ListsAll
<1>3. Born + N <= MaxRows /\ MaxRows \in Nat BY DEF Room, SyncAssumption
<1>4. Fresh(refs) = (Born + 1)..(Born + N) BY DEF Fresh
<1> HIDE DEF N, L
<1>5. Fresh(refs) \subseteq Ids /\ \A i \in Fresh(refs) : i > Born /\ i - Born \in 1..N
  BY <1>2, <1>3, <1>4 DEF Ids
<1>6. g = [i \in Ids |-> IF i \in Fresh(refs) THEN [ref |-> L[i - Born], mine |-> mine, status |-> st]
                         ELSE f[i]]
  BY DEF Created, L
<1> HIDE DEF g
<1>7. \A i \in Ids \ Fresh(refs) : g[i] = f[i] BY <1>6
<1>8. \A i \in Fresh(refs) : /\ g[i] = [ref |-> L[i - Born], mine |-> mine, status |-> st]
                             /\ L[i - Born] \in refs
  BY <1>2, <1>5, <1>6
<1>9. ASSUME NEW i \in Fresh(refs)
      PROVE  /\ g[i].ref = L[i - Born] /\ g[i].ref \in refs /\ g[i].mine = mine /\ g[i].status = st
             /\ g[i] \in RowRecord
  <2>1. PICK x \in refs : x = L[i - Born] /\ g[i] = [ref |-> x, mine |-> mine, status |-> st]
    BY <1>8
  <2>2. g[i].ref = x /\ g[i].mine = mine /\ g[i].status = st BY <2>1
  <2>3. x \in Refs OBVIOUS
  <2>4. [ref |-> x, mine |-> mine, status |-> st] \in RowRecord BY <2>3 DEF Fits
  <2> QED BY <2>1, <2>2, <2>4
<1>10. \A i \in Ids : g[i] \in RowRecord BY <1>7, <1>9
<1>11. g \in [Ids -> RowRecord] BY <1>6, <1>10
<1>12. ASSUME NEW r \in refs PROVE \E i \in Fresh(refs) : g[i].ref = r
  <2>1. PICK n \in 1..N : L[n] = r BY <1>2
  <2> DEFINE j == Born + n
  <2>2. j \in Fresh(refs) /\ j - Born = n BY <2>1, <1>2, <1>4
  <2> HIDE DEF j
  <2>3. g[j].ref = L[j - Born] BY <1>9, <2>2
  <2> QED BY <2>1, <2>2, <2>3
<1> QED BY <1>2, <1>3, <1>5, <1>7, <1>9, <1>11, <1>12 DEF N, g

LEMMA MarkedFacts ==
  ASSUME SyncTypeOK, NEW ids \in SUBSET Ids,
         NEW st \in {"pending", "working", "failed", "gone"}
  PROVE  /\ Marked(ids, st) \in [Ids -> RowRecord]
         /\ \A i \in Ids \ ids : Marked(ids, st)[i] = rows[i]
         /\ \A i \in ids : /\ Marked(ids, st)[i].ref = rows[i].ref
                           /\ Marked(ids, st)[i].mine = rows[i].mine
                           /\ Marked(ids, st)[i].status = st
BY ZenonT(30) DEF SyncTypeOK, Marked, RowRecord

LEMMA AllFit ==
  ASSUME NEW st \in {"pending", "working", "failed"}
  PROVE  Fits(TRUE, st) /\ Fits(FALSE, st) /\ \A r \in RowRecord : Fits(r.mine, st)
<1>1. ASSUME NEW m \in BOOLEAN PROVE Fits(m, st)
  <2>1. st \in {"none", "pending", "working", "failed", "gone"} OBVIOUS
  <2>2. \A r \in Refs : r \in Refs \cup {""} OBVIOUS
  <2> QED BY <2>1, <2>2, Zenon DEF Fits, RowRecord
<1>2. \A r \in RowRecord : r.mine \in BOOLEAN BY DEF RowRecord
<1> QED BY <1>1, <1>2, Zenon

\* Rows that keep their channel, and new ones with the next ids, are in order.
LEMMA Grow ==
  ASSUME SyncAssumption, RowsInv, NEW m \in Nat, Born + m <= MaxRows,
         rows' \in [Ids -> RowRecord],
         \A i \in Ids \ (Born + 1)..(Born + m) :
            rows'[i].ref = rows[i].ref /\ (rows'[i].status = "none" <=> rows[i].status = "none"),
         \A i \in (Born + 1)..(Born + m) : rows'[i].status # "none" /\ rows'[i].ref \in Refs
  PROVE  RowsInOrder'
<1>1. RowsInOrder /\ MaxRows \in Nat BY DEF RowsInv, SyncAssumption
<1>2. {i \in Ids : rows'[i].status # "none"} = 1..(Born + m)
  BY <1>1 DEF RowsInOrder, Ids
<1>3. Born' = Born + m
  <2>1. Born' = Cardinality({i \in Ids : rows'[i].status # "none"}) BY DEF Born
  <2>2. Born + m \in Nat BY <1>1 DEF RowsInOrder
  <2> DEFINE n == Born + m
  <2> HIDE DEF n
  <2>3. n \in Nat /\ {i \in Ids : rows'[i].status # "none"} = 1..n BY <2>2, <1>2 DEF n
  <2>4. n \in Nat BY <2>3
  <2>5. Cardinality(1..n) = n BY <2>4, FS_Interval
  <2> QED BY <2>1, <2>3, <2>5 DEF n
<1>4. \A i \in Ids : rows'[i].status # "none" <=> i <= Born + m
  BY <1>1, <1>2 DEF RowsInOrder, Ids
<1>5. \A i \in Ids : rows'[i].status # "none" => rows'[i].ref \in Refs
  BY <1>1 DEF RowsInOrder
<1> QED BY <1>1, <1>3, <1>4, <1>5 DEF RowsInOrder

LEMMA OldRows ==
  ASSUME RowsInv PROVE \A i \in Ids : rows[i].status # "none" => ~(i > Born)
BY DEF RowsInv, RowsInOrder, Ids

LEMMA LiveFacts ==
  /\ \A i : Live(i) => rows[i].status # "none" /\ rows[i].status # "gone"
  /\ \A r : r \in LiveRefs <=> \E i \in Ids : Live(i) /\ rows[i].ref = r
BY DEF Live, LiveRefs

LEMMA SyncStart == ASSUME SyncAssumption, SyncInit PROVE RowsInv
<1>1. SyncTypeOK BY DEF SyncInit, SyncTypeOK, NoRow, NoSync, RowRecord
<1>2. {i \in Ids : rows[i].status # "none"} = {} BY DEF SyncInit, NoRow
<1>3. Born = 0 BY <1>2, FS_EmptySet DEF Born
<1>4. RowsInOrder BY <1>2, <1>3 DEF RowsInOrder, Ids, SyncAssumption
<1>5. StraysAreRows /\ ReadingOK /\ PendingHasTask
  BY DEF SyncInit, StraysAreRows, ReadingOK, PendingHasTask, NoRow, NoSync
<1>6. Settling BY DEF SyncInit, Settling, Stale, Live, NoRow, NoSync, Explicit, member
<1> QED BY <1>1, <1>4, <1>5, <1>6 DEF RowsInv
-----------------------------------------------------------------------------
(* Steps that leave the rows alone *)

LEMMA RowsUntouched ==
  ASSUME RowsInv, UNCHANGED <<rows, strays>>
  PROVE  RowsInOrder' /\ StraysAreRows' /\ LiveRefs' = LiveRefs /\ (reading' = reading => ReadingOK')
BY DEF RowsInv, RowsInOrder, Born, StraysAreRows, ReadingOK, LiveRefs, Live

LEMMA ReadingStays ==
  ASSUME RowsInv, reading' = reading,
         \A i \in Ids : rows[i].status # "none" => rows'[i].status # "none"
  PROVE  ReadingOK'
<1>1. reading.gone \subseteq Ids BY TypeParts DEF RowsInv, RestOK
<1> QED BY <1>1 DEF RowsInv, ReadingOK

\* A step that changes no setting, loses no link's row without naming it and leaves no row
\* behind without naming it.
LEMMA SettlesOn ==
  ASSUME RowsInv, UNCHANGED <<on, mode, links, standing, syncs, reading, drift>>, harms' = harms,
         strays \subseteq strays', LiveRefs \cup removed \subseteq LiveRefs' \cup removed',
         \A i \in Ids : rows[i].status # "none" => rows'[i].ref = rows[i].ref,
         Settling /\ harms = 0 /\ syncs = 0 /\ ~drift => Stale' \subseteq Stale \cup strays'
  PROVE  Settling'
<1>1. reading.gone \subseteq Ids /\ \A i \in reading.gone : rows[i].status # "none"
  BY TypeParts DEF RowsInv, RestOK, ReadingOK
<1>2. (Explicit' <=> Explicit) /\ \A i \in reading.gone : Unwanted(rows[i].ref)' <=> Unwanted(rows[i].ref)
  BY <1>1 DEF Explicit, Unwanted, member
<1> QED BY <1>1, <1>2 DEF RowsInv, Settling

LEMMA ChangeOfSettings ==
  ASSUME SyncAssumption, RowsInv,
         UNCHANGED <<rows, reading, planned, resolves, scans, strays, removed>>,
         on' \in BOOLEAN, mode' \in {"links", "subscriptions"}, links' \subseteq Refs,
         standing' \in {"apart", "assigned", "idle"}, edits' = edits + 1,
         drift' \in BOOLEAN, (drift' = drift /\ Requested) \/ (drift' /\ UNCHANGED <<syncs, harms>>)
  PROVE  RowsInv'
<1>1. rows \in [Ids -> RowRecord] /\ RestOK BY TypeParts DEF RowsInv
<1>2. harms' \in Nat /\ syncs' \in Nat /\ (harms' = 0 => harms = 0 /\ (syncs' # 0 \/ drift'))
  BY <1>1 DEF Requested, RestOK
<1>3. SyncTypeOK' BY <1>1, <1>2, TypeParts DEF RestOK
<1>4. PendingHasTask' BY <1>2 DEF RowsInv, PendingHasTask
<1>5. Settling' BY <1>2 DEF Settling
<1> QED BY <1>3, <1>4, <1>5, RowsUntouched DEF RowsInv

LEMMA SettingsKeep ==
  ASSUME SyncAssumption, RowsInv, (\E r \in Refs : AddLink(r)) \/ Switch \/ Resync \/ StatusMoves
  PROVE  RowsInv'
<1>1. rows \in [Ids -> RowRecord] /\ RestOK BY TypeParts DEF RowsInv
<1>2. ASSUME NEW r \in Refs, AddLink(r) PROVE RowsInv'
  <2>1. links' = links \cup {r} /\ edits' = edits + 1 /\ Requested
        /\ UNCHANGED <<rows, on, mode, standing, reading, drift, planned, resolves, scans, strays, removed>>
    BY <1>2 DEF AddLink, Edit
  <2>2. on' \in BOOLEAN /\ mode' \in {"links", "subscriptions"} /\ links' \subseteq Refs
        /\ standing' \in {"apart", "assigned", "idle"} /\ drift' \in BOOLEAN
    BY <2>1, <1>1 DEF RestOK
  <2> QED BY <2>1, <2>2, ChangeOfSettings
<1>3. CASE Switch \/ Resync
  <2>1. /\ \/ on' = ~on /\ UNCHANGED <<mode, standing>>
           \/ /\ mode' = (IF mode = "links" THEN "subscriptions" ELSE "links")
              /\ UNCHANGED <<on, standing>>
           \/ /\ standing' = (IF standing = "apart" THEN "assigned" ELSE "apart")
              /\ UNCHANGED <<on, mode>>
           \/ UNCHANGED <<on, mode, standing>>
        /\ edits' = edits + 1 /\ Requested
        /\ UNCHANGED <<rows, links, reading, drift, planned, resolves, scans, strays, removed>>
    BY <1>3 DEF Switch, Resync, Edit, config
  <2>2. on \in BOOLEAN /\ standing \in {"apart", "assigned", "idle"} BY <1>1 DEF RestOK
  <2>3. on' \in BOOLEAN BY <2>1, <2>2, Zenon
  <2>4. /\ mode' \in {"links", "subscriptions"} /\ links' \subseteq Refs
        /\ standing' \in {"apart", "assigned", "idle"} /\ drift' \in BOOLEAN
    BY <2>1, <2>2, <1>1 DEF RestOK
  <2> QED BY <2>1, <2>3, <2>4, ChangeOfSettings
<1>4. CASE StatusMoves
  <2>1. /\ standing' \in {"apart", "assigned", "idle"} /\ drift' = TRUE /\ edits' = edits + 1
        /\ UNCHANGED <<rows, on, mode, links, syncs, reading, planned, resolves, scans, harms,
                       strays, removed>>
    BY <1>4 DEF StatusMoves, Edit
  <2>2. on' \in BOOLEAN /\ mode' \in {"links", "subscriptions"} /\ links' \subseteq Refs
    BY <2>1, <1>1 DEF RestOK
  <2> QED BY <2>1, <2>2, ChangeOfSettings
<1> QED BY <1>2, <1>3, <1>4

LEMMA QueuesKeep ==
  ASSUME SyncAssumption, RowsInv, (\E i \in Ids : Enqueue(i) \/ PlanLost(i)) \/ ScanEnds
  PROVE  RowsInv'
<1>1. rows \in [Ids -> RowRecord] /\ RestOK BY TypeParts DEF RowsInv
<1>2. ASSUME NEW i \in Ids, Enqueue(i) PROVE RowsInv'
  <2>1. /\ i \in planned /\ planned' = planned \ {i}
        /\ resolves' = [resolves EXCEPT ![i] = @ + 1]
        /\ UNCHANGED <<rows, on, mode, links, standing, reading, drift, syncs, scans, edits, harms, strays, removed>>
    BY <1>2 DEF Enqueue, config
  <2>2. /\ resolves' \in [Ids -> Nat] /\ resolves'[i] > 0
        /\ \A j \in Ids : resolves[j] > 0 => resolves'[j] > 0
    BY <2>1, <1>1 DEF RestOK
  <2>3. SyncTypeOK' BY <2>1, <2>2, <1>1, TypeParts DEF RestOK
  <2>4. PendingHasTask' BY <2>1, <2>2 DEF RowsInv, PendingHasTask
  <2>5. Settling'
    BY <2>1, RowsUntouched DEF RowsInv, Settling, Explicit, member, Stale, Live, Unwanted
  <2> QED BY <2>1, <2>3, <2>4, <2>5, RowsUntouched DEF RowsInv
<1>3. ASSUME NEW i \in Ids, PlanLost(i) PROVE RowsInv'
  <2>1. /\ planned' = planned \ {i} /\ harms' = harms + 1
        /\ UNCHANGED <<rows, on, mode, links, standing, reading, drift, syncs, resolves, scans, edits, strays,
                       removed>>
    BY <1>3 DEF PlanLost, config
  <2>2. SyncTypeOK' /\ harms' # 0 BY <2>1, <1>1, TypeParts DEF RestOK
  <2> QED BY <2>1, <2>2, RowsUntouched DEF RowsInv, PendingHasTask, Settling
<1>4. CASE ScanEnds
  <2>1. /\ scans > 0 /\ scans' = scans - 1
        /\ UNCHANGED <<rows, on, mode, links, standing, reading, drift, syncs, planned, resolves, edits, harms,
                       strays, removed>>
    BY <1>4 DEF ScanEnds, config
  <2>2. SyncTypeOK' BY <2>1, <1>1, TypeParts DEF RestOK
  <2>3. PendingHasTask' BY <2>1 DEF RowsInv, PendingHasTask
  <2>4. Settling'
    BY <2>1, RowsUntouched DEF RowsInv, Settling, Explicit, member, Stale, Live, Unwanted
  <2> QED BY <2>1, <2>2, <2>3, <2>4, RowsUntouched DEF RowsInv
<1> QED BY <1>2, <1>3, <1>4
-----------------------------------------------------------------------------
(* Steps that mark rows *)

LEMMA MarkedInOrder ==
  ASSUME SyncAssumption, RowsInv, NEW ids \in SUBSET Ids, \A i \in ids : Live(i),
         NEW st \in {"pending", "working", "failed", "gone"}, rows' = Marked(ids, st)
  PROVE  /\ rows' \in [Ids -> RowRecord]
         /\ \A i \in Ids : rows'[i].ref = rows[i].ref /\ rows'[i].mine = rows[i].mine
         /\ \A i \in Ids \ ids : rows'[i].status = rows[i].status
         /\ \A i \in ids : rows'[i].status = st
         /\ RowsInOrder'
         /\ \A r : r \in LiveRefs' <=> \E i \in Ids : Live(i)' /\ rows'[i].ref = r
         /\ strays' = strays => StraysAreRows'
         /\ reading' = reading => ReadingOK'
<1>1. /\ rows' \in [Ids -> RowRecord]
      /\ \A i \in Ids : rows'[i].ref = rows[i].ref /\ rows'[i].mine = rows[i].mine
      /\ \A i \in Ids \ ids : rows'[i].status = rows[i].status
      /\ \A i \in ids : rows'[i].status = st
  BY MarkedFacts DEF RowsInv
<1>2. \A i \in Ids : rows'[i].status = "none" <=> rows[i].status = "none"
  BY <1>1, LiveFacts
<1>3. RowsInOrder'
  <2>1. Born \in Nat /\ MaxRows \in Nat BY DEF RowsInv, RowsInOrder, SyncAssumption
  <2>2. Born <= MaxRows
    <3>1. CASE MaxRows = 0
      <4>1. Ids = {} BY <3>1 DEF Ids
      <4>2. {i \in Ids : rows[i].status # "none"} = {} BY <4>1
      <4> QED BY <4>2, <3>1, FS_EmptySet DEF Born
    <3>2. CASE MaxRows > 0
      <4>1. IsFiniteSet(1..MaxRows) /\ Cardinality(1..MaxRows) = MaxRows
        BY <2>1, <3>2, FS_Interval
      <4>2. IsFiniteSet(Ids) /\ Cardinality(Ids) = MaxRows
        BY <4>1 DEF Ids
      <4>3. {i \in Ids : rows[i].status # "none"} \in SUBSET Ids
        OBVIOUS
      <4> QED BY <4>2, <4>3, FS_Subset DEF Born
    <3> QED BY <3>1, <3>2, <2>1
  <2>3. (Born + 1)..(Born + 0) = {} /\ Born + 0 <= MaxRows BY <2>1, <2>2
  <2> QED BY <2>3, <1>1, <1>2, Grow
<1>4. \A r : r \in LiveRefs' <=> \E i \in Ids : Live(i)' /\ rows'[i].ref = r
  BY DEF LiveRefs
<1>5. ASSUME strays' = strays PROVE StraysAreRows'
  <2>1. strays \subseteq Ids BY TypeParts DEF RowsInv, RestOK
  <2> QED BY <2>1, <1>1, <1>2, <1>5 DEF RowsInv, StraysAreRows
<1>6. reading' = reading => ReadingOK' BY <1>2, ReadingStays
<1> QED BY <1>1, <1>3, <1>4, <1>5, <1>6

LEMMA MarkedOne ==
  ASSUME SyncAssumption, RowsInv, NEW i \in Ids, Live(i),
         NEW st \in {"pending", "working", "failed", "gone"}, rows' = Marked({i}, st),
         strays' = strays, reading' = reading
  PROVE  /\ rows' \in [Ids -> RowRecord]
         /\ \A j \in Ids : rows'[j].ref = rows[j].ref /\ rows'[j].mine = rows[j].mine
         /\ \A j \in Ids \ {i} : rows'[j].status = rows[j].status
         /\ rows'[i].status = st
         /\ RowsInOrder' /\ StraysAreRows' /\ ReadingOK'
         /\ \A r : r \in LiveRefs' <=> \E j \in Ids : Live(j)' /\ rows'[j].ref = r
<1> DEFINE ids == {i}
<1>1. ids \in SUBSET Ids /\ \A j \in ids : Live(j) OBVIOUS
<1>2. rows' = Marked(ids, st) OBVIOUS
<1>3. i \in ids /\ \A j \in Ids \ {i} : j \in Ids \ ids OBVIOUS
<1> HIDE DEF ids
<1>4. /\ rows' \in [Ids -> RowRecord]
      /\ \A j \in Ids : rows'[j].ref = rows[j].ref /\ rows'[j].mine = rows[j].mine
      /\ \A j \in Ids \ ids : rows'[j].status = rows[j].status
      /\ \A j \in ids : rows'[j].status = st
      /\ RowsInOrder' /\ StraysAreRows' /\ ReadingOK'
      /\ \A r : r \in LiveRefs' <=> \E j \in Ids : Live(j)' /\ rows'[j].ref = r
  BY <1>1, <1>2, MarkedInOrder
<1> QED BY <1>3, <1>4

LEMMA RemoveLinkKeeps ==
  ASSUME SyncAssumption, RowsInv, NEW r \in Refs, RemoveLink(r) PROVE RowsInv'
<1> DEFINE out == {i \in Ids : Live(i) /\ rows[i].mine /\ rows[i].ref = r}
           loose == {i \in Ids : /\ r \in Folders
                                /\ Live(i) /\ rows[i].mine /\ rows[i].ref \notin Folders}
<1>1. rows \in [Ids -> RowRecord] /\ RestOK BY TypeParts DEF RowsInv
<1>2. /\ r \in links /\ links' = links \ {r} /\ rows' = Marked(out, "gone")
      /\ strays' = strays \cup loose /\ edits' = edits + 1
      /\ UNCHANGED <<on, mode, standing, reading, drift, syncs, planned, resolves, scans, harms, removed>>
  BY DEF RemoveLink, Edit
<1>3. /\ rows' \in [Ids -> RowRecord]
      /\ \A i \in Ids : rows'[i].ref = rows[i].ref /\ rows'[i].mine = rows[i].mine
      /\ \A i \in Ids \ out : rows'[i].status = rows[i].status
      /\ \A i \in out : rows'[i].status = "gone"
      /\ RowsInOrder' /\ ReadingOK'
      /\ \A q : q \in LiveRefs' <=> \E i \in Ids : Live(i)' /\ rows'[i].ref = q
  <2>1. out \in SUBSET Ids /\ (\A i \in out : Live(i)) /\ reading' = reading BY <1>2
  <2> HIDE DEF out
  <2> QED BY <2>1, <1>2, MarkedInOrder
<1>4. SyncTypeOK' BY <1>1, <1>2, <1>3, TypeParts DEF RestOK
<1>5. StraysAreRows'
  <2>1. \A i \in Ids : rows'[i].status = "none" <=> rows[i].status = "none"
    BY <1>3, LiveFacts
  <2>2. strays \subseteq Ids BY <1>1 DEF RestOK
  <2>3. \A i \in loose : rows[i].status # "none" BY LiveFacts
  <2> QED BY <2>1, <2>2, <2>3, <1>2, <1>3 DEF RowsInv, StraysAreRows
<1>6. PendingHasTask'
  BY <1>2, <1>3 DEF RowsInv, PendingHasTask
<1>7. ASSUME harms' = 0, syncs' = 0, ~drift', NEW i \in Ids, Live(i)', rows'[i].mine,
             Unwanted(rows[i].ref)', i \notin strays, i \notin reading.gone
      PROVE  i \in loose
  <2>1. i \notin out /\ Live(i) /\ rows[i].mine BY <1>3, <1>7 DEF Live
  <2>2. ~Unwanted(rows[i].ref) BY <2>1, <1>2, <1>7 DEF RowsInv, Settling, Stale
  <2>3. rows'[i].ref = rows[i].ref /\ rows[i].ref # r BY <1>3, <2>1
  <2>4. /\ on /\ member /\ mode = "links" /\ rows[i].ref \notin links
        /\ rows[i].ref \notin Folders /\ links \cap Folders # {} /\ links' \cap Folders = {}
    BY <2>2, <2>3, <1>2, <1>7 DEF Unwanted, member
  <2>5. r \in Folders BY <2>4, <1>2
  <2> QED BY <2>1, <2>4, <2>5
<1>8. ASSUME harms' = 0, syncs' = 0, ~drift', Explicit', NEW q \in links'
      PROVE  q \in LiveRefs' \cup removed' \cup reading'.missing
  <2>1. q \in links /\ q # r /\ Explicit BY <1>2, <1>8 DEF Explicit, member
  <2>2. q \in LiveRefs \cup removed \cup reading.missing
    BY <2>1, <1>2, <1>8 DEF RowsInv, Settling
  <2>3. CASE q \in LiveRefs
    <3>1. PICK i \in Ids : Live(i) /\ rows[i].ref = q BY <2>3, LiveFacts
    <3>2. i \notin out BY <3>1, <2>1
    <3>3. Live(i)' /\ rows'[i].ref = q BY <3>1, <3>2, <1>3 DEF Live
    <3> QED BY <3>3, <1>3
  <2> QED BY <2>2, <2>3, <1>2
<1>9. Settling'
  <2>1. ASSUME harms' = 0, syncs' = 0, ~drift', NEW i \in Stale'
        PROVE  i \in strays' \cup reading'.gone
    <3>1. i \in Ids /\ Live(i)' /\ rows'[i].mine /\ Unwanted(rows[i].ref)' BY <2>1 DEF Stale
    <3> QED BY <3>1, <2>1, <1>7, <1>2
  <2>2. ASSUME harms' = 0, syncs' = 0, ~drift', NEW i \in reading'.gone
        PROVE  Unwanted(rows[i].ref)'
    <3>1. i \in reading.gone /\ i \in Ids BY <2>2, <1>1, <1>2 DEF RestOK
    <3>2. Unwanted(rows[i].ref) BY <3>1, <2>2, <1>2 DEF RowsInv, Settling
    <3> QED BY <3>1, <3>2, <1>2, <1>3 DEF Unwanted, member
  <2> HIDE DEF out, loose
  <2> QED BY <2>1, <2>2, <1>8 DEF Settling
<1> QED BY <1>3, <1>4, <1>5, <1>6, <1>9 DEF RowsInv

\* Rows that stay live with their channel keep the settled state settled.
LEMMA SettledStays ==
  ASSUME RowsInv, NEW ids \in SUBSET Ids, \A i \in ids : Live(i)',
         \A i \in Ids : rows'[i].ref = rows[i].ref /\ rows'[i].mine = rows[i].mine,
         \A i \in ids : Live(i),
         \A i \in Ids \ ids : rows'[i].status = rows[i].status,
         \A r : r \in LiveRefs' <=> \E i \in Ids : Live(i)' /\ rows'[i].ref = r,
         UNCHANGED <<on, mode, links, standing, reading, drift, syncs, strays, removed>>, harms' = harms
  PROVE  Settling'
<1>1. \A i \in Ids : Live(i)' <=> Live(i) BY DEF Live
<1>2. \A i \in Ids : Unwanted(rows[i].ref)' <=> Unwanted(rows[i].ref) BY DEF Unwanted, member
<1>3. Stale' = Stale BY <1>1, <1>2 DEF Stale
<1>4. LiveRefs \subseteq LiveRefs' BY <1>1, LiveFacts
<1> QED BY <1>3, <1>4, SettlesOn

LEMMA RemoveRowKeeps == ASSUME SyncAssumption, RowsInv, NEW i \in Ids, RemoveRow(i) PROVE RowsInv'
<1>1. rows \in [Ids -> RowRecord] /\ RestOK BY TypeParts DEF RowsInv
<1>2. /\ Live(i) /\ rows' = Marked({i}, "gone")
      /\ removed' = removed \cup {rows[i].ref} /\ edits' = edits + 1
      /\ UNCHANGED <<on, mode, links, standing, reading, drift, syncs, planned, resolves, scans, harms, strays>>
  BY DEF RemoveRow, Edit, config
<1>3. /\ rows' \in [Ids -> RowRecord]
      /\ \A j \in Ids : rows'[j].ref = rows[j].ref /\ rows'[j].mine = rows[j].mine
      /\ \A j \in Ids \ {i} : rows'[j].status = rows[j].status
      /\ rows'[i].status = "gone"
      /\ RowsInOrder' /\ StraysAreRows' /\ ReadingOK'
      /\ \A q : q \in LiveRefs' <=> \E j \in Ids : Live(j)' /\ rows'[j].ref = q
  <2>1. Live(i) /\ strays' = strays /\ reading' = reading /\ rows' = Marked({i}, "gone") BY <1>2
  <2> QED BY <2>1, MarkedOne
<1>4. rows[i].ref \in Refs BY <1>2, LiveFacts DEF RowsInv, RowsInOrder
<1>5. SyncTypeOK'
  <2>1. removed' \subseteq Refs /\ edits' \in Nat BY <1>1, <1>2, <1>4 DEF RestOK
  <2> QED BY <2>1, <1>1, <1>2, <1>3, TypeParts DEF RestOK
<1>6. PendingHasTask' BY <1>2, <1>3 DEF RowsInv, PendingHasTask
<1>7. Stale' \subseteq Stale BY <1>2, <1>3 DEF Stale, Live, Unwanted, member
<1>8. LiveRefs \subseteq LiveRefs' \cup removed'
  <2>1. ASSUME NEW q \in LiveRefs PROVE q \in LiveRefs' \cup removed'
    <3>1. PICK j \in Ids : Live(j) /\ rows[j].ref = q BY LiveFacts
    <3>2. j # i => Live(j)' /\ rows'[j].ref = q BY <3>1, <1>3 DEF Live
    <3> QED BY <3>1, <3>2, <1>2, <1>3
  <2> QED BY <2>1
<1>9. Settling' BY <1>2, <1>3, <1>7, <1>8, SettlesOn
<1> QED BY <1>3, <1>5, <1>6, <1>9 DEF RowsInv

LEMMA ResolveEndsKeeps ==
  ASSUME SyncAssumption, RowsInv, NEW i \in Ids, ResolveEnds(i) PROVE RowsInv'
<1>1. rows \in [Ids -> RowRecord] /\ RestOK BY TypeParts DEF RowsInv
<1>2. /\ resolves[i] > 0 /\ resolves' = [resolves EXCEPT ![i] = @ - 1]
      /\ IF Live(i) THEN rows' = Marked({i}, "failed") \/ rows' = Marked({i}, "working")
                    ELSE rows' = rows
      /\ UNCHANGED <<on, mode, links, standing, reading, drift, syncs, planned, scans, edits, harms, strays,
                     removed>>
  BY DEF ResolveEnds, config
<1>3. resolves' \in [Ids -> Nat] /\ \A j \in Ids \ {i} : resolves'[j] = resolves[j]
  BY <1>1, <1>2 DEF RestOK
<1>4. CASE Live(i)
  <2>1. PICK st \in {"failed", "working"} : rows' = Marked({i}, st) BY <1>2, <1>4
  <2>2. /\ rows' \in [Ids -> RowRecord]
        /\ \A j \in Ids : rows'[j].ref = rows[j].ref /\ rows'[j].mine = rows[j].mine
        /\ \A j \in Ids \ {i} : rows'[j].status = rows[j].status
        /\ rows'[i].status = st
        /\ RowsInOrder' /\ StraysAreRows' /\ ReadingOK'
        /\ \A q : q \in LiveRefs' <=> \E j \in Ids : Live(j)' /\ rows'[j].ref = q
    <3>1. strays' = strays /\ reading' = reading BY <1>2
    <3> QED BY <3>1, <2>1, <1>4, MarkedOne
  <2>3. SyncTypeOK' BY <1>1, <1>2, <1>3, <2>2, TypeParts DEF RestOK
  <2>4. PendingHasTask' BY <1>2, <1>3, <2>2 DEF RowsInv, PendingHasTask
  <2>5. {i} \in SUBSET Ids /\ \A j \in {i} : Live(j) /\ Live(j)' BY <1>4, <2>2 DEF Live
  <2>6. Settling' BY <1>2, <2>2, <2>5, SettledStays
  <2> QED BY <2>2, <2>3, <2>4, <2>6 DEF RowsInv
<1>5. CASE ~Live(i)
  <2>1. rows' = rows BY <1>2, <1>5
  <2>2. SyncTypeOK' BY <1>1, <1>2, <1>3, <2>1, TypeParts DEF RestOK
  <2>3. PendingHasTask' BY <1>2, <1>3, <1>5, <2>1 DEF RowsInv, PendingHasTask, Live
  <2>4. Settling'
    BY <1>2, <2>1, RowsUntouched DEF RowsInv, Settling, Explicit, member, Stale, Live, Unwanted
  <2> QED BY <1>2, <2>1, <2>2, <2>3, <2>4, RowsUntouched DEF RowsInv
<1> QED BY <1>4, <1>5

LEMMA RefusedKeeps == ASSUME SyncAssumption, RowsInv, NEW i \in Ids, Refused(i) PROVE RowsInv'
<1>1. rows \in [Ids -> RowRecord] /\ RestOK BY TypeParts DEF RowsInv
<1>2. /\ Live(i) /\ edits' = edits + 1
      /\ UNCHANGED <<on, mode, links, standing, reading, drift, syncs, resolves, scans, harms, strays, removed>>
  BY DEF Refused, Edit, config
<1>3. PICK st \in {"failed", "pending"} :
        /\ rows' = Marked({i}, st)
        /\ planned \subseteq planned' /\ planned' \subseteq planned \cup {i}
        /\ st = "pending" => i \in planned'
  <2>1. \/ rows' = Marked({i}, "failed") /\ planned' = planned
        \/ rows' = Marked({i}, "pending") /\ planned' = planned \cup {i}
    BY DEF Refused
  <2> QED BY <2>1
<1>4. /\ rows' \in [Ids -> RowRecord]
      /\ \A j \in Ids : rows'[j].ref = rows[j].ref /\ rows'[j].mine = rows[j].mine
      /\ \A j \in Ids \ {i} : rows'[j].status = rows[j].status
      /\ rows'[i].status = st
      /\ RowsInOrder' /\ StraysAreRows' /\ ReadingOK'
      /\ \A q : q \in LiveRefs' <=> \E j \in Ids : Live(j)' /\ rows'[j].ref = q
  <2>1. Live(i) /\ strays' = strays /\ reading' = reading BY <1>2
  <2> QED BY <2>1, <1>3, MarkedOne
<1>5. SyncTypeOK'
  <2>1. planned' \subseteq Ids /\ edits' \in Nat BY <1>1, <1>2, <1>3 DEF RestOK
  <2> QED BY <2>1, <1>1, <1>2, <1>3, <1>4, TypeParts DEF RestOK
<1>6. PendingHasTask' BY <1>2, <1>3, <1>4 DEF RowsInv, PendingHasTask
<1>7. {i} \in SUBSET Ids /\ \A j \in {i} : Live(j) /\ Live(j)' BY <1>2, <1>4 DEF Live
<1>8. Settling' BY <1>2, <1>4, <1>7, SettledStays
<1> QED BY <1>4, <1>5, <1>6, <1>8 DEF RowsInv
-----------------------------------------------------------------------------
(* Steps that create rows *)

\* New rows after some marks: in order, and nothing that was live is lost.
LEMMA CreatedInOrder ==
  ASSUME SyncAssumption, RowsInv, NEW f \in [Ids -> RowRecord],
         \A i \in Ids : f[i].ref = rows[i].ref /\ f[i].mine = rows[i].mine
                        /\ (f[i].status = "none" <=> rows[i].status = "none"),
         NEW refs \in SUBSET Refs, Room(refs), NEW mine, NEW st \in {"pending", "working", "failed"}, Fits(mine, st),
         rows' = Created(f, refs, mine, st)
  PROVE  /\ rows' \in [Ids -> RowRecord]
         /\ Fresh(refs) \subseteq Ids
         /\ \A i \in Fresh(refs) : rows[i].status = "none"
         /\ \A i \in Fresh(refs) : /\ rows'[i].ref \in refs /\ rows'[i].mine = mine
                                   /\ rows'[i].status = st
         /\ \A i \in Ids \ Fresh(refs) : rows'[i] = f[i]
         /\ \A r \in refs : \E i \in Fresh(refs) : rows'[i].ref = r
         /\ RowsInOrder' /\ (reading' = reading => ReadingOK')
         /\ \A r : r \in LiveRefs' <=> \E i \in Ids : Live(i)' /\ rows'[i].ref = r
<1>1. Born \in Nat BY DEF RowsInv, RowsInOrder
<1> DEFINE N == Cardinality(refs)
           g == Created(f, refs, mine, st)
<1>2. /\ N \in Nat /\ Born + N <= MaxRows
      /\ Fresh(refs) \subseteq Ids
      /\ \A i \in Fresh(refs) : i > Born
      /\ g \in [Ids -> RowRecord]
      /\ \A i \in Ids \ Fresh(refs) : g[i] = f[i]
      /\ \A i \in Fresh(refs) : g[i].ref \in refs /\ g[i].mine = mine /\ g[i].status = st
      /\ \A r \in refs : \E i \in Fresh(refs) : g[i].ref = r
  BY <1>1, CreatedFacts
<1> rows' = g OBVIOUS
<1> HIDE DEF g
<1>3. \A i \in Fresh(refs) : rows[i].status = "none" BY <1>2, OldRows
<1>4. Fresh(refs) = (Born + 1)..(Born + N) BY DEF Fresh
<1> HIDE DEF N
<1>5. /\ \A i \in Ids \ (Born + 1)..(Born + N) :
            rows'[i].ref = rows[i].ref /\ (rows'[i].status = "none" <=> rows[i].status = "none")
      /\ \A i \in (Born + 1)..(Born + N) : rows'[i].status # "none" /\ rows'[i].ref \in Refs
  BY <1>2, <1>4
<1>6. RowsInOrder' BY <1>2, <1>5, Grow
<1>7. \A r : r \in LiveRefs' <=> \E i \in Ids : Live(i)' /\ rows'[i].ref = r BY DEF LiveRefs
<1>8. reading' = reading => ReadingOK' BY <1>2, <1>3, ReadingStays
<1> QED BY <1>2, <1>3, <1>6, <1>7, <1>8

LEMMA AddManualKeeps ==
  ASSUME SyncAssumption, RowsInv, NEW r \in Refs, AddManual(r) PROVE RowsInv'
<1>1. rows \in [Ids -> RowRecord] /\ RestOK BY TypeParts DEF RowsInv
<1>2. /\ Room({r}) /\ rows' = Created(rows, {r}, FALSE, "pending")
      /\ planned' = planned \cup Fresh({r}) /\ edits' = edits + 1
      /\ UNCHANGED <<on, mode, links, standing, reading, drift, syncs, resolves, scans, harms, strays, removed>>
  BY DEF AddManual, Edit, config
<1>3. /\ rows' \in [Ids -> RowRecord]
      /\ Fresh({r}) \subseteq Ids
      /\ \A i \in Fresh({r}) : rows[i].status = "none"
      /\ \A i \in Fresh({r}) : /\ rows'[i].ref \in {r} /\ rows'[i].mine = FALSE
                               /\ rows'[i].status = "pending"
      /\ \A i \in Ids \ Fresh({r}) : rows'[i] = rows[i]
      /\ RowsInOrder' /\ ReadingOK'
      /\ \A q : q \in LiveRefs' <=> \E i \in Ids : Live(i)' /\ rows'[i].ref = q
  <2> DEFINE no == FALSE
             f == rows
             refs == {r}
  <2>1. refs \in SUBSET Refs /\ Fits(no, "pending") BY AllFit
  <2>2. Room(refs) /\ rows' = Created(f, refs, no, "pending") /\ reading' = reading BY <1>2
  <2>3. /\ f \in [Ids -> RowRecord]
        /\ \A i \in Ids : f[i].ref = rows[i].ref /\ f[i].mine = rows[i].mine
                           /\ (f[i].status = "none" <=> rows[i].status = "none")
    BY <1>1
  <2>5. no = FALSE /\ f = rows /\ refs = {r} OBVIOUS
  <2> HIDE DEF no, f, refs
  <2>4. /\ rows' \in [Ids -> RowRecord]
        /\ Fresh(refs) \subseteq Ids
        /\ \A i \in Fresh(refs) : rows[i].status = "none"
        /\ \A i \in Fresh(refs) : /\ rows'[i].ref \in refs /\ rows'[i].mine = no
                                   /\ rows'[i].status = "pending"
        /\ \A i \in Ids \ Fresh(refs) : rows'[i] = f[i]
        /\ RowsInOrder' /\ ReadingOK'
        /\ \A q : q \in LiveRefs' <=> \E i \in Ids : Live(i)' /\ rows'[i].ref = q
    BY <2>1, <2>2, <2>3, CreatedInOrder
  <2> QED BY <2>4, <2>5
<1>4. SyncTypeOK'
  <2>1. planned' \subseteq Ids BY <1>1, <1>2, <1>3 DEF RestOK
  <2>0. edits' \in Nat BY <1>1, <1>2 DEF RestOK
  <2> QED BY <2>0, <2>1, <1>1, <1>2, <1>3, TypeParts DEF RestOK
<1>5. strays \cap Fresh({r}) = {} /\ strays \subseteq Ids
  BY <1>1, <1>3 DEF RowsInv, StraysAreRows, RestOK
<1>6. StraysAreRows' BY <1>2, <1>3, <1>5 DEF RowsInv, StraysAreRows
<1>7. PendingHasTask' BY <1>2, <1>3 DEF RowsInv, PendingHasTask
<1>8. Stale' \subseteq Stale
  <2>1. ASSUME NEW i \in Stale' PROVE i \in Stale
    <3>1. i \in Ids /\ Live(i)' /\ rows'[i].mine /\ Unwanted(rows[i].ref)' BY <2>1 DEF Stale
    <3>2. i \notin Fresh({r}) BY <3>1, <1>3
    <3>3. rows'[i] = rows[i] BY <3>1, <3>2, <1>3
    <3> QED BY <3>1, <3>3, <1>2 DEF Stale, Live, Unwanted, member
  <2> QED BY <2>1
<1>9. LiveRefs \subseteq LiveRefs'
  <2>1. \A i \in Ids : Live(i) => Live(i)' /\ rows'[i].ref = rows[i].ref BY <1>3 DEF Live
  <2> QED BY <2>1, <1>3, LiveFacts
<1>10. \A i \in Ids : rows[i].status # "none" => rows'[i].ref = rows[i].ref BY <1>3
<1>11. Settling' BY <1>2, <1>8, <1>9, <1>10, SettlesOn
<1> QED BY <1>3, <1>4, <1>6, <1>7, <1>11 DEF RowsInv

LEMMA ScanKeeps ==
  ASSUME SyncAssumption, RowsInv, NEW r \in Subscribed, Scan(r) PROVE RowsInv'
<1>1. rows \in [Ids -> RowRecord] /\ RestOK BY TypeParts DEF RowsInv
<1>2. /\ Room({r}) /\ rows' = Created(rows, {r}, TRUE, "working")
      /\ strays' = IF Unwanted(r) THEN strays \cup Fresh({r}) ELSE strays
      /\ UNCHANGED <<on, mode, links, standing, reading, drift, syncs, planned, resolves, scans, edits, harms,
                     removed>>
  BY DEF Scan, config
<1>3. r \in Refs /\ r \notin Folders BY DEF SyncAssumption
<1>4. /\ rows' \in [Ids -> RowRecord]
      /\ Fresh({r}) \subseteq Ids
      /\ \A i \in Fresh({r}) : rows[i].status = "none"
      /\ \A i \in Fresh({r}) : /\ rows'[i].ref \in {r} /\ rows'[i].mine = TRUE
                               /\ rows'[i].status = "working"
      /\ \A i \in Ids \ Fresh({r}) : rows'[i] = rows[i]
      /\ RowsInOrder' /\ ReadingOK'
      /\ \A q : q \in LiveRefs' <=> \E i \in Ids : Live(i)' /\ rows'[i].ref = q
  <2> DEFINE yes == TRUE
             f == rows
             refs == {r}
  <2>1. refs \in SUBSET Refs /\ Fits(yes, "working") BY <1>3, AllFit
  <2>2. Room(refs) /\ rows' = Created(f, refs, yes, "working") /\ reading' = reading BY <1>2
  <2>3. /\ f \in [Ids -> RowRecord]
        /\ \A i \in Ids : f[i].ref = rows[i].ref /\ f[i].mine = rows[i].mine
                           /\ (f[i].status = "none" <=> rows[i].status = "none")
    BY <1>1
  <2>5. yes = TRUE /\ f = rows /\ refs = {r} OBVIOUS
  <2> HIDE DEF yes, f, refs
  <2>4. /\ rows' \in [Ids -> RowRecord]
        /\ Fresh(refs) \subseteq Ids
        /\ \A i \in Fresh(refs) : rows[i].status = "none"
        /\ \A i \in Fresh(refs) : /\ rows'[i].ref \in refs /\ rows'[i].mine = yes
                                   /\ rows'[i].status = "working"
        /\ \A i \in Ids \ Fresh(refs) : rows'[i] = f[i]
        /\ RowsInOrder' /\ ReadingOK'
        /\ \A q : q \in LiveRefs' <=> \E i \in Ids : Live(i)' /\ rows'[i].ref = q
    BY <2>1, <2>2, <2>3, CreatedInOrder
  <2> QED BY <2>4, <2>5
<1>5. strays' \subseteq Ids /\ strays \subseteq strays' /\ strays' \subseteq strays \cup Fresh({r})
  BY <1>1, <1>2, <1>4 DEF RestOK
<1>6. SyncTypeOK' BY <1>1, <1>2, <1>4, <1>5, TypeParts DEF RestOK
<1>7. strays \cap Fresh({r}) = {} /\ strays \subseteq Ids
  BY <1>1, <1>4 DEF RowsInv, StraysAreRows, RestOK
<1>8. StraysAreRows' BY <1>3, <1>4, <1>5, <1>7 DEF RowsInv, StraysAreRows
<1>9. PendingHasTask' BY ZenonT(30), <1>2, <1>4 DEF RowsInv, PendingHasTask
<1>10. ASSUME NEW i \in Stale' PROVE i \in Stale \cup strays'
  <2>1. i \in Ids /\ Live(i)' /\ rows'[i].mine /\ Unwanted(rows[i].ref)' BY <1>10 DEF Stale
  <2>2. CASE i \in Fresh({r})
    <3>1. rows'[i].ref = r BY <1>4, <2>2
    <3>2. Unwanted(r) BY <2>1, <3>1, <1>2 DEF Unwanted, member
    <3> QED BY <3>2, <2>2, <1>2
  <2>3. CASE i \notin Fresh({r})
    <3>1. rows'[i] = rows[i] BY <1>4, <2>1, <2>3
    <3>2. i \in Stale BY <2>1, <3>1, <1>2 DEF Stale, Live, Unwanted, member
    <3> QED BY <3>2
  <2> QED BY <2>2, <2>3
<1>11. LiveRefs \subseteq LiveRefs'
  <2>1. \A i \in Ids : Live(i) => Live(i)' /\ rows'[i].ref = rows[i].ref BY <1>4 DEF Live
  <2> QED BY <2>1, <1>4, LiveFacts
<1>12. \A i \in Ids : rows[i].status # "none" => rows'[i].ref = rows[i].ref BY <1>4
<1>13. Settling' BY <1>2, <1>5, <1>10, <1>11, <1>12, SettlesOn
<1> QED BY <1>4, <1>6, <1>8, <1>9, <1>13 DEF RowsInv

LEMMA ExpandKeeps ==
  ASSUME SyncAssumption, RowsInv, NEW i \in Ids, Expand(i) PROVE RowsInv'
<1> DEFINE new == Inside \ LiveRefs
           f == IF Live(i) THEN Marked({i}, "working") ELSE rows
<1>1. rows \in [Ids -> RowRecord] /\ RestOK BY TypeParts DEF RowsInv
<1>2. /\ resolves[i] > 0 /\ resolves' = [resolves EXCEPT ![i] = @ - 1]
      /\ rows[i].ref \in Folders /\ Room(new)
      /\ rows' = Created(f, new, rows[i].mine, "pending")
      /\ planned' = planned \cup Fresh(new)
      /\ strays' = IF Live(i) /\ i \notin strays THEN strays ELSE strays \cup Fresh(new)
      /\ ~reading.open
      /\ UNCHANGED <<on, mode, links, standing, reading, drift, syncs, scans, edits, harms, removed>>
  BY DEF Expand, Awake, config
<1>3. /\ f \in [Ids -> RowRecord]
      /\ \A j \in Ids : f[j].ref = rows[j].ref /\ f[j].mine = rows[j].mine
      /\ \A j \in Ids \ {i} : f[j].status = rows[j].status
      /\ f[i].status = IF Live(i) THEN "working" ELSE rows[i].status
  <2>1. {i} \in SUBSET Ids OBVIOUS
  <2> QED BY <1>1, <2>1, MarkedFacts DEF RowsInv
<1> HIDE DEF f
<1>4. \A j \in Ids : f[j].status = "none" <=> rows[j].status = "none" BY <1>3, LiveFacts
<1>5. new \in SUBSET Refs /\ \A r \in new : r \notin Folders BY DEF SyncAssumption
<1>6. Fits(rows[i].mine, "pending") BY <1>1, AllFit
<1>7. /\ rows' \in [Ids -> RowRecord]
      /\ Fresh(new) \subseteq Ids
      /\ \A j \in Fresh(new) : rows[j].status = "none"
      /\ \A j \in Fresh(new) : /\ rows'[j].ref \in new /\ rows'[j].mine = rows[i].mine
                               /\ rows'[j].status = "pending"
      /\ \A j \in Ids \ Fresh(new) : rows'[j] = f[j]
      /\ RowsInOrder' /\ ReadingOK'
      /\ \A q : q \in LiveRefs' <=> \E j \in Ids : Live(j)' /\ rows'[j].ref = q
  <2> HIDE DEF new
  <2> QED BY <1>2, <1>3, <1>4, <1>5, <1>6, CreatedInOrder
<1>8. resolves' \in [Ids -> Nat] /\ \A j \in Ids \ {i} : resolves'[j] = resolves[j]
  BY <1>1, <1>2 DEF RestOK
<1> HIDE DEF new
<1>9. strays' \subseteq Ids /\ strays \subseteq strays' /\ strays' \subseteq strays \cup Fresh(new)
  BY <1>1, <1>2, <1>7 DEF RestOK
<1>10. SyncTypeOK'
  <2>1. planned' \subseteq Ids BY <1>1, <1>2, <1>7 DEF RestOK
  <2> QED BY <2>1, <1>1, <1>2, <1>7, <1>8, <1>9, TypeParts DEF RestOK
<1>11. strays \cap Fresh(new) = {} /\ strays \subseteq Ids
  BY <1>1, <1>7 DEF RowsInv, StraysAreRows, RestOK
<1>12. StraysAreRows'
  <2>1. ASSUME NEW j \in strays' PROVE rows'[j].status # "none"
    <3>1. CASE j \in Fresh(new) BY <3>1, <1>5, <1>7
    <3>2. CASE j \notin Fresh(new)
      <4>1. j \in strays /\ j \in Ids /\ rows'[j] = f[j] BY <2>1, <3>2, <1>7, <1>9
      <4> QED BY <4>1, <1>3, <1>4 DEF RowsInv, StraysAreRows
    <3> QED BY <3>1, <3>2
  <2> QED BY <2>1 DEF StraysAreRows
<1>13. PendingHasTask'
  <2>1. ASSUME harms' = 0, NEW j \in Ids, rows'[j].status = "pending"
        PROVE  j \in planned' \/ resolves'[j] > 0
    <3>1. CASE j \in Fresh(new) BY <3>1, <1>2
    <3>2. CASE j \notin Fresh(new)
      <4>1. f[j].status = "pending" BY <2>1, <3>2, <1>7
      <4>2. j # i BY <4>1, <1>3 DEF Live
      <4>3. rows[j].status = "pending" BY <4>1, <4>2, <1>3
      <4> QED BY <4>2, <4>3, <2>1, <1>2, <1>8 DEF RowsInv, PendingHasTask
    <3> QED BY <3>1, <3>2
  <2> QED BY <2>1 DEF PendingHasTask
<1>14. \A j \in Ids \ Fresh(new) : /\ Live(j)' <=> Live(j)
                                   /\ rows'[j].ref = rows[j].ref /\ rows'[j].mine = rows[j].mine
  BY <1>3, <1>7 DEF Live
<1>15. ASSUME Settling, harms = 0, syncs = 0, ~drift, NEW j \in Stale'
       PROVE  j \in Stale \cup strays'
  <2>1. j \in Ids /\ Live(j)' /\ rows'[j].mine /\ Unwanted(rows[j].ref)' BY <1>15 DEF Stale
  <2>2. CASE j \notin Fresh(new)
    <3>1. Unwanted(rows[j].ref) BY <2>1, <2>2, <1>2, <1>14 DEF Unwanted, member
    <3> QED BY <2>1, <2>2, <3>1, <1>14 DEF Stale
  <2>3. CASE j \in Fresh(new) /\ ~(Live(i) /\ i \notin strays) BY <2>3, <1>2
  <2>4. CASE j \in Fresh(new) /\ Live(i) /\ i \notin strays
    <3>1. rows[i].mine /\ rows'[j].ref \notin Folders BY <2>1, <2>4, <1>5, <1>7
    <3>2. reading.gone = {} BY <1>2 DEF RowsInv, ReadingOK, NoSync
    <3>3. ~Unwanted(rows[i].ref) BY <3>1, <3>2, <2>4, <1>15 DEF Stale, Settling
    <3>4. on /\ member /\ (mode = "links" => links \cap Folders # {})
      BY <3>3, <1>2 DEF Unwanted
    <3> QED BY <3>1, <3>4, <2>1, <1>2 DEF Unwanted, member
  <2> QED BY <2>2, <2>3, <2>4
<1>16. LiveRefs \subseteq LiveRefs'
  <2>1. \A j \in Ids : Live(j) => j \notin Fresh(new) BY <1>7 DEF Live
  <2> QED BY <2>1, <1>7, <1>14, LiveFacts
<1>17. \A j \in Ids : rows[j].status # "none" => rows'[j].ref = rows[j].ref BY <1>7, <1>14
<1>18. Settling' BY <1>2, <1>9, <1>15, <1>16, <1>17, SettlesOn
<1> QED BY <1>7, <1>10, <1>12, <1>13, <1>18 DEF RowsInv
-----------------------------------------------------------------------------
(* The sync itself *)

LEMMA SyncReadsKeeps == ASSUME SyncAssumption, RowsInv, SyncReads PROVE RowsInv'
<1>1. rows \in [Ids -> RowRecord] /\ RestOK BY TypeParts DEF RowsInv
<1>2. /\ syncs > 0 /\ syncs' = syncs - 1 /\ removed' = {} /\ drift' = FALSE
      /\ reading' = [open |-> TRUE, gone |-> Stale, missing |-> Missing, again |-> Failed,
                     scan |-> on /\ member /\ mode = "subscriptions"]
      /\ UNCHANGED <<rows, on, mode, links, standing, planned, resolves, scans, edits, harms, strays>>
  BY DEF SyncReads, ReadsWith, config
<1>3. /\ reading'.open = TRUE /\ reading'.gone = Stale /\ reading'.missing = Missing
      /\ Stale \in SUBSET Ids /\ Missing \in SUBSET Refs /\ Failed \in SUBSET Ids
  BY <1>1, <1>2 DEF Stale, Missing, Failed, RestOK
<1>4. SyncTypeOK'
  <2>1. (on /\ member /\ mode = "subscriptions") \in BOOLEAN BY <1>1 DEF member, RestOK
  <2>2. reading' \in [open: BOOLEAN, gone: SUBSET Ids, missing: SUBSET Refs, again: SUBSET Ids,
                      scan: BOOLEAN]
    <3> DEFINE scan == on /\ member /\ mode = "subscriptions"
    <3>1. scan \in BOOLEAN BY <2>1
    <3>2. reading' = [open |-> TRUE, gone |-> Stale, missing |-> Missing, again |-> Failed,
                      scan |-> scan] BY <1>2
    <3> HIDE DEF scan
    <3> QED BY <3>1, <3>2, <1>3
  <2>3. syncs' \in Nat /\ removed' \subseteq Refs
    <3>1. syncs \in Nat BY <1>1 DEF RestOK
    <3>2. syncs' = syncs - 1 /\ syncs > 0 /\ removed' = {} BY <1>2
    <3> QED BY <3>1, <3>2
  <2>4. drift' \in BOOLEAN BY <1>2
  <2> QED BY <2>2, <2>3, <2>4, <1>1, <1>2, TypeParts DEF RestOK
<1>5. ReadingOK'
  <2>1. \A i \in Stale : rows[i].status # "none" BY LiveFacts DEF Stale
  <2> QED BY <2>1, <1>2, <1>3 DEF ReadingOK
<1>6. PendingHasTask' BY <1>2 DEF RowsInv, PendingHasTask
<1>7. Stale' = Stale /\ LiveRefs' = LiveRefs /\ (Explicit' <=> Explicit)
      /\ \A i \in Stale : Unwanted(rows[i].ref)'
  BY <1>2 DEF Stale, LiveRefs, Live, Unwanted, Explicit, member
<1>8. Settling'
  <2>1. Explicit => links \subseteq LiveRefs \cup Missing BY DEF Missing
  <2> QED BY <2>1, <1>2, <1>3, <1>7 DEF Settling
<1> QED BY <1>2, <1>4, <1>5, <1>6, <1>8, RowsUntouched DEF RowsInv

LEMMA SyncBreaksKeeps == ASSUME SyncAssumption, RowsInv, SyncBreaks PROVE RowsInv'
<1>1. rows \in [Ids -> RowRecord] /\ RestOK BY TypeParts DEF RowsInv
<1>2. /\ reading' = NoSync /\ Requested
      /\ UNCHANGED <<rows, on, mode, links, standing, planned, resolves, scans, edits, strays,
                     removed, drift>>
  BY DEF SyncBreaks, config
<1>3. harms' \in Nat /\ syncs' \in Nat /\ (harms' = 0 => harms = 0 /\ syncs' # 0)
  BY <1>1, <1>2 DEF Requested, RestOK
<1>4. SyncTypeOK' BY <1>1, <1>2, <1>3, TypeParts DEF RestOK, NoSync
<1>5. ReadingOK' BY <1>2 DEF ReadingOK, NoSync
<1>6. PendingHasTask' BY <1>2, <1>3 DEF RowsInv, PendingHasTask
<1>7. Settling' BY <1>3 DEF Settling
<1> QED BY <1>2, <1>4, <1>5, <1>6, <1>7, RowsUntouched DEF RowsInv

LEMMA SyncCommitsKeeps == ASSUME SyncAssumption, RowsInv, SyncCommits PROVE RowsInv'
<1> DEFINE again == reading.again
           gone == reading.gone
           made == reading.missing \ LiveRefs
           f == Marked(again, "pending")
           yes == TRUE
           g == Created(f, made, yes, "pending")
           h == [i \in Ids |-> IF i \in gone THEN [rows[i] EXCEPT !.status = "gone"] ELSE g[i]]
<1>1. rows \in [Ids -> RowRecord] /\ RestOK BY TypeParts DEF RowsInv
<1>2. /\ reading' = NoSync /\ Room(made) /\ rows' = h /\ \A i \in again : Live(i)
      /\ planned' = planned \cup again \cup Fresh(made)
      /\ scans' = IF reading.scan THEN scans + 1 ELSE scans
      /\ strays' = strays \cup {i \in Fresh(made) : syncs = 0 /\ Unwanted(rows'[i].ref)}
      /\ UNCHANGED <<on, mode, links, standing, syncs, drift, removed, resolves, edits, harms>>
  BY DEF SyncCommits, CommitsWith, config
<1>3. again \in SUBSET Ids /\ gone \in SUBSET Ids /\ made \in SUBSET Refs BY <1>1 DEF RestOK
<1>0. \A i \in gone : rows[i].status # "none" BY DEF RowsInv, ReadingOK
<1> HIDE DEF again, gone
<1>4. /\ f \in [Ids -> RowRecord]
      /\ \A i \in Ids : f[i].ref = rows[i].ref /\ f[i].mine = rows[i].mine
      /\ \A i \in Ids \ again : f[i].status = rows[i].status
      /\ \A i \in again : f[i].status = "pending"
  BY <1>3, MarkedFacts DEF RowsInv
<1> HIDE DEF f
<1>5. \A i \in Ids : (f[i].status = "none" <=> rows[i].status = "none") /\ (Live(i) =>
                     f[i].status \in {"pending", "working", "failed"})
  BY <1>2, <1>4, LiveFacts DEF Live
<1>7. Born \in Nat BY DEF RowsInv, RowsInOrder
<1>8. /\ Cardinality(made) \in Nat /\ Born + Cardinality(made) <= MaxRows
      /\ Fresh(made) \subseteq Ids
      /\ \A i \in Fresh(made) : i > Born
      /\ g \in [Ids -> RowRecord]
      /\ \A i \in Ids \ Fresh(made) : g[i] = f[i]
      /\ \A i \in Fresh(made) : g[i].ref \in made /\ g[i].mine = yes /\ g[i].status = "pending"
      /\ \A r \in made : \E i \in Fresh(made) : g[i].ref = r
  <2>1. Fits(yes, "pending") BY AllFit
  <2>2. Room(made) BY <1>2
  <2> HIDE DEF yes, made
  <2> QED BY <2>1, <2>2, <1>3, <1>4, <1>7, CreatedFacts
<1> HIDE DEF g
<1>9. \A i \in Fresh(made) : rows[i].status = "none" BY <1>8, OldRows
<1>11. /\ \A i \in gone : /\ rows'[i].ref = rows[i].ref /\ rows'[i].status = "gone"
                          /\ rows'[i] \in RowRecord
       /\ \A i \in Ids \ gone : rows'[i] = g[i]
       /\ DOMAIN rows' = Ids /\ rows' = [i \in Ids |-> rows'[i]]
  BY <1>1, <1>2, <1>3 DEF RowRecord
<1> HIDE DEF h, made
<1>12. rows' \in [Ids -> RowRecord] BY <1>8, <1>11
<1>13. gone \cap Fresh(made) = {} BY <1>0, <1>9
<1>13b. \A i \in Ids \ Fresh(made) :
            rows'[i].ref = rows[i].ref /\ (rows'[i].status = "none" <=> rows[i].status = "none")
  BY <1>0, <1>4, <1>5, <1>8, <1>11
<1>14. RowsInOrder'
  <2> DEFINE N == Cardinality(made)
  <2>1. Fresh(made) = (Born + 1)..(Born + N) BY DEF Fresh
  <2>3. \A i \in Fresh(made) : rows'[i].status # "none" /\ rows'[i].ref \in Refs
    BY <1>3, <1>8, <1>11, <1>13
  <2>4. N \in Nat /\ Born + N <= MaxRows BY <1>8
  <2> HIDE DEF N
  <2> QED BY <2>1, <1>13b, <2>3, <2>4, <1>12, Grow
<1>15. SyncTypeOK'
  <2>1. planned' \subseteq Ids /\ strays' \subseteq Ids /\ scans' \in Nat
    BY <1>1, <1>2, <1>3, <1>8 DEF RestOK
  <2>2. reading' \in [open: BOOLEAN, gone: SUBSET Ids, missing: SUBSET Refs, again: SUBSET Ids,
                      scan: BOOLEAN]
    BY <1>2 DEF NoSync
  <2> QED BY <2>1, <2>2, <1>1, <1>2, <1>12, TypeParts DEF RestOK
<1>16. StraysAreRows' /\ ReadingOK'
  <2>1. strays \subseteq Ids BY <1>1 DEF RestOK
  <2>2. ASSUME NEW i \in strays' PROVE rows'[i].status # "none"
    <3>1. CASE i \in Fresh(made) BY <3>1, <1>8, <1>11, <1>13
    <3>2. CASE i \notin Fresh(made)
      <4>1. i \in strays /\ i \in Ids BY <3>2, <2>1, <2>2, <1>2
      <4> QED BY <4>1, <3>2, <1>13b DEF RowsInv, StraysAreRows
    <3> QED BY <3>1, <3>2
  <2>3. ReadingOK' BY <1>2 DEF ReadingOK, NoSync
  <2> QED BY <2>2, <2>3 DEF StraysAreRows
<1>17. PendingHasTask'
  <2>1. ASSUME harms' = 0, NEW i \in Ids, rows'[i].status = "pending"
        PROVE  i \in planned' \/ resolves'[i] > 0
    <3>1. i \notin gone /\ rows'[i] = g[i] BY <2>1, <1>11
    <3>2. CASE i \in Fresh(made) \cup again BY <3>2, <1>2
    <3>3. CASE i \notin Fresh(made) \cup again
      <4>1. rows[i].status = "pending" BY <3>1, <3>3, <2>1, <1>4, <1>8
      <4> QED BY <4>1, <2>1, <1>2 DEF RowsInv, PendingHasTask
    <3> QED BY <3>2, <3>3
  <2> QED BY <2>1 DEF PendingHasTask
<1>18. ASSUME harms' = 0, syncs' = 0, ~drift', NEW i \in Stale' PROVE i \in strays'
  <2>1. i \in Ids /\ Live(i)' /\ rows'[i].mine /\ Unwanted(rows[i].ref)' BY <1>18 DEF Stale
  <2>2. i \notin gone /\ rows'[i] = g[i] BY <2>1, <1>11 DEF Live
  <2>3. Unwanted(rows'[i].ref) BY <2>1, <1>2 DEF Unwanted, member
  <2>4. CASE i \in Fresh(made) BY <2>3, <2>4, <1>2, <1>18
  <2>5. CASE i \notin Fresh(made)
    <3>1. g[i].ref = rows[i].ref /\ rows[i].mine BY <2>1, <2>2, <2>5, <1>4, <1>8
    <3>2. Live(i)
      <4>1. CASE i \in again BY <4>1, <1>2
      <4>2. CASE i \notin again
        <5>1. rows'[i].status = rows[i].status BY <4>2, <2>1, <2>2, <2>5, <1>4, <1>8
        <5> QED BY <5>1, <2>1 DEF Live
      <4> QED BY <4>1, <4>2
    <3>3. i \in Stale BY <3>1, <3>2, <2>1, <2>2, <2>3 DEF Stale
    <3>4. i \in strays \cup gone BY <3>3, <1>2, <1>18 DEF RowsInv, Settling, gone
    <3> QED BY <3>4, <2>2, <1>2
  <2> QED BY <2>4, <2>5
<1>19. ASSUME harms' = 0, syncs' = 0, ~drift', Explicit', NEW q \in links'
       PROVE  q \in LiveRefs' \cup removed'
  <2>1. \A r : r \in LiveRefs' <=> \E i \in Ids : Live(i)' /\ rows'[i].ref = r BY DEF LiveRefs
  <2>2. Explicit /\ q \in links BY <1>2, <1>19 DEF Explicit, member
  <2>3. q \in LiveRefs \cup removed \cup reading.missing
    BY <2>2, <1>2, <1>19 DEF RowsInv, Settling
  <2>4. CASE q \in LiveRefs
    <3>1. PICK i \in Ids : Live(i) /\ rows[i].ref = q BY <2>4, LiveFacts
    <3>2. ~Unwanted(rows[i].ref) BY <3>1, <2>2 DEF Unwanted, Explicit
    <3>3. i \notin gone BY <3>2, <1>2, <1>19 DEF RowsInv, Settling, gone
    <3>4. i \notin Fresh(made) BY <3>1, <1>9, LiveFacts
    <3>5. Live(i)' /\ rows'[i].ref = q BY <3>1, <3>3, <3>4, <1>4, <1>5, <1>8, <1>11 DEF Live
    <3> QED BY <3>5, <2>1
  <2>5. CASE q \in reading.missing /\ q \notin LiveRefs
    <3>1. q \in made BY <2>5 DEF made
    <3>2. PICK i \in Fresh(made) : g[i].ref = q BY <3>1, <1>8
    <3>3. i \in Ids /\ i \notin gone BY <3>2, <1>8, <1>13
    <3>4. Live(i)' /\ rows'[i].ref = q BY <3>2, <3>3, <1>8, <1>11 DEF Live
    <3> QED BY <3>3, <3>4, <2>1
  <2> QED BY <2>3, <2>4, <2>5, <1>2
<1>20. Settling'
  <2>1. reading'.gone = {} /\ reading'.missing = {} BY <1>2 DEF NoSync
  <2> QED BY <2>1, <1>18, <1>19 DEF Settling
<1> QED BY <1>14, <1>15, <1>16, <1>17, <1>20 DEF RowsInv
-----------------------------------------------------------------------------
LEMMA RowsInvKeeps ==
  ASSUME SyncAssumption, RowsInv, [SyncNext]_syncVars PROVE RowsInv'
<1>1. CASE Request
  BY <1>1, SettingsKeep, RemoveLinkKeeps, AddManualKeeps, RemoveRowKeeps DEF Request
<1>2. ASSUME NEW i \in Ids, Enqueue(i) \/ PlanLost(i) \/ ResolveEnds(i) \/ Expand(i) \/ Refused(i)
      PROVE  RowsInv'
  BY <1>2, QueuesKeep, ResolveEndsKeeps, ExpandKeeps, RefusedKeeps
<1>3. CASE UNCHANGED syncVars
  <2>1. UNCHANGED <<rows, on, mode, links, standing, reading, drift, syncs, planned, resolves, scans, edits, harms,
                    strays, removed>>
    BY <1>3 DEF syncVars
  <2>2. SyncTypeOK' BY <2>1 DEF RowsInv, SyncTypeOK
  <2>3. PendingHasTask' BY <2>1 DEF RowsInv, PendingHasTask
  <2>4. Settling' BY <2>1, RowsUntouched DEF RowsInv, Settling, Explicit, member, Stale, Live, Unwanted
  <2> QED BY <2>1, <2>2, <2>3, <2>4, RowsUntouched DEF RowsInv
<1> QED BY <1>1, <1>2, <1>3, ScanKeeps, SyncReadsKeeps, SyncCommitsKeeps, SyncBreaksKeeps, QueuesKeep
  DEF SyncNext

\* Between syncs the invariant is what the run checks.
LEMMA RowsHold == RowsInv => SyncTypeOK /\ PendingHasTask /\ SyncSettles
BY DEF RowsInv, ReadingOK, Settling, SyncSettles, Awake, NoSync

\* modules/commenting/worker/channels.py: for any links, folders, edits and tasks under way and as
\* long as nothing is lost, a pending row has its resolve task, and once no sync is left to run
\* and the account's status has not changed since one read it, the account has a row for each of
\* its links and, but for the strays, none it does not want.
THEOREM RowsFollowSettings ==
  ASSUME SyncAssumption PROVE SyncSpec => [](SyncTypeOK /\ PendingHasTask /\ SyncSettles)
<1>1. SyncInit => RowsInv BY SyncStart
<1>2. RowsInv /\ [SyncNext]_syncVars => RowsInv' BY RowsInvKeeps
<1>3. RowsInv => SyncTypeOK /\ PendingHasTask /\ SyncSettles BY RowsHold
<1> QED BY <1>1, <1>2, <1>3, PTL DEF SyncSpec

-----------------------------------------------------------------------------
(*************** ChannelListeners ***************)

\* The row asks for a handler.
Works(c) == status[c] = "working" /\ ~RowHeld(c)

\* A delete of the working row is to commit, and its detach is published: then no attach comes
\* after the last detach.
HeldBack(c) == RowHeld(c) /\ status[c] = "working"
Undone(c) == \A n \in DOMAIN events : events[n] = <<"attach", c>> =>
                \E m \in DOMAIN events : m > n /\ events[m] = <<"detach", c>>

\* A handler and its row agree, or an event that makes them agree is on its way.
Agrees(c) ==
    /\ Works(c) => telling = c \/ AttachLast(c) \/ (HasHandler(c) /\ ~Queued("detach", c))
    /\ ~Works(c) /\ HasHandler(c) =>
          Queued("detach", c) \/ c \in rejoining \/ removing[c] = "untold"
    /\ HeldBack(c) => Undone(c)

\* Only a worker that is subscribed has events and attaches; one that starts has no comment
\* waiting to be detached.  The resolve that tells of a row is one of its tasks, and a row whose
\* detach is still to be published is gone.
ListenersShape ==
    /\ ListenersTypeOK
    /\ phase # "up" => events = <<>> /\ attaching = NoChannel
    /\ phase \in {"down", "loaded"} => rejoining = {}
    /\ telling \in Channels => tries[telling] > 0
    /\ \A c \in Channels : /\ removing[c] # "no" => status[c] # "new"
                           /\ removing[c] = "untold" => status[c] = "gone"

\* From load_all on, rows and handlers agree.
ListenersInv ==
    /\ ListenersShape
    /\ phase \in {"up", "loaded"} => \A c \in Channels \ astray : Agrees(c)
-----------------------------------------------------------------------------
\* What publishing and taking an event does to the events there are.

LEMMA PublishFacts ==
  ASSUME ListenersTypeOK, NEW a \in {"attach", "detach"}, NEW c \in Channels,
         events' = Append(events, <<a, c>>)
  PROVE  /\ events' \in Seq({"attach", "detach"} \X Channels)
         /\ \A b, d : Queued(b, d) => Queued(b, d)'
         /\ Queued(a, c)'
         /\ a = "attach" => AttachLast(c)'
         /\ a = "detach" => Undone(c)'
         /\ \A d : d # c => /\ AttachLast(d) => AttachLast(d)'
                            /\ Undone(d) => Undone(d)'
                            /\ \A b : Queued(b, d)' => Queued(b, d)
<1>1. events \in Seq({"attach", "detach"} \X Channels) BY DEF ListenersTypeOK
<1>2. /\ events' \in Seq({"attach", "detach"} \X Channels)
      /\ DOMAIN events = 1..Len(events) /\ DOMAIN events' = 1..(Len(events) + 1)
      /\ Len(events) \in Nat
      /\ \A n \in 1..Len(events) : events'[n] = events[n]
      /\ events'[Len(events) + 1] = <<a, c>>
  BY <1>1
<1>3. \A b, d : Queued(b, d) => Queued(b, d)' BY <1>2 DEF Queued
<1>4. Queued(a, c)' BY <1>2 DEF Queued
<1>5. a = "attach" => AttachLast(c)' BY <1>2 DEF AttachLast
<1>6. ASSUME NEW d, d # c, AttachLast(d) PROVE AttachLast(d)'
  <2>1. PICK n \in DOMAIN events :
            events[n] = <<"attach", d>> /\ \A m \in DOMAIN events : m > n => events[m][2] # d
    BY <1>6 DEF AttachLast
  <2>2. n \in DOMAIN events' /\ events'[n] = <<"attach", d>> BY <2>1, <1>2
  <2>3. ASSUME NEW m \in DOMAIN events', m > n PROVE events'[m][2] # d
    <3>1. CASE m = Len(events) + 1 BY <3>1, <1>2, <1>6
    <3>2. CASE m # Len(events) + 1
      <4>1. m \in DOMAIN events BY <3>2, <1>2
      <4> QED BY <4>1, <2>1, <2>3, <1>2
    <3> QED BY <3>1, <3>2
  <2> QED BY <2>2, <2>3 DEF AttachLast
<1>7. ASSUME NEW d, d # c, NEW b, Queued(b, d)' PROVE Queued(b, d)
  <2>1. PICK n \in DOMAIN events' : events'[n] = <<b, d>> BY <1>7 DEF Queued
  <2>2. n # Len(events) + 1 BY <2>1, <1>2, <1>7
  <2>3. n \in DOMAIN events /\ events[n] = <<b, d>> BY <2>1, <2>2, <1>2
  <2> QED BY <2>3 DEF Queued
<1>8. ASSUME a = "detach" PROVE Undone(c)'
  <2>1. Len(events) + 1 \in DOMAIN events' /\ events'[Len(events) + 1] = <<"detach", c>>
    BY <1>2, <1>8
  <2>2. \A n \in DOMAIN events' : events'[n] = <<"attach", c>> => n < Len(events) + 1
    BY <1>2, <2>1
  <2> QED BY <2>1, <2>2 DEF Undone
<1>9. ASSUME NEW d, d # c, Undone(d) PROVE Undone(d)'
  <2> SUFFICES ASSUME NEW n \in DOMAIN events', events'[n] = <<"attach", d>>
               PROVE  \E m \in DOMAIN events' : m > n /\ events'[m] = <<"detach", d>>
    BY DEF Undone
  <2>1. n # Len(events) + 1 BY <1>2, <1>9
  <2>2. n \in DOMAIN events /\ events[n] = <<"attach", d>> BY <1>2, <2>1
  <2>3. PICK m \in DOMAIN events : m > n /\ events[m] = <<"detach", d>> BY <2>2, <1>9 DEF Undone
  <2>4. m \in DOMAIN events' /\ events'[m] = <<"detach", d>> BY <2>3, <1>2
  <2> QED BY <2>3, <2>4
<1> QED BY <1>2, <1>3, <1>4, <1>5, <1>6, <1>7, <1>8, <1>9

LEMMA TakeFacts ==
  ASSUME ListenersTypeOK, events # <<>>, Took
  PROVE  /\ events' \in Seq({"attach", "detach"} \X Channels)
         /\ \A d : Undone(d) => Undone(d)'
         /\ \E a \in {"attach", "detach"}, c \in Channels :
              /\ Head(events) = <<a, c>>
              /\ Queued(a, c)
              /\ a = "attach" /\ Undone(c) => Queued("detach", c)
              /\ \A b, d : Queued(b, d)' => Queued(b, d)
              /\ \A b, d : Queued(b, d) /\ <<b, d>> # <<a, c>> => Queued(b, d)'
              /\ \A d : AttachLast(d) /\ <<a, d>> # <<"attach", c>> => AttachLast(d)'
              /\ a = "attach" /\ AttachLast(c) => AttachLast(c)' \/ \A b : ~Queued(b, c)'
<1>1. events \in Seq({"attach", "detach"} \X Channels) BY DEF ListenersTypeOK
<1>2. /\ events' \in Seq({"attach", "detach"} \X Channels)
      /\ Len(events) \in Nat \ {0}
      /\ DOMAIN events = 1..Len(events) /\ DOMAIN events' = 1..(Len(events) - 1)
      /\ \A n \in 1..(Len(events) - 1) : events'[n] = events[n + 1]
      /\ Head(events) = events[1]
  BY <1>1 DEF Took
<1>3. 1 \in DOMAIN events BY <1>2
<1>4. events[1] \in {"attach", "detach"} \X Channels BY <1>1, <1>3
<1>5. PICK a \in {"attach", "detach"}, c \in Channels : events[1] = <<a, c>> BY <1>4
<1>6. Queued(a, c) BY <1>3, <1>5 DEF Queued
<1>7. ASSUME NEW b, NEW d, Queued(b, d)' PROVE Queued(b, d)
  <2>1. PICK n \in DOMAIN events' : events'[n] = <<b, d>> BY <1>7 DEF Queued
  <2>2. n + 1 \in DOMAIN events /\ events[n + 1] = <<b, d>> BY <2>1, <1>2
  <2> QED BY <2>2 DEF Queued
<1>8. ASSUME NEW b, NEW d, Queued(b, d), <<b, d>> # <<a, c>> PROVE Queued(b, d)'
  <2>1. PICK n \in DOMAIN events : events[n] = <<b, d>> BY <1>8 DEF Queued
  <2>2. n # 1 BY <2>1, <1>5, <1>8
  <2>3. n - 1 \in DOMAIN events' /\ events'[n - 1] = <<b, d>>
    <3>1. n - 1 \in 1..(Len(events) - 1) /\ (n - 1) + 1 = n BY <2>1, <2>2, <1>2
    <3> QED BY <3>1, <2>1, <1>2
  <2> QED BY <2>3 DEF Queued
<1>9. ASSUME NEW d, AttachLast(d),
             NEW n \in DOMAIN events, events[n] = <<"attach", d>>, n # 1,
             \A m \in DOMAIN events : m > n => events[m][2] # d
      PROVE  AttachLast(d)'
  <2>1. n - 1 \in DOMAIN events' /\ (n - 1) + 1 = n BY <1>9, <1>2
  <2>2. events'[n - 1] = <<"attach", d>> BY <2>1, <1>9, <1>2
  <2>3. ASSUME NEW m \in DOMAIN events', m > n - 1 PROVE events'[m][2] # d
    <3>1. m + 1 \in DOMAIN events /\ m + 1 > n /\ events'[m] = events[m + 1] BY <2>3, <1>2, <1>9
    <3> QED BY <3>1, <1>9
  <2> QED BY <2>1, <2>2, <2>3 DEF AttachLast
<1>10. ASSUME NEW d, AttachLast(d), <<a, d>> # <<"attach", c>> PROVE AttachLast(d)'
  <2>1. PICK n \in DOMAIN events :
            events[n] = <<"attach", d>> /\ \A m \in DOMAIN events : m > n => events[m][2] # d
    BY <1>10 DEF AttachLast
  <2>2. n # 1 BY <2>1, <1>5, <1>10
  <2> QED BY <2>1, <2>2, <1>9, <1>10
<1>11. ASSUME a = "attach", AttachLast(c) PROVE AttachLast(c)' \/ \A b : ~Queued(b, c)'
  <2>1. PICK n \in DOMAIN events :
            events[n] = <<"attach", c>> /\ \A m \in DOMAIN events : m > n => events[m][2] # c
    BY <1>11 DEF AttachLast
  <2>2. CASE n # 1 BY <2>1, <2>2, <1>9, <1>11
  <2>3. CASE n = 1
    <3>1. ASSUME NEW b, Queued(b, c)' PROVE FALSE
      <4>1. PICK m \in DOMAIN events' : events'[m] = <<b, c>> BY <3>1 DEF Queued
      <4>2. m + 1 \in DOMAIN events /\ m + 1 > n /\ events[m + 1] = <<b, c>>
        BY <4>1, <2>3, <1>2
      <4> QED BY <4>2, <2>1
    <3> QED BY <3>1
  <2> QED BY <2>2, <2>3
<1>12. ASSUME NEW d, Undone(d) PROVE Undone(d)'
  <2> SUFFICES ASSUME NEW n \in DOMAIN events', events'[n] = <<"attach", d>>
               PROVE  \E m \in DOMAIN events' : m > n /\ events'[m] = <<"detach", d>>
    BY DEF Undone
  <2>1. n + 1 \in DOMAIN events /\ events[n + 1] = <<"attach", d>> BY <1>2
  <2>2. PICK m \in DOMAIN events : m > n + 1 /\ events[m] = <<"detach", d>>
    BY <2>1, <1>12 DEF Undone
  <2>3. m - 1 \in DOMAIN events' /\ m - 1 > n /\ (m - 1) + 1 = m BY <2>2, <1>2
  <2>4. events'[m - 1] = <<"detach", d>> BY <2>2, <2>3, <1>2
  <2> QED BY <2>3, <2>4
<1>13. a = "attach" /\ Undone(c) => Queued("detach", c) BY <1>3, <1>5 DEF Undone, Queued
<1> QED BY <1>2, <1>5, <1>6, <1>7, <1>8, <1>10, <1>11, <1>12, <1>13
-----------------------------------------------------------------------------
\* A row that asks for a handler as before agrees with its handler as before.
LEMMA AgreesStays ==
  ASSUME NEW c \in Channels, Agrees(c),
         Works(c) <=> Works(c)',
         HasHandler(c) <=> HasHandler(c)',
         telling = c => telling' = c,
         AttachLast(c) => AttachLast(c)',
         Queued("detach", c) <=> Queued("detach", c)',
         c \in rejoining => c \in rejoining',
         removing[c] = "untold" => removing'[c] = "untold",
         HeldBack(c)' => HeldBack(c), Undone(c) => Undone(c)'
  PROVE  Agrees(c)'
BY DEF Agrees

LEMMA SameQueue ==
  ASSUME events' = events
  PROVE  /\ \A d : AttachLast(d)' <=> AttachLast(d)
         /\ \A b, d : Queued(b, d)' <=> Queued(b, d)
         /\ \A d : Undone(d)' <=> Undone(d)
BY DEF AttachLast, Queued, Undone

LEMMA SameHandlers ==
  ASSUME heard' = heard, attaching' = attaching
  PROVE  \A d : HasHandler(d)' <=> HasHandler(d)
BY DEF HasHandler

LEMMA ListenersStart == ListenersAssumption /\ ListenersInit => ListenersInv
BY DEF ListenersAssumption, ListenersInit, ListenersInv, ListenersShape, ListenersTypeOK, Agrees,
       Works, HeldBack, RowHeld, HasHandler
-----------------------------------------------------------------------------
(* Steps of a row *)

\* What every step of a row has in common: it leaves the handlers and the other rows alone and
\* publishes an event of its row or none.
RowOnly(c) ==
    /\ UNCHANGED <<heard, attaching, phase, eligible>>
    /\ \/ events' = events
       \/ phase = "up" /\ \E a \in {"attach", "detach"} : events' = Append(events, <<a, c>>)
    /\ astray' = astray \/ astray' = astray \cup {c}
    /\ \E st \in {"pending", "working", "failed", "gone"} :
          status' = status \/ status' = [status EXCEPT ![c] = st]
    /\ \E r \in {"no", "idle", "working", "untold", "locked"} :
          removing' = removing \/ removing' = [removing EXCEPT ![c] = r]
    /\ rejoining' = rejoining \/ rejoining' = rejoining \ {c}
          \/ (rejoining' = rejoining \cup {c} /\ phase \in {"up", "deaf"})
    /\ refused' = refused \/ refused' = refused \ {c} \/ refused' = refused \cup {c}
    /\ telling' = telling \/ (telling = NoChannel /\ telling' = c)
          \/ (telling = c /\ telling' = NoChannel)
    /\ changes' = changes \/ changes' = changes + 1
    /\ incidents' = incidents \/ incidents' = incidents + 1

LEMMA RowFrame ==
  ASSUME ListenersShape, NEW c \in Channels, RowStep(c) PROVE RowOnly(c)
<1>1. CASE AddChannel(c) \/ RetryFailed(c) \/ DropRow(c)
  BY <1>1 DEF AddChannel, RetryFailed, DropRow, RowOnly, Change, Silent, Publish, ofResolve
<1>2. CASE ReadRow(c) \/ CommitsFirst(c) \/ PublishesDetach(c)
  BY <1>2 DEF ReadRow, CommitsFirst, PublishesDetach, RowOnly, Change, Silent, Publish,
              ofResolve, MarkedAs, Named
<1>3. CASE PublishesFirst(c) \/ CommitsDelete(c) \/ RemovalFails(c)
  BY <1>3 DEF PublishesFirst, CommitsDelete, RemovalFails, RowOnly, Incident, Silent, Publish,
              ofResolve, MarkedAs, Named
<1>4. CASE ResolveWorks(c) \/ ResolveFails(c) \/ BackfillRefused(c) \/ PlanComment(c)
  BY <1>4 DEF ResolveWorks, ResolveFails, BackfillRefused, PlanComment, RowOnly, Change,
              Silent, ofResolve, MarkedAs, Running
<1>5. CASE PublishesAttach(c)
  BY <1>5 DEF PublishesAttach, RowOnly, Incident
<1>6. CASE AccessLost(c) \/ Rejoin(c) \/ RejoinDetach(c)
  BY <1>6 DEF AccessLost, Rejoin, RejoinDetach, RowOnly, Publish, Silent, ofResolve, MarkedAs,
              Running
<1> QED BY <1>1, <1>2, <1>3, <1>4, <1>5, <1>6 DEF RowStep

\* The tasks of a row that is told about are counted until the attach is published, and a row
\* that waits for its detach is gone for good.
LEMMA RowCounts ==
  ASSUME ListenersAssumption, ListenersShape, NEW c \in Channels, RowStep(c)
  PROVE  /\ tries' \in [Channels -> Nat]
         /\ telling' \in Channels => tries'[telling'] > 0
         /\ planning' \in [Channels -> BOOLEAN]
<1>1. /\ tries \in [Channels -> Nat] /\ telling \in Channels \cup {NoChannel}
      /\ telling \in Channels => tries[telling] > 0
      /\ NoChannel \notin Channels
  BY DEF ListenersShape, ListenersTypeOK, ListenersAssumption
<1>2. planning' \in [Channels -> BOOLEAN]
  <2>1. \/ planning' = planning
        \/ planning' = [planning EXCEPT ![c] = TRUE]
        \/ planning' = [planning EXCEPT ![c] = FALSE]
    BY DEF RowStep, AddChannel, RetryFailed, DropRow, ReadRow, CommitsFirst, PublishesDetach,
         PublishesFirst, CommitsDelete, RemovalFails, BackfillRefused, PlanComment, AccessLost,
         Rejoin, RejoinDetach, ResolveWorks, ResolveFails, PublishesAttach
  <2>2. planning \in [Channels -> BOOLEAN] BY DEF ListenersShape, ListenersTypeOK
  <2> QED BY <2>1, <2>2, Zenon
<1>3. CASE PublishesAttach(c)
  <2>1. /\ telling = c /\ telling' = NoChannel
        /\ tries' = [tries EXCEPT ![c] = @ - 1]
    BY <1>3 DEF PublishesAttach
  <2>2. tries[c] - 1 \in Nat BY <2>1, <1>1
  <2> QED BY <2>1, <2>2, <1>1, <1>2
<1>4. CASE ResolveWorks(c)
  <2>1. telling' = c /\ tries' = tries /\ tries[c] > 0 BY <1>4 DEF ResolveWorks
  <2> QED BY <2>1, <1>1, <1>2
<1>5. CASE ResolveFails(c)
  <2>1. /\ telling = NoChannel /\ telling' = telling
        /\ tries[c] > 0 /\ tries' = [tries EXCEPT ![c] = @ - 1]
    BY <1>5 DEF ResolveFails, Running, ofResolve
  <2>2. tries[c] - 1 \in Nat BY <2>1, <1>1
  <2> QED BY <2>1, <2>2, <1>1, <1>2
<1>6. CASE ~PublishesAttach(c) /\ ~ResolveWorks(c) /\ ~ResolveFails(c)
  <2>1. /\ tries' = tries \/ tries' = [tries EXCEPT ![c] = @ + 1]
        /\ telling' = telling
    BY <1>6 DEF RowStep, AddChannel, RetryFailed, DropRow, ReadRow, CommitsFirst, PublishesDetach,
         PublishesFirst, CommitsDelete, RemovalFails, BackfillRefused, PlanComment, AccessLost,
         Rejoin, RejoinDetach, ofResolve
  <2>2. tries' \in [Channels -> Nat] /\ \A d \in Channels : tries'[d] >= tries[d]
    BY <2>1, <1>1
  <2> QED BY <2>1, <2>2, <1>1, <1>2
<1> QED BY <1>3, <1>4, <1>5, <1>6

LEMMA RowRemoval ==
  ASSUME ListenersShape, NEW c \in Channels, RowStep(c)
  PROVE  /\ removing'[c] # "no" => status'[c] # "new"
         /\ removing'[c] = "untold" => status'[c] = "gone"
<1>1. /\ status \in [Channels -> {"new", "pending", "working", "failed", "gone"}]
      /\ removing \in [Channels -> {"no", "idle", "working", "untold", "locked"}]
      /\ removing[c] # "no" => status[c] # "new"
      /\ removing[c] = "untold" => status[c] = "gone"
  <2>1. ListenersTypeOK BY DEF ListenersShape
  <2>2. /\ removing[c] # "no" => status[c] # "new"
        /\ removing[c] = "untold" => status[c] = "gone"
    BY DEF ListenersShape
  <2> QED BY <2>1, <2>2 DEF ListenersTypeOK
<1>2. CASE AddChannel(c) \/ RetryFailed(c) \/ DropRow(c)
  BY <1>1, <1>2 DEF AddChannel, RetryFailed, DropRow, Exists
<1>3. CASE ReadRow(c) \/ CommitsFirst(c) \/ PublishesDetach(c)
  BY <1>1, <1>3 DEF ReadRow, CommitsFirst, PublishesDetach, MarkedAs, Exists
<1>4. CASE PublishesFirst(c) \/ CommitsDelete(c) \/ RemovalFails(c)
  BY <1>1, <1>4 DEF PublishesFirst, CommitsDelete, RemovalFails, MarkedAs, Exists
<1>5. CASE \/ ResolveWorks(c) \/ ResolveFails(c) \/ BackfillRefused(c) \/ PlanComment(c)
           \/ PublishesAttach(c)
  BY <1>1, <1>5 DEF ResolveWorks, ResolveFails, BackfillRefused, PlanComment, PublishesAttach,
       MarkedAs, Exists
<1>6. CASE AccessLost(c) \/ Rejoin(c) \/ RejoinDetach(c)
  BY <1>1, <1>6 DEF AccessLost, Rejoin, RejoinDetach, MarkedAs, Exists
<1> QED BY <1>2, <1>3, <1>4, <1>5, <1>6 DEF RowStep

\* What happens to the events of a row's own and of the other rows.
LEMMA RowEvents ==
  ASSUME ListenersShape, NEW c \in Channels, RowOnly(c)
  PROVE  /\ events' \in Seq({"attach", "detach"} \X Channels)
         /\ phase # "up" => events' = <<>>
         /\ \A b : Queued(b, c) => Queued(b, c)'
         /\ \A d : d # c => /\ AttachLast(d) => AttachLast(d)'
                            /\ Undone(d) => Undone(d)'
                            /\ \A b : Queued(b, d)' <=> Queued(b, d)
<1>1. ListenersTypeOK /\ (phase # "up" => events = <<>>) BY DEF ListenersShape
<1>2. CASE events' = events BY <1>1, <1>2, SameQueue DEF ListenersTypeOK
<1>3. CASE phase = "up" /\ \E a \in {"attach", "detach"} : events' = Append(events, <<a, c>>)
  BY <1>1, <1>3, PublishFacts
<1> QED BY <1>2, <1>3 DEF RowOnly

\* The other rows keep what they have, and every part its type.
RowRest(c) ==
    /\ status' \in [Channels -> {"new", "pending", "working", "failed", "gone"}]
    /\ removing' \in [Channels -> {"no", "idle", "working", "untold", "locked"}]
    /\ rejoining' \cup refused' \cup heard' \cup astray' \subseteq Channels
    /\ telling' \in Channels \cup {NoChannel} /\ attaching' \in Channels \cup {NoChannel}
    /\ eligible' \in BOOLEAN /\ phase' \in {"up", "down", "loaded", "deaf"}
    /\ changes' \in Nat /\ incidents' \in Nat
    /\ \A d \in Channels \ {c} : /\ status'[d] = status[d] /\ removing'[d] = removing[d]
                                 /\ telling = d => telling' = d
                                 /\ d \in rejoining => d \in rejoining'

LEMMA RowElse ==
  ASSUME ListenersAssumption, ListenersTypeOK, NEW c \in Channels, RowOnly(c) PROVE RowRest(c)
<1>1. /\ status' \in [Channels -> {"new", "pending", "working", "failed", "gone"}]
      /\ \A d \in Channels \ {c} : status'[d] = status[d]
  <2>1. PICK st \in {"pending", "working", "failed", "gone"} :
            status' = status \/ status' = [status EXCEPT ![c] = st]
    BY DEF RowOnly
  <2>2. status \in [Channels -> {"new", "pending", "working", "failed", "gone"}]
    BY DEF ListenersTypeOK
  <2> QED BY <2>1, <2>2
<1>2. /\ removing' \in [Channels -> {"no", "idle", "working", "untold", "locked"}]
      /\ \A d \in Channels \ {c} : removing'[d] = removing[d]
  <2>1. PICK r \in {"no", "idle", "working", "untold", "locked"} :
            removing' = removing \/ removing' = [removing EXCEPT ![c] = r]
    BY DEF RowOnly
  <2>2. removing \in [Channels -> {"no", "idle", "working", "untold", "locked"}]
    BY DEF ListenersTypeOK
  <2> QED BY <2>1, <2>2
<1>3. /\ rejoining' \cup refused' \cup heard' \cup astray' \subseteq Channels
      /\ \A d \in Channels \ {c} : d \in rejoining => d \in rejoining'
  BY DEF RowOnly, ListenersTypeOK
<1>4. /\ telling' \in Channels \cup {NoChannel} /\ attaching' \in Channels \cup {NoChannel}
      /\ \A d \in Channels \ {c} : telling = d => telling' = d
  <2>1. telling \in Channels \cup {NoChannel} /\ attaching \in Channels \cup {NoChannel}
    BY DEF ListenersTypeOK
  <2>2. /\ attaching' = attaching
        /\ \/ telling' = telling
           \/ telling = NoChannel /\ telling' = c
           \/ telling = c /\ telling' = NoChannel
    BY DEF RowOnly
  <2> QED BY <2>1, <2>2 DEF ListenersAssumption
<1>5. /\ eligible' \in BOOLEAN /\ phase' \in {"up", "down", "loaded", "deaf"}
      /\ changes' \in Nat /\ incidents' \in Nat
  BY DEF RowOnly, ListenersTypeOK
<1> QED BY <1>1, <1>2, <1>3, <1>4, <1>5 DEF RowRest

LEMMA RowShape ==
  ASSUME ListenersAssumption, ListenersShape, NEW c \in Channels, RowStep(c)
  PROVE  ListenersShape'
<1>1. RowOnly(c) BY RowFrame
<1>2. /\ events' \in Seq({"attach", "detach"} \X Channels)
      /\ phase # "up" => events' = <<>>
  BY <1>1, RowEvents
<1>3. /\ tries' \in [Channels -> Nat]
      /\ telling' \in Channels => tries'[telling'] > 0
      /\ planning' \in [Channels -> BOOLEAN]
  BY RowCounts
<1>4. RowRest(c) BY <1>1, RowElse DEF ListenersShape
<1>5. ListenersTypeOK' BY <1>2, <1>3, <1>4 DEF RowRest, ListenersTypeOK
<1>6. \A d \in Channels : /\ removing'[d] # "no" => status'[d] # "new"
                          /\ removing'[d] = "untold" => status'[d] = "gone"
  <2> SUFFICES ASSUME NEW d \in Channels
               PROVE  /\ removing'[d] # "no" => status'[d] # "new"
                      /\ removing'[d] = "untold" => status'[d] = "gone"
    OBVIOUS
  <2>1. CASE d = c BY <2>1, RowRemoval
  <2>2. CASE d # c BY <2>2, <1>4 DEF RowRest, ListenersShape
  <2> QED BY <2>1, <2>2
<1>7. /\ phase' # "up" => events' = <<>> /\ attaching' = NoChannel
      /\ phase' \in {"down", "loaded"} => rejoining' = {}
  BY <1>1, <1>2 DEF RowOnly, ListenersShape
<1> QED BY <1>3, <1>5, <1>6, <1>7 DEF ListenersShape

\* So what is left to show of a step of a row is that the row itself agrees with its handler.
LEMMA RowStepKeeps ==
  ASSUME ListenersAssumption, ListenersInv, NEW c \in Channels, RowStep(c),
         phase \in {"up", "loaded"} /\ c \notin astray' => Agrees(c)'
  PROVE  ListenersInv'
<1>1. ListenersShape' BY RowShape DEF ListenersInv
<1>2. RowOnly(c) /\ ListenersTypeOK BY RowFrame DEF ListenersInv, ListenersShape
<1>3. RowRest(c) BY <1>2, RowElse
<1>4. ASSUME phase \in {"up", "loaded"}, NEW d \in Channels \ astray', d # c PROVE Agrees(d)'
  <2>1. Agrees(d) BY <1>2, <1>4 DEF ListenersInv, RowOnly
  <2>2. HasHandler(d) <=> HasHandler(d)' BY <1>2, SameHandlers DEF RowOnly
  <2>3. /\ Works(d) <=> Works(d)'
        /\ removing'[d] = removing[d]
        /\ telling = d => telling' = d
        /\ d \in rejoining => d \in rejoining'
        /\ HeldBack(d)' => HeldBack(d)
    BY <1>3, <1>4 DEF RowRest, Works, HeldBack, RowHeld
  <2>4. /\ AttachLast(d) => AttachLast(d)'
        /\ Undone(d) => Undone(d)'
        /\ Queued("detach", d) <=> Queued("detach", d)'
    BY <1>2, <1>4, RowEvents DEF ListenersInv
  <2> QED BY <2>1, <2>2, <2>3, <2>4, AgreesStays
<1>5. phase' = phase BY <1>2 DEF RowOnly
<1> QED BY <1>1, <1>4, <1>5 DEF ListenersInv

\* A row agrees as before when it asks for a handler as before and nothing is published.
LEMMA SilentStep ==
  ASSUME ListenersInv, NEW c \in Channels, RowStep(c), c \notin astray',
         phase \in {"up", "loaded"},
         events' = events, rejoining' = rejoining,
         Works(c) <=> Works(c)', telling = c => telling' = c,
         removing[c] = "untold" => removing'[c] = "untold",
         HeldBack(c)' => HeldBack(c)
  PROVE  Agrees(c)'
<1>1. RowOnly(c) BY RowFrame DEF ListenersInv
<1>2. Agrees(c) BY <1>1 DEF RowOnly, ListenersInv
<1>3. HasHandler(c) <=> HasHandler(c)' BY <1>1, SameHandlers DEF RowOnly
<1> QED BY <1>2, <1>3, SameQueue, AgreesStays

\* A row that asks for no handler agrees once its detach is published.
LEMMA DetachStep ==
  ASSUME ListenersInv, NEW c \in Channels, Publish("detach", c), c \notin astray', ~Works(c)'
  PROVE  Agrees(c)'
<1>1. phase = "up" /\ events' = Append(events, <<"detach", c>>) BY DEF Publish
<1>2. Queued("detach", c)' /\ Undone(c)' BY <1>1, PublishFacts DEF ListenersInv, ListenersShape
<1> QED BY <1>2 DEF Agrees

LEMMA RowAgrees ==
  ASSUME ListenersAssumption, ListenersInv, NEW c \in Channels, RowStep(c),
         phase \in {"up", "loaded"}, c \notin astray'
  PROVE  Agrees(c)'
<1>1. ListenersShape /\ ListenersTypeOK /\ ListenersShape' /\ RowOnly(c)
  BY RowShape, RowFrame DEF ListenersInv, ListenersShape
<1>2. /\ status \in [Channels -> {"new", "pending", "working", "failed", "gone"}]
      /\ removing \in [Channels -> {"no", "idle", "working", "untold", "locked"}]
      /\ Agrees(c)
      /\ HasHandler(c)' <=> HasHandler(c)
      /\ \A b : Queued(b, c) => Queued(b, c)'
  BY <1>1, RowEvents, SameHandlers DEF ListenersTypeOK, ListenersInv, RowOnly
<1>3. CASE AddChannel(c) \/ RetryFailed(c)
  BY <1>2, <1>3, SilentStep DEF AddChannel, RetryFailed, Silent, Works, HeldBack, RowHeld, ofResolve
<1>4. CASE PlanComment(c)
  BY <1>2, <1>4, SilentStep DEF PlanComment, Silent, Works, HeldBack, RowHeld, ofResolve
<1>5. CASE DropRow(c)
  <2>1. ~Works(c)' BY <1>2, <1>5 DEF DropRow, Works
  <2>2. CASE status[c] = "working" BY <1>5, <2>1, <2>2, DetachStep DEF DropRow
  <2>3. CASE status[c] # "working"
    BY <1>5, <2>1, <2>3, SilentStep DEF DropRow, Silent, Works, HeldBack, RowHeld, ofResolve
  <2> QED BY <2>2, <2>3
<1>6. CASE ReadRow(c)
  BY <1>2, <1>6, SilentStep DEF ReadRow, Silent, Works, HeldBack, RowHeld, ofResolve
<1>7. CASE CommitsFirst(c)
  <2>1. ~Works(c)' /\ ~HeldBack(c)'
    BY <1>2, <1>7 DEF CommitsFirst, Works, HeldBack, MarkedAs, Exists
  <2>2. CASE removing[c] = "working" BY <1>2, <1>7, <2>1, <2>2 DEF CommitsFirst, Agrees
  <2>3. CASE removing[c] = "idle"
    <3>1. ~Works(c) BY <1>7, <2>3 DEF CommitsFirst, Named, Overtaken, Works
    <3> QED BY <1>7, <2>1, <2>3, <3>1, SilentStep DEF CommitsFirst, ofResolve
  <2> QED BY <1>7, <2>2, <2>3 DEF CommitsFirst
<1>8. CASE PublishesDetach(c)
  <2>1. status[c] # "working" BY <1>1, <1>8 DEF PublishesDetach, ListenersShape
  <2>2. ~Works(c)' BY <1>8, <2>1 DEF PublishesDetach, Works
  <2> QED BY <1>8, <2>2, DetachStep DEF PublishesDetach
<1>9. CASE PublishesFirst(c)
  <2>1. ~Works(c)' BY <1>2, <1>9 DEF PublishesFirst, Works, RowHeld
  <2>2. CASE removing[c] = "working" BY <1>9, <2>1, <2>2, DetachStep DEF PublishesFirst
  <2>3. CASE removing[c] = "idle"
    <3>1. ~Works(c) /\ ~HeldBack(c)'
      BY <1>9, <2>3 DEF PublishesFirst, Named, Overtaken, Works, HeldBack
    <3> QED BY <1>9, <2>1, <2>3, <3>1, SilentStep DEF PublishesFirst, ofResolve
  <2> QED BY <1>9, <2>2, <2>3 DEF PublishesFirst
<1>10. CASE CommitsDelete(c)
  <2>1. ~Works(c) /\ ~Works(c)' /\ ~HeldBack(c)'
    BY <1>2, <1>10 DEF CommitsDelete, Works, HeldBack, RowHeld, MarkedAs, Exists
  <2> QED BY <1>10, <2>1, SilentStep DEF CommitsDelete, RowHeld, Silent, ofResolve
<1>11. CASE RemovalFails(c) BY <1>11 DEF RemovalFails
<1>12. CASE ResolveWorks(c)
  <2>1. /\ telling' = c /\ events' = events /\ ~RowHeld(c) /\ UNCHANGED <<removing, rejoining>>
        /\ Works(c) => Works(c)'
        /\ ~HeldBack(c)'
    BY <1>2, <1>12 DEF ResolveWorks, Silent, Works, HeldBack, RowHeld, MarkedAs
  <2>2. ~Works(c)' => ~Works(c) BY <2>1
  <2> QED BY <1>2, <2>1, <2>2 DEF Agrees
<1>13. CASE PublishesAttach(c)
  <2>1. phase = "up" /\ events' = Append(events, <<"attach", c>>) BY <1>13 DEF PublishesAttach
  <2>2. AttachLast(c)' BY <1>1, <2>1, PublishFacts
  <2>3. (Works(c)' <=> Works(c)) /\ ~HeldBack(c)' /\ UNCHANGED <<removing, rejoining>>
    BY <1>13 DEF PublishesAttach, Works, HeldBack, RowHeld
  <2> QED BY <1>2, <2>2, <2>3 DEF Agrees
<1>14. CASE BackfillRefused(c) \/ ResolveFails(c)
  <2>1. /\ ~Works(c) /\ ~Works(c)' /\ ~HeldBack(c)'
        /\ UNCHANGED <<removing, rejoining, events, telling>>
    BY <1>2, <1>14 DEF BackfillRefused, ResolveFails, Works, HeldBack, MarkedAs, Exists, ofResolve
  <2> QED BY <2>1, SilentStep
<1>15. CASE AccessLost(c)
  <2>1. ~Works(c)' BY <1>2, <1>15 DEF AccessLost, Works, MarkedAs, Exists
  <2> QED BY <1>15, <2>1, DetachStep DEF AccessLost
<1>16. CASE Rejoin(c)
  <2>1. ~Works(c)' /\ ~HeldBack(c)' /\ c \in rejoining'
    BY <1>2, <1>16 DEF Rejoin, Works, HeldBack, MarkedAs, Exists
  <2> QED BY <2>1 DEF Agrees
<1>17. CASE RejoinDetach(c)
  <2>1. ~Works(c)' /\ Publish("detach", c) BY <1>17 DEF RejoinDetach, Works
  <2> QED BY <2>1, DetachStep
<1> QED BY <1>3, <1>4, <1>5, <1>6, <1>7, <1>8, <1>9, <1>10, <1>11, <1>12, <1>13, <1>14, <1>15,
           <1>16, <1>17 DEF RowStep
-----------------------------------------------------------------------------
(* Steps of the lifecycle task and of the worker *)

LEMMA TakeAttachKeeps == ASSUME ListenersAssumption, ListenersInv, TakeAttach PROVE ListenersInv'
<1>1. ListenersTypeOK /\ NoChannel \notin Channels
  BY DEF ListenersInv, ListenersShape, ListenersAssumption
<1>2. /\ phase = "up" /\ telling = NoChannel /\ attaching = NoChannel
      /\ events # <<>> /\ Took
      /\ Head(events)[1] = "attach"
      /\ attaching' = IF Head(events)[2] \notin heard /\ status[Head(events)[2]] = "working"
                      THEN Head(events)[2] ELSE NoChannel
      /\ UNCHANGED <<status, tries, planning, rejoining, telling, refused, removing, heard, eligible,
                     phase, changes, incidents, astray>>
  BY DEF TakeAttach, Free, ofResolve
<1>3. PICK c \in Channels :
        /\ events' \in Seq({"attach", "detach"} \X Channels)
        /\ Head(events) = <<"attach", c>>
        /\ \A b, d : Queued(b, d)' => Queued(b, d)
        /\ \A b, d : Queued(b, d) /\ <<b, d>> # <<"attach", c>> => Queued(b, d)'
        /\ \A d : AttachLast(d) /\ d # c => AttachLast(d)'
        /\ AttachLast(c) => AttachLast(c)' \/ \A b : ~Queued(b, c)'
        /\ \A d : Undone(d) => Undone(d)'
        /\ Undone(c) => Queued("detach", c)
  <2>1. /\ events' \in Seq({"attach", "detach"} \X Channels)
        /\ \A d : Undone(d) => Undone(d)'
        /\ \E a \in {"attach", "detach"}, c \in Channels :
              /\ Head(events) = <<a, c>>
              /\ Queued(a, c)
              /\ a = "attach" /\ Undone(c) => Queued("detach", c)
              /\ \A b, d : Queued(b, d)' => Queued(b, d)
              /\ \A b, d : Queued(b, d) /\ <<b, d>> # <<a, c>> => Queued(b, d)'
              /\ \A d : AttachLast(d) /\ <<a, d>> # <<"attach", c>> => AttachLast(d)'
              /\ a = "attach" /\ AttachLast(c) => AttachLast(c)' \/ \A b : ~Queued(b, c)'
    BY <1>1, <1>2, TakeFacts
  <2> QED BY <2>1, <1>2
<1>4. attaching' = IF c \notin heard /\ status[c] = "working" THEN c ELSE NoChannel
  BY <1>2, <1>3
<1>5. ListenersTypeOK' BY <1>1, <1>2, <1>3, <1>4 DEF ListenersTypeOK
<1>6. \A d \in Channels : /\ Queued("detach", d) <=> Queued("detach", d)'
                          /\ Works(d) <=> Works(d)'
                          /\ HeldBack(d) <=> HeldBack(d)'
                          /\ Undone(d) => Undone(d)'
  BY <1>2, <1>3 DEF Works, HeldBack, RowHeld
<1>7. ASSUME NEW d \in Channels \ astray' PROVE Agrees(d)'
  <2>1. Agrees(d) BY <1>2 DEF ListenersInv
  <2>2. CASE d # c
    <3>1. HasHandler(d)' <=> HasHandler(d) BY <1>1, <1>2, <1>4, <2>2 DEF HasHandler
    <3> QED BY <2>1, <2>2, <3>1, <1>2, <1>3, <1>6, AgreesStays
  <2>3. CASE d = c
    <3>1. HasHandler(c) <=> c \in heard BY <1>1, <1>2 DEF HasHandler
    <3>2. CASE Works(c)
      <4>1. HasHandler(c)' BY <1>2, <1>4, <3>2 DEF HasHandler, Works
      <4>2. AttachLast(c) \/ ~Queued("detach", c) BY <1>1, <1>2, <2>1, <2>3, <3>2 DEF Agrees
      <4>3. AttachLast(c)' \/ ~Queued("detach", c)' BY <4>2, <1>3, <1>6
      <4>4. ~HeldBack(c) BY <3>2 DEF Works, HeldBack
      <4> QED BY <4>1, <4>3, <4>4, <3>2, <2>3, <1>2, <1>6 DEF Agrees
    <3>3. CASE ~Works(c)
      <4>1. HasHandler(c)' => HasHandler(c) \/ HeldBack(c)
        BY <1>1, <1>2, <1>4, <3>1, <3>3 DEF HasHandler, Works, HeldBack
      <4>2. HeldBack(c) => Queued("detach", c) BY <1>3, <2>1, <2>3 DEF Agrees
      <4> QED BY <4>2, <4>1, <2>1, <2>3, <3>3, <1>2, <1>6 DEF Agrees
    <3> QED BY <3>2, <3>3
  <2> QED BY <2>2, <2>3
<1>8. ListenersShape' BY <1>2, <1>5 DEF ListenersInv, ListenersShape
<1> QED BY <1>2, <1>7, <1>8 DEF ListenersInv

LEMMA TakeDetachKeeps == ASSUME ListenersAssumption, ListenersInv, TakeDetach PROVE ListenersInv'
<1>1. ListenersTypeOK /\ NoChannel \notin Channels
  BY DEF ListenersInv, ListenersShape, ListenersAssumption
<1>2. /\ phase = "up" /\ telling = NoChannel /\ attaching = NoChannel
      /\ events # <<>> /\ Took
      /\ Head(events)[1] = "detach"
      /\ heard' = heard \ {Head(events)[2]}
      /\ UNCHANGED <<status, tries, planning, rejoining, telling, refused, removing, attaching, eligible,
                     phase, changes, incidents, astray>>
  BY DEF TakeDetach, Free, ofResolve
<1>3. PICK c \in Channels :
        /\ events' \in Seq({"attach", "detach"} \X Channels)
        /\ Head(events) = <<"detach", c>>
        /\ Queued("detach", c)
        /\ \A b, d : Queued(b, d)' => Queued(b, d)
        /\ \A b, d : Queued(b, d) /\ <<b, d>> # <<"detach", c>> => Queued(b, d)'
        /\ \A d : AttachLast(d) => AttachLast(d)'
        /\ \A d : Undone(d) => Undone(d)'
  <2>1. /\ events' \in Seq({"attach", "detach"} \X Channels)
        /\ \A d : Undone(d) => Undone(d)'
        /\ \E a \in {"attach", "detach"}, c \in Channels :
              /\ Head(events) = <<a, c>>
              /\ Queued(a, c)
              /\ \A b, d : Queued(b, d)' => Queued(b, d)
              /\ \A b, d : Queued(b, d) /\ <<b, d>> # <<a, c>> => Queued(b, d)'
              /\ \A d : AttachLast(d) /\ <<a, d>> # <<"attach", c>> => AttachLast(d)'
              /\ a = "attach" /\ AttachLast(c) => AttachLast(c)' \/ \A b : ~Queued(b, c)'
    BY <1>1, <1>2, TakeFacts
  <2> QED BY <2>1, <1>2
<1>4. heard' = heard \ {c} BY <1>2, <1>3
<1>5. ListenersTypeOK' BY <1>1, <1>2, <1>3, <1>4 DEF ListenersTypeOK
<1>6. \A d \in Channels : (Works(d) <=> Works(d)') /\ (HeldBack(d) <=> HeldBack(d)')
  BY <1>2 DEF Works, HeldBack, RowHeld
<1>7. ASSUME NEW d \in Channels \ astray' PROVE Agrees(d)'
  <2>1. Agrees(d) BY <1>2 DEF ListenersInv
  <2>2. CASE d # c
    <3>1. HasHandler(d)' <=> HasHandler(d) BY <1>2, <1>4, <2>2 DEF HasHandler
    <3>2. Queued("detach", d) <=> Queued("detach", d)' BY <1>3, <2>2
    <3> QED BY <2>1, <3>1, <3>2, <1>2, <1>3, <1>6, AgreesStays
  <2>3. CASE d = c
    <3>1. ~HasHandler(c)' BY <1>1, <1>2, <1>4 DEF HasHandler
    <3>2. Works(c) => telling = c \/ AttachLast(c) BY <2>1, <2>3, <1>3 DEF Agrees
    <3> QED BY <3>1, <3>2, <2>1, <2>3, <1>2, <1>3, <1>6 DEF Agrees
  <2> QED BY <2>2, <2>3
<1>8. ListenersShape' BY <1>2, <1>5 DEF ListenersInv, ListenersShape
<1> QED BY <1>2, <1>7, <1>8 DEF ListenersInv

LEMMA AttachEndsKeeps ==
  ASSUME ListenersAssumption, ListenersInv, Attached \/ AttachFails PROVE ListenersInv'
<1>1. ListenersTypeOK /\ NoChannel \notin Channels
  BY DEF ListenersInv, ListenersShape, ListenersAssumption
<1>2. /\ attaching # NoChannel /\ attaching' = NoChannel
      /\ UNCHANGED <<status, tries, planning, rejoining, telling, refused, removing, events, eligible,
                     phase, changes>>
      /\ \/ heard' = heard \cup {attaching} /\ UNCHANGED <<incidents, astray>>
         \/ /\ heard' = heard /\ astray' = astray \cup {attaching}
            /\ incidents' = incidents + 1
  BY DEF Attached, AttachFails, Incident, ofResolve
<1>3. phase = "up" /\ attaching \in Channels
  BY <1>1, <1>2 DEF ListenersInv, ListenersShape, ListenersTypeOK
<1>4. ListenersTypeOK' BY <1>1, <1>2, <1>3 DEF ListenersTypeOK
<1>5. ASSUME NEW d \in Channels \ astray' PROVE Agrees(d)'
  <2>1. Agrees(d) BY <1>2, <1>3 DEF ListenersInv
  <2>2. HasHandler(d)' <=> HasHandler(d) BY <1>1, <1>2, <1>3, <1>5 DEF HasHandler
  <2>3. (Works(d) <=> Works(d)') /\ (HeldBack(d) <=> HeldBack(d)') BY <1>2 DEF Works, HeldBack, RowHeld
  <2> QED BY <2>1, <2>2, <2>3, <1>2, SameQueue, AgreesStays
<1>6. ListenersShape' BY <1>2, <1>3, <1>4 DEF ListenersInv, ListenersShape
<1> QED BY <1>2, <1>3, <1>5, <1>6 DEF ListenersInv

LEMMA WorkerKeeps ==
  ASSUME ListenersAssumption, ListenersInv,
         WorkerDies \/ LoadAll \/ Subscribe \/ TurnsDeaf \/ SwitchEligible
  PROVE  ListenersInv'
<1>1. ListenersTypeOK /\ NoChannel \notin Channels
  BY DEF ListenersInv, ListenersShape, ListenersAssumption
<1>2. CASE WorkerDies
  <2>1. /\ phase' = "down" /\ events' = <<>> /\ attaching' = NoChannel /\ heard' = {}
        /\ rejoining' = {} /\ planning' = [c \in Channels |-> planning[c] \/ c \in rejoining]
        /\ tries' = [c \in Channels |-> IF c \in refused THEN tries[c] + 1 ELSE tries[c]]
        /\ telling' = NoChannel /\ refused' = {}
        /\ incidents' = incidents + 1
        /\ UNCHANGED <<status, removing, eligible, changes, astray>>
    BY <1>2 DEF WorkerDies, Incident
  <2>2. planning' \in [Channels -> BOOLEAN] BY <2>1, Zenon
  <2>3. events' \in Seq({"attach", "detach"} \X Channels) BY <2>1
  <2>4. tries' \in [Channels -> Nat] BY <2>1, <1>1 DEF ListenersTypeOK
  <2>5. ListenersTypeOK' BY <2>1, <2>2, <2>3, <2>4, <1>1 DEF ListenersTypeOK
  <2> QED BY <2>1, <2>5, <1>1 DEF ListenersInv, ListenersShape
<1>3. CASE LoadAll
  <2> DEFINE working == {c \in Channels : status[c] = "working"}
  <2>1. /\ phase = "down" /\ phase' = "loaded"
        /\ heard' = IF eligible THEN working ELSE {}
        /\ astray' = (working \ heard') \cup {c \in heard' : RowHeld(c)}
        /\ UNCHANGED <<status, tries, planning, rejoining, telling, refused, removing, events,
                       attaching, eligible, changes, incidents>>
    BY <1>3 DEF LoadAll, ofResolve
  <2>2. /\ events = <<>> /\ attaching = NoChannel /\ rejoining = {}
    BY <2>1 DEF ListenersInv, ListenersShape
  <2>3. heard' \subseteq working /\ astray' \subseteq Channels BY <2>1
  <2>4. ListenersTypeOK' BY <2>1, <2>3, <1>1 DEF ListenersTypeOK
  <2>5. ASSUME NEW d \in Channels \ astray' PROVE Agrees(d)'
    <3>1. ~Queued("detach", d)' BY <2>1, <2>2 DEF Queued
    <3>2. status[d] = "working" <=> d \in heard' BY <2>1, <2>3, <2>5
    <3>3. HasHandler(d)' <=> d \in heard' BY <2>1, <2>2, <1>1 DEF HasHandler
    <3>4. Works(d)' <=> d \in heard' BY <2>1, <2>5, <3>2 DEF Works, RowHeld
    <3>5. Undone(d)' BY <2>1, <2>2 DEF Undone
    <3> QED BY <3>1, <3>3, <3>4, <3>5 DEF Agrees
  <2>6. ListenersShape' BY <2>1, <2>2, <2>4 DEF ListenersInv, ListenersShape
  <2> QED BY <2>1, <2>5, <2>6 DEF ListenersInv
<1>4. CASE Subscribe \/ SwitchEligible
  <2>1. /\ phase' = phase \/ (phase = "loaded" /\ phase' = "up")
        /\ changes' = changes \/ changes' = changes + 1
        /\ eligible' = eligible \/ eligible' = ~eligible
        /\ UNCHANGED <<status, tries, planning, rejoining, telling, refused, removing, events,
                       attaching, heard, incidents, astray>>
    BY <1>4 DEF Subscribe, SwitchEligible, Change, Silent, ofResolve
  <2>2. eligible' \in BOOLEAN
    <3>1. eligible \in BOOLEAN BY <1>1 DEF ListenersTypeOK
    <3> QED BY <2>1, <3>1, Zenon
  <2>3. ListenersTypeOK' BY <2>1, <2>2, <1>1 DEF ListenersTypeOK
  <2>4. ASSUME phase' \in {"up", "loaded"}, NEW d \in Channels \ astray' PROVE Agrees(d)'
    <3>1. Agrees(d) BY <2>1, <2>4 DEF ListenersInv
    <3>2. HasHandler(d) <=> HasHandler(d)' BY <2>1, SameHandlers
    <3>3. (Works(d) <=> Works(d)') /\ (HeldBack(d) <=> HeldBack(d)') BY <2>1 DEF Works, HeldBack, RowHeld
    <3> QED BY <3>1, <3>2, <3>3, <2>1, SameQueue, AgreesStays
  <2>5. ListenersShape' BY <2>1, <2>3 DEF ListenersInv, ListenersShape
  <2> QED BY <2>4, <2>5 DEF ListenersInv
<1>5. CASE TurnsDeaf
  <2>1. /\ phase' = "deaf" /\ events' = <<>> /\ attaching' = NoChannel
        /\ astray' = astray \cup {events[n][2] : n \in DOMAIN events}
                            \cup (IF attaching = NoChannel THEN {} ELSE {attaching})
        /\ incidents' = incidents + 1
        /\ UNCHANGED <<status, tries, planning, rejoining, telling, refused, removing, heard,
                       eligible, changes>>
    BY <1>5 DEF TurnsDeaf, Incident, ofResolve
  <2>2. events' \in Seq({"attach", "detach"} \X Channels) BY <2>1
  <2>3. astray' \subseteq Channels
    <3>1. events \in Seq({"attach", "detach"} \X Channels) BY <1>1 DEF ListenersTypeOK
    <3>2. \A n \in DOMAIN events : events[n] \in {"attach", "detach"} \X Channels BY <3>1
    <3>3. \A n \in DOMAIN events : events[n][2] \in Channels BY <3>2
    <3> QED BY <3>3, <2>1, <1>1 DEF ListenersTypeOK
  <2>4. ListenersTypeOK' BY <2>1, <2>2, <2>3, <1>1 DEF ListenersTypeOK
  <2> QED BY <2>1, <2>4 DEF ListenersInv, ListenersShape
<1> QED BY <1>2, <1>3, <1>4, <1>5
-----------------------------------------------------------------------------
LEMMA ListenersKeeps ==
  ASSUME ListenersAssumption, ListenersInv, [ListenersNext]_lisVars PROVE ListenersInv'
<1>1. ASSUME NEW c \in Channels, RowStep(c) PROVE ListenersInv'
  BY <1>1, RowAgrees, RowStepKeeps
<1>2. CASE UNCHANGED lisVars
  <2>1. /\ UNCHANGED <<status, tries, planning, rejoining, telling, refused, removing, events,
                       attaching, heard, eligible, phase, changes, incidents, astray>>
    BY <1>2 DEF lisVars, ofResolve
  <2>2. ListenersShape' BY <2>1 DEF ListenersInv, ListenersShape, ListenersTypeOK
  <2>3. ASSUME phase \in {"up", "loaded"}, NEW d \in Channels \ astray PROVE Agrees(d)'
    <3>1. Agrees(d) BY <2>3 DEF ListenersInv
    <3>2. HasHandler(d) <=> HasHandler(d)' BY <2>1, SameHandlers
    <3>3. (Works(d) <=> Works(d)') /\ (HeldBack(d) <=> HeldBack(d)') BY <2>1 DEF Works, HeldBack, RowHeld
    <3> QED BY <3>1, <3>2, <3>3, <2>1, SameQueue, AgreesStays
  <2> QED BY <2>1, <2>2, <2>3 DEF ListenersInv
<1> QED BY <1>1, <1>2, TakeAttachKeeps, TakeDetachKeeps, AttachEndsKeeps, WorkerKeeps
        DEF ListenersNext, Lifecycle

LEMMA ListenersHold == ListenersInv => ListenersTypeOK /\ HandlersFollowRows
BY DEF ListenersInv, ListenersShape, HandlersFollowRows, Agrees, Works

\* modules/commenting/worker/registry.py: for any number of channels, resolves and events under
\* way, a worker that is up has, or is about to get, a handler for every working row, and has
\* none, or is about to lose it, for any other row; only the rows astray are set apart.
THEOREM HandlersAgree ==
  ASSUME ListenersAssumption PROVE ListenersSpec => [](ListenersTypeOK /\ HandlersFollowRows)
<1>1. ListenersInit => ListenersInv BY ListenersStart
<1>2. ListenersInv /\ [ListenersNext]_lisVars => ListenersInv' BY ListenersKeeps
<1>3. ListenersInv => ListenersTypeOK /\ HandlersFollowRows BY ListenersHold
<1> QED BY <1>1, <1>2, <1>3, PTL DEF ListenersSpec

-----------------------------------------------------------------------------
(*************** PostMonitor ***************)

\* What becomes of a post the cursor has passed.
Covered(n) == replies[n] > 0 \/ n <= archive \/ n \in crowded

\* What a poll knows: what is below the cursor it read is covered; what is below the one
\* it will write is covered, or waits to be enqueued, or was there before the monitoring.
PollKnows(p) ==
    /\ poll[p].at # "idle" => \A n \in PostIds : n <= poll[p].seen => Covered(n)
    /\ poll[p].at = "enqueue" =>
          /\ poll[p].last \in PostIds
          /\ poll[p].seen # -1 =>
                \A n \in PostIds : n <= poll[p].last => Covered(n) \/ n \in poll[p].todo

\* Polls one after the other: only one is under way, it read the cursor that is still there,
\* and what has its dialog is below the cursor or is what this poll has already enqueued.
OneAtATime ==
    cuts = 0 /\ ~overlap =>
        /\ \A p, q \in Polls : poll[p].at # "idle" /\ poll[q].at # "idle" => p = q
        /\ \A p \in Polls : poll[p].at # "idle" => poll[p].seen = cursor
        /\ \A p \in Polls : poll[p].at = "enqueue" =>
              /\ poll[p].last >= cursor
              /\ \A n \in poll[p].todo : cursor < n /\ n <= poll[p].last
        /\ \A n \in PostIds : replies[n] > 0 =>
              \/ n <= cursor
              \/ \E p \in Polls : /\ poll[p].at = "enqueue" /\ n <= poll[p].last
                                  /\ n \notin poll[p].todo

MonitorInv == MonTypeOK /\ EachPostOnce /\ OneAtATime /\ \A p \in Polls : PollKnows(p)
-----------------------------------------------------------------------------
\* Posts are numbers, and a set of them is finite and has a largest and a smallest element.
LEMMA Extremes ==
  ASSUME MonitorAssumption, NEW S \in SUBSET PostIds, S # {}
  PROVE  /\ Max(S) \in S /\ \A n \in S : n <= Max(S)
         /\ Min(S) \in S /\ \A n \in S : Min(S) <= n
<1> DEFINE Below == {1..n : n \in S}
           Above == {n..MaxPosts : n \in S}
<1>1. MaxPosts \in Nat /\ S \subseteq Nat /\ \A n \in S : 1 <= n /\ n <= MaxPosts
  BY DEF MonitorAssumption, PostIds
<1>2. IsWellFoundedOn(StrictSubsetOrdering(PostIds), FiniteSubsetsOf(PostIds))
  BY FS_StrictSubsetOrderingWellFounded
<1>3. IsFiniteSet(PostIds)
  BY <1>1, FS_Interval DEF PostIds
<1>4. \A n \in S : 1..n \in SUBSET PostIds /\ n..MaxPosts \in SUBSET PostIds
  BY <1>1 DEF PostIds
<1>5. Below \subseteq FiniteSubsetsOf(PostIds) /\ Above \subseteq FiniteSubsetsOf(PostIds)
  <2>1. \A D \in SUBSET PostIds : D \in FiniteSubsetsOf(PostIds)
    BY <1>3, FS_Subset DEF FiniteSubsetsOf
  <2> QED
    BY <1>4, <2>1
<1>6. Below # {} /\ Above # {}
  OBVIOUS
<1>7. PICK l \in Below : \A b \in Below : ~ (<<b, l>> \in StrictSubsetOrdering(PostIds))
  <2> HIDE DEF Below
  <2> QED
    BY <1>2, <1>5, <1>6, WFMin
<1>8. PICK h \in Above : \A b \in Above : ~ (<<b, h>> \in StrictSubsetOrdering(PostIds))
  <2> HIDE DEF Above
  <2> QED
    BY <1>2, <1>5, <1>6, WFMin
<1>9. \E x \in S : \A y \in S : x =< y
  <2>1. PICK x \in S : l = 1..x
    OBVIOUS
  <2>2. ASSUME NEW y \in S, y < x PROVE FALSE
    <3>1. 1..y \in SUBSET PostIds /\ 1..x \in SUBSET PostIds /\ 1..y \in Below
      BY <1>4
    <3>2. 1..y \subseteq 1..x /\ x \in 1..x /\ x \notin 1..y
      BY <1>1, <2>2
    <3>3. <<1..y, 1..x>> \in StrictSubsetOrdering(PostIds)
      BY ONLY <3>1, <3>2 DEF StrictSubsetOrdering
    <3> QED
      BY <1>7, <2>1, <3>1, <3>3
  <2> QED
    BY <1>1, <2>2
<1>10. \E x \in S : \A y \in S : x >= y
  <2>1. PICK x \in S : h = x..MaxPosts
    OBVIOUS
  <2>2. ASSUME NEW y \in S, y > x PROVE FALSE
    <3>1. y..MaxPosts \in SUBSET PostIds /\ x..MaxPosts \in SUBSET PostIds /\ y..MaxPosts \in Above
      BY <1>4
    <3>2. y..MaxPosts \subseteq x..MaxPosts /\ x \in x..MaxPosts /\ x \notin y..MaxPosts
      BY <1>1, <2>2
    <3>3. <<y..MaxPosts, x..MaxPosts>> \in StrictSubsetOrdering(PostIds)
      BY ONLY <3>1, <3>2 DEF StrictSubsetOrdering
    <3> QED
      BY <1>8, <2>1, <3>1, <3>3
  <2> QED
    BY <1>1, <2>2
<1>11. Max(S) \in S /\ \A y \in S : Max(S) >= y
  BY ONLY <1>10 DEF Max
<1>12. Min(S) \in S /\ \A y \in S : Min(S) =< y
  BY ONLY <1>9 DEF Min
<1> QED
  BY <1>1, <1>11, <1>12

\* The oldest of some posts: a smaller one of them is among the oldest too.
LEMMA OldestClosed ==
  ASSUME MonitorAssumption, NEW S \in SUBSET PostIds,
         NEW m \in Oldest(S), NEW n \in S, n <= m
  PROVE  n \in Oldest(S)
<1> DEFINE Below(k) == {i \in S : i < k}
<1>1. MaxPosts \in Nat /\ Batch \in Nat /\ m \in S
  BY DEF MonitorAssumption, Oldest
<1>2. IsFiniteSet(PostIds)
  BY <1>1, FS_Interval DEF PostIds
<1>3. Below(m) \in SUBSET PostIds /\ Below(n) \in SUBSET Below(m)
  <2>1. m \in Nat /\ n \in Nat /\ \A i \in S : i \in Nat
    BY <1>1 DEF PostIds
  <2>2. ASSUME NEW i \in Below(n) PROVE i \in Below(m)
    BY <2>1
  <2> QED
    BY <2>2
<1>4. IsFiniteSet(Below(m))
  BY <1>2, <1>3, FS_Subset
<1>5. /\ Cardinality(Below(n)) <= Cardinality(Below(m))
      /\ Cardinality(Below(n)) \in Nat /\ Cardinality(Below(m)) \in Nat
  BY <1>3, <1>4, FS_Subset, FS_CardinalityType
<1>6. Cardinality(Below(m)) < Batch
  BY DEF Oldest
<1>7. Cardinality(Below(n)) < Batch
  BY <1>1, <1>5, <1>6
<1> QED
  BY <1>7 DEF Oldest

\* What is known of a poll and of the numbers around it.
LEMMA Types ==
  ASSUME MonTypeOK, MonitorAssumption
  PROVE  /\ MaxPosts \in Nat /\ PostIds \subseteq Nat \ {0} /\ cursor \in Int
         /\ \A n \in PostIds : replies[n] \in Nat
         /\ newest \in Nat /\ archive \in Nat /\ cuts \in Nat
         /\ \A p \in Polls :
               /\ poll[p].at \in {"idle", "fetch", "enqueue"}
               /\ poll[p].seen \in PostIds \cup {-1} /\ poll[p].seen \in Int
               /\ poll[p].todo \in SUBSET PostIds
               /\ poll[p].last \in 0..MaxPosts /\ poll[p].last \in Int
<1>1. MaxPosts \in Nat /\ PostIds \subseteq Nat \ {0}
  BY DEF MonitorAssumption, PostIds
<1>2. \A p \in Polls : poll[p] \in [at: {"idle", "fetch", "enqueue"}, seen: PostIds \cup {-1},
                                    todo: SUBSET PostIds, last: 0..MaxPosts]
  BY DEF MonTypeOK
<1>3. \A p \in Polls :
         /\ poll[p].at \in {"idle", "fetch", "enqueue"}
         /\ poll[p].seen \in PostIds \cup {-1} /\ poll[p].seen \in Int
         /\ poll[p].todo \in SUBSET PostIds
         /\ poll[p].last \in 0..MaxPosts /\ poll[p].last \in Int
  <2> TAKE p \in Polls
  <2>1. PICK r \in [at: {"idle", "fetch", "enqueue"}, seen: PostIds \cup {-1},
                   todo: SUBSET PostIds, last: 0..MaxPosts] : poll[p] = r
    BY <1>2
  <2>2. /\ r.at \in {"idle", "fetch", "enqueue"} /\ r.seen \in PostIds \cup {-1}
        /\ r.todo \in SUBSET PostIds /\ r.last \in 0..MaxPosts
    OBVIOUS
  <2>3. r.seen \in Int
    <3>1. \A n \in PostIds \cup {-1} : n \in Int
      BY <1>1
    <3> QED
      BY ONLY <2>2, <3>1
  <2>4. r.last \in Int
    <3>1. \A n \in 0..MaxPosts : n \in Int
      OBVIOUS
    <3> QED
      BY ONLY <2>2, <3>1
  <2> QED
    BY ONLY <2>1, <2>2, <2>3, <2>4
<1>4. /\ cursor \in Int /\ newest \in Nat /\ archive \in Nat /\ cuts \in Nat
      /\ \A n \in PostIds : replies[n] \in Nat
  BY <1>1 DEF MonTypeOK
<1> QED
  BY <1>1, <1>3, <1>4

LEMMA MonitorStarts == ASSUME MonitorAssumption, MonInit PROVE MonitorInv
<1>1. MonTypeOK
  <2>1. MaxPosts \in Nat
    BY DEF MonitorAssumption
  <2>2. Resting \in [at: {"idle", "fetch", "enqueue"}, seen: PostIds \cup {-1},
                    todo: SUBSET PostIds, last: 0..MaxPosts]
    BY <2>1 DEF Resting
  <2>3. poll \in [Polls -> [at: {"idle", "fetch", "enqueue"}, seen: PostIds \cup {-1},
                            todo: SUBSET PostIds, last: 0..MaxPosts]]
    BY <2>2 DEF MonInit
  <2>4. /\ newest \in 0..MaxPosts /\ active \in BOOLEAN /\ cursor \in PostIds \cup {-1}
        /\ replies \in [PostIds -> Nat]
    BY <2>1 DEF MonInit
  <2>5. archive \in Nat /\ crowded \subseteq PostIds /\ overlap \in BOOLEAN /\ cuts \in Nat
    BY DEF MonInit
  <2> QED
    BY <2>3, <2>4, <2>5 DEF MonTypeOK
<1>2. EachPostOnce
  BY DEF MonInit, EachPostOnce, PostOnce, NothingPassedOver, PostIds
<1>3. OneAtATime /\ \A p \in Polls : PollKnows(p)
  BY DEF MonInit, OneAtATime, PollKnows, Resting
<1> QED
  BY <1>1, <1>2, <1>3 DEF MonitorInv
-----------------------------------------------------------------------------
\* A new post and a switch of the campaign touch neither cursor nor polls.
LEMMA AppearsKeeps == ASSUME MonitorAssumption, MonitorInv, Appears \/ Toggle PROVE MonitorInv'
<1>1. MonTypeOK'
  <2>1. newest' \in 0..MaxPosts
    BY Types DEF MonitorInv, MonTypeOK, Appears, Toggle
  <2>2. active' \in BOOLEAN
    BY Zenon DEF MonitorInv, MonTypeOK, Appears, Toggle, bookkeeping
  <2> QED
    BY <2>1, <2>2 DEF MonitorInv, MonTypeOK, Appears, Toggle, bookkeeping
<1> QED
  BY <1>1 DEF MonitorInv, Appears, Toggle, bookkeeping, EachPostOnce, PostOnce, NothingPassedOver,
              OneAtATime, PollKnows, Covered

\* A poll that ends without moving the cursor leaves the others what they know.
LEMMA RestsKeeps ==
  ASSUME MonitorAssumption, MonitorInv, NEW p \in Polls, Rests(p),
         cuts' \in Nat, cuts' = cuts \/ cuts' > 0,
         poll[p].at = "fetch" \/ cuts' > 0,
         UNCHANGED <<newest, active, cursor, replies, archive, crowded, overlap>>
  PROVE  MonitorInv'
<1> USE DEF MonitorInv
<1>1. Resting \in [at: {"idle", "fetch", "enqueue"}, seen: PostIds \cup {-1},
                  todo: SUBSET PostIds, last: 0..MaxPosts] /\ Resting.at = "idle"
  BY DEF Resting, MonitorAssumption
<1>2. \A q \in Polls : poll'[q] = IF q = p THEN Resting ELSE poll[q]
  BY DEF Rests, MonTypeOK
<1>3. MonTypeOK'
  BY <1>1 DEF MonTypeOK, Rests
<1>4. EachPostOnce'
  BY DEF EachPostOnce, PostOnce, NothingPassedOver
<1>5. OneAtATime'
  BY <1>1, <1>2, Types DEF OneAtATime
<1>6. ASSUME NEW q \in Polls PROVE PollKnows(q)'
  BY <1>1, <1>2 DEF PollKnows, Covered
<1> QED
  BY <1>3, <1>4, <1>5, <1>6

\* A poll reads the cursor: what is below it is covered, and if no other poll is under
\* way it is the only one.
LEMMA PollStartsKeeps ==
  ASSUME MonitorAssumption, MonitorInv, NEW p \in Polls, PollStarts(p) PROVE MonitorInv'
<1> USE DEF MonitorInv
<1> DEFINE new == [at |-> "fetch", seen |-> cursor, todo |-> {}, last |-> 0]
<1>1. new \in [at: {"idle", "fetch", "enqueue"}, seen: PostIds \cup {-1},
              todo: SUBSET PostIds, last: 0..MaxPosts]
  BY DEF MonTypeOK, MonitorAssumption
<1>2. \A q \in Polls : poll'[q] = IF q = p THEN new ELSE poll[q]
  BY DEF PollStarts, MonTypeOK
<1>3. new.at = "fetch" /\ new.seen = cursor
  OBVIOUS
<1> HIDE DEF new
<1>4. MonTypeOK'
  <2>1. poll' = [poll EXCEPT ![p] = new]
    BY DEF PollStarts, new
  <2>2. overlap' \in BOOLEAN
    BY DEF PollStarts
  <2> QED
    BY <1>1, <2>1, <2>2 DEF MonTypeOK, PollStarts
<1>5. EachPostOnce'
  BY DEF EachPostOnce, PostOnce, NothingPassedOver, PollStarts, MonTypeOK
<1>6. OneAtATime'
  <2> SUFFICES ASSUME cuts = 0, ~overlap' PROVE OneAtATime'
    BY DEF OneAtATime, PollStarts
  <2>1. ~overlap /\ \A q \in Polls \ {p} : poll[q].at = "idle"
    BY DEF PollStarts
  <2> QED
    BY <1>2, <1>3, <2>1 DEF OneAtATime, PollStarts
<1>7. ASSUME NEW q \in Polls PROVE PollKnows(q)'
  BY <1>2, <1>3 DEF PollKnows, Covered, PollStarts, EachPostOnce, NothingPassedOver
<1> QED
  BY <1>4, <1>5, <1>6, <1>7
\* What a poll makes of the posts it was shown: all that are new and no further than the
\* last it takes are taken, or were never shown.
LEMMA FetchKeeps ==
  ASSUME MonitorAssumption, MonitorInv, NEW p \in Polls, Fetch(p) PROVE MonitorInv'
<1> USE DEF MonitorInv
<1> DEFINE seen == poll[p].seen
           fresh == Oldest(New(poll[p].seen))
           todo == IF seen = -1 THEN {} ELSE fresh
           last == IF seen = -1 THEN newest ELSE Max(fresh)
           new == [at |-> "enqueue", seen |-> seen, todo |-> todo, last |-> last]
<1>1. Fetch(p) <=> FetchWith(p, fresh)
  BY DEF Fetch
<1>2. /\ poll[p].at = "fetch" /\ Shown \subseteq PostIds
      /\ fresh \subseteq New(seen) /\ New(seen) \subseteq Shown
      /\ UNCHANGED <<newest, active, cursor, replies, archive, overlap, cuts>>
  BY DEF Fetch, FetchWith, Shown, New, Oldest
<1>3. crowded' = crowded \cup (IF seen = -1 THEN {}
                              ELSE {n \in PostIds \ Shown : n > seen /\ n <= newest})
  BY DEF Fetch, FetchWith
<1>4. /\ seen \in PostIds \cup {-1} /\ seen \in Int /\ newest \in Nat
      /\ MaxPosts \in Nat /\ PostIds \subseteq Nat \ {0} /\ cuts \in Nat /\ cursor \in Int
  BY Types
<1>5. crowded \subseteq crowded' /\ crowded' \subseteq PostIds
  BY <1>3 DEF MonTypeOK
<1>6. CASE Rests(p)
  <2>1. Resting \in [at: {"idle", "fetch", "enqueue"}, seen: PostIds \cup {-1},
                    todo: SUBSET PostIds, last: 0..MaxPosts] /\ Resting.at = "idle"
    BY <1>4 DEF Resting
  <2>2. \A q \in Polls : poll'[q] = IF q = p THEN Resting ELSE poll[q]
    BY <1>6 DEF Rests, MonTypeOK
  <2>3. MonTypeOK'
    BY <1>2, <1>5, <1>6, <2>1 DEF MonTypeOK, Rests
  <2>4. EachPostOnce'
    BY <1>2, <1>5 DEF EachPostOnce, PostOnce, NothingPassedOver
  <2>5. OneAtATime'
    BY <1>2, <2>1, <2>2, Types DEF OneAtATime
  <2>6. ASSUME NEW q \in Polls PROVE PollKnows(q)'
    BY <1>2, <1>5, <2>1, <2>2 DEF PollKnows, Covered
  <2> QED
    BY <2>3, <2>4, <2>5, <2>6
<1>7. CASE ~ Rests(p)
  <2>1. poll' = [poll EXCEPT ![p] = new] /\ Shown # {} /\ (seen # -1 => fresh # {})
    BY <1>7 DEF Fetch, FetchWith
  <2>2. /\ last \in PostIds /\ todo \in SUBSET PostIds
        /\ seen = -1 => todo = {} /\ last = newest
        /\ seen # -1 => /\ todo = fresh /\ last \in fresh
                        /\ \A n \in fresh : n <= last
    <3>1. newest \in PostIds
      BY <1>4, <2>1 DEF Shown, MonTypeOK, PostIds
    <3>2. seen # -1 => Max(fresh) \in fresh /\ \A n \in fresh : n <= Max(fresh)
      <4> HIDE DEF fresh, seen
      <4> QED
        BY <1>2, <2>1, Extremes
    <3> QED
      BY <1>2, <3>1, <3>2
  <2>3. /\ new \in [at: {"idle", "fetch", "enqueue"}, seen: PostIds \cup {-1},
                    todo: SUBSET PostIds, last: 0..MaxPosts]
        /\ new.at = "enqueue" /\ new.seen = seen /\ new.todo = todo /\ new.last = last
    <3> HIDE DEF seen, todo, last
    <3> QED
      BY <1>4, <2>2 DEF PostIds
  <2> HIDE DEF new, todo, last
  <2>6. \A q \in Polls : poll'[q] = IF q = p THEN new ELSE poll[q]
    BY <2>1 DEF MonTypeOK
  <2>7. MonTypeOK'
    BY <1>2, <1>5, <2>1, <2>3 DEF MonTypeOK
  <2>8. EachPostOnce'
    BY <1>2, <1>5 DEF EachPostOnce, PostOnce, NothingPassedOver
  <2>9. \A n \in fresh : n > seen /\ n \in PostIds
    BY <1>2 DEF New
  <2>10. OneAtATime'
    <3> SUFFICES ASSUME cuts = 0, ~overlap PROVE OneAtATime'
      BY <1>2 DEF OneAtATime
    <3>1. /\ \A q \in Polls : poll[q].at # "idle" => q = p
          /\ seen = cursor
          /\ \A n \in PostIds : replies[n] > 0 => n <= cursor
      BY <1>2 DEF OneAtATime
    <3>2. last >= cursor /\ \A n \in todo : cursor < n /\ n <= last
      BY <1>4, <2>2, <2>9, <3>1
    <3> HIDE DEF seen
    <3> QED
      BY <1>2, <2>3, <2>6, <3>1, <3>2 DEF OneAtATime
  <2>11. ASSUME NEW n \in PostIds, seen # -1, n <= last PROVE Covered(n)' \/ n \in todo
    <3>1. CASE n <= seen
      <4>1. Covered(n)
        BY <1>2, <3>1 DEF PollKnows
      <4> QED
        BY <1>2, <1>5, <4>1 DEF Covered
    <3>2. CASE n > seen /\ n \in Shown
      <4>1. n \in New(seen) /\ New(seen) \in SUBSET PostIds /\ last \in Oldest(New(seen))
        BY <1>2, <2>2, <2>11, <3>2 DEF New
      <4>2. n \in Oldest(New(seen))
        <5> HIDE DEF seen
        <5> QED
          BY <2>11, <4>1, OldestClosed
      <4> QED
        BY <2>2, <2>11, <4>2
    <3>3. CASE n > seen /\ n \notin Shown
      <4>1. last <= newest
        BY <1>2, <1>4, <2>2, <2>11 DEF Shown
      <4>2. n <= newest
        BY <1>4, <2>2, <2>11, <4>1
      <4>3. n \in crowded'
        BY <1>3, <2>11, <3>3, <4>2
      <4> QED
        BY <4>3 DEF Covered
    <3> QED
      BY <1>4, <3>1, <3>2, <3>3
  <2>12. ASSUME NEW q \in Polls PROVE PollKnows(q)'
    <3>1. \A n \in PostIds : Covered(n) => Covered(n)'
      BY <1>2, <1>5 DEF Covered
    <3>2. CASE q = p
      <4>1. \A n \in PostIds : n <= seen => Covered(n)'
        BY <1>2, <3>1 DEF PollKnows
      <4> HIDE DEF seen
      <4> QED
        BY <2>2, <2>3, <2>6, <2>11, <3>2, <4>1 DEF PollKnows
    <3>3. CASE q # p
      BY <2>6, <3>1, <3>3 DEF PollKnows
    <3> QED
      BY <3>2, <3>3
  <2> QED
    BY <2>7, <2>8, <2>10, <2>12
<1> QED
  BY <1>6, <1>7
\* The next post of a poll is enqueued: a poll that is alone has not enqueued it before.
LEMMA EnqueueReplyKeeps ==
  ASSUME MonitorAssumption, MonitorInv, NEW p \in Polls, EnqueueReply(p) PROVE MonitorInv'
<1> USE DEF MonitorInv
<1> DEFINE n == Min(poll[p].todo)
           new == [poll[p] EXCEPT !.todo = @ \ {n}]
<1>1. /\ poll[p].at = "enqueue" /\ poll[p].todo # {}
      /\ replies' = [replies EXCEPT ![n] = @ + 1]
      /\ UNCHANGED <<newest, active, cursor, archive, crowded, overlap, cuts>>
  BY DEF EnqueueReply, bookkeeping
<1>2. poll' = [poll EXCEPT ![p].todo = @ \ {n}]
  BY DEF EnqueueReply
<1>3. n \in poll[p].todo /\ n \in PostIds
  BY <1>1, Types, Extremes
<1>4. /\ poll[p] \in [at: {"idle", "fetch", "enqueue"}, seen: PostIds \cup {-1},
                      todo: SUBSET PostIds, last: 0..MaxPosts]
      /\ poll[p].todo \ {n} \in SUBSET PostIds
  BY Types DEF MonTypeOK
<1>5. /\ new.at = poll[p].at /\ new.seen = poll[p].seen /\ new.last = poll[p].last
      /\ new.todo = poll[p].todo \ {n}
      /\ new \in [at: {"idle", "fetch", "enqueue"}, seen: PostIds \cup {-1},
                 todo: SUBSET PostIds, last: 0..MaxPosts]
  <2> HIDE DEF n
  <2> QED
    BY <1>4
<1>6. poll' = [poll EXCEPT ![p] = new]
  <2> HIDE DEF n
  <2> QED
    BY <1>2 DEF MonTypeOK
<1> HIDE DEF new, n
<1>7. \A q \in Polls : poll'[q] = IF q = p THEN new ELSE poll[q]
  BY <1>6 DEF MonTypeOK
<1>8. /\ \A k \in PostIds : replies'[k] = IF k = n THEN replies[k] + 1 ELSE replies[k]
      /\ \A k \in PostIds : replies[k] \in Nat
      /\ replies' \in [PostIds -> Nat]
  BY <1>1, <1>3 DEF MonTypeOK
<1>9. \A k \in PostIds : replies[k] > 0 => replies'[k] > 0
  BY <1>8
<1>10. MonTypeOK'
  BY <1>1, <1>5, <1>6, <1>8 DEF MonTypeOK
<1>11. NothingPassedOver'
  BY <1>1, <1>9 DEF EachPostOnce, NothingPassedOver
<1>12. ASSUME cuts = 0, ~overlap
       PROVE  /\ replies[n] = 0 /\ \A q \in Polls : poll[q].at # "idle" => q = p
              /\ poll[p].seen = cursor /\ poll[p].last >= cursor
              /\ \A k \in poll[p].todo : cursor < k /\ k <= poll[p].last
  <2>1. /\ \A q \in Polls : poll[q].at # "idle" => q = p
        /\ poll[p].seen = cursor /\ poll[p].last >= cursor
        /\ \A k \in poll[p].todo : cursor < k /\ k <= poll[p].last
    BY <1>1, <1>12 DEF OneAtATime
  <2>2. ~ (n <= cursor)
    BY <1>3, <2>1, Types
  <2>3. ~ (replies[n] > 0)
    BY <1>3, <1>12, <2>1, <2>2 DEF OneAtATime
  <2> QED
    BY <1>3, <1>8, <2>1, <2>3
<1>13. PostOnce'
  <2> SUFFICES ASSUME cuts = 0, ~overlap, NEW k \in PostIds PROVE replies'[k] <= 1
    BY <1>1 DEF PostOnce
  <2> QED
    BY <1>8, <1>12 DEF EachPostOnce, PostOnce
<1>14. OneAtATime'
  <2> SUFFICES ASSUME cuts = 0, ~overlap PROVE OneAtATime'
    BY <1>1 DEF OneAtATime
  <2>1. \A q \in Polls : poll'[q].at # "idle" => q = p
    BY <1>7, <1>12
  <2>2. ASSUME NEW k \in PostIds, replies'[k] > 0, ~ (k <= cursor)
        PROVE  k <= poll[p].last /\ k \notin new.todo
    <3>1. CASE k = n
      BY <1>3, <1>5, <1>12, <3>1
    <3>2. CASE k # n
      BY <1>1, <1>5, <1>8, <1>12, <2>2, <3>2 DEF OneAtATime
    <3> QED
      BY <3>1, <3>2
  <2> QED
    BY <1>1, <1>5, <1>7, <1>12, <2>1, <2>2 DEF OneAtATime
<1>15. ASSUME NEW q \in Polls PROVE PollKnows(q)'
  <2>1. \A k \in PostIds : Covered(k) => Covered(k)'
    BY <1>1, <1>9 DEF Covered
  <2>2. \A k \in PostIds : k = n => Covered(k)'
    BY <1>3, <1>8 DEF Covered
  <2>3. CASE q = p
    BY <1>1, <1>5, <1>7, <2>1, <2>2, <2>3 DEF PollKnows
  <2>4. CASE q # p
    BY <1>7, <2>1, <2>4 DEF PollKnows
  <2> QED
    BY <2>3, <2>4
<1> QED
  BY <1>10, <1>11, <1>13, <1>14, <1>15 DEF EachPostOnce

\* The cursor goes to the last post of the poll: what is below it is covered, because this
\* poll has enqueued it, found it covered or never shown, or began the monitoring.
LEMMA MoveCursorKeeps ==
  ASSUME MonitorAssumption, MonitorInv, NEW p \in Polls, MoveCursor(p) PROVE MonitorInv'
<1> USE DEF MonitorInv
<1>1. /\ poll[p].at = "enqueue" /\ poll[p].todo = {} /\ cursor' = poll[p].last /\ Rests(p)
      /\ archive' = IF poll[p].seen = -1 THEN Max({archive, poll[p].last}) ELSE archive
      /\ UNCHANGED <<newest, active, replies, crowded, overlap, cuts>>
  BY DEF MoveCursor
<1>2. Resting \in [at: {"idle", "fetch", "enqueue"}, seen: PostIds \cup {-1},
                  todo: SUBSET PostIds, last: 0..MaxPosts] /\ Resting.at = "idle"
  BY DEF Resting, MonitorAssumption
<1>3. \A q \in Polls : poll'[q] = IF q = p THEN Resting ELSE poll[q]
  BY <1>1 DEF Rests, MonTypeOK
<1>4. poll[p].last \in PostIds /\ poll[p].last \in Nat /\ archive \in Nat /\ PostIds \subseteq Nat
  BY <1>1, Types DEF PollKnows
<1>5. /\ archive' \in Nat /\ archive <= archive'
      /\ poll[p].seen = -1 => poll[p].last <= archive'
  <2>1. ASSUME NEW a \in Nat, NEW b \in Nat
        PROVE  Max({a, b}) \in Nat /\ a <= Max({a, b}) /\ b <= Max({a, b})
    <3>1. \E x \in {a, b} : \A y \in {a, b} : x >= y
      OBVIOUS
    <3>2. Max({a, b}) \in {a, b} /\ \A y \in {a, b} : Max({a, b}) >= y
      BY ONLY <3>1 DEF Max
    <3> QED
      BY <3>2
  <2>2. Max({archive, poll[p].last}) \in Nat /\ archive <= Max({archive, poll[p].last})
        /\ poll[p].last <= Max({archive, poll[p].last})
    BY <1>4, <2>1
  <2> QED
    BY <1>1, <1>4, <2>2
<1>6. MonTypeOK'
  BY <1>1, <1>2, <1>4, <1>5 DEF MonTypeOK, Rests
<1>7. \A k \in PostIds : Covered(k) => Covered(k)'
  <2> TAKE k \in PostIds
  <2>1. k \in Nat /\ archive \in Nat /\ archive' \in Nat
    BY <1>4, <1>5 DEF PostIds
  <2>2. k <= archive => k <= archive'
    BY <1>5, <2>1
  <2>3. replies' = replies /\ crowded' = crowded
    BY <1>1
  <2> QED
    BY <2>2, <2>3 DEF Covered
<1>8. ASSUME NEW k \in PostIds, k <= cursor' PROVE Covered(k)'
  <2>1. CASE poll[p].seen = -1
    BY <1>1, <1>4, <1>5, <1>8, <2>1 DEF Covered
  <2>2. CASE poll[p].seen # -1
    BY <1>1, <1>7, <1>8, <2>2 DEF PollKnows
  <2> QED
    BY <2>1, <2>2
<1>9. EachPostOnce'
  BY <1>1, <1>8 DEF EachPostOnce, PostOnce, NothingPassedOver, Covered
<1>10. OneAtATime'
  <2> SUFFICES ASSUME cuts = 0, ~overlap PROVE OneAtATime'
    BY <1>1 DEF OneAtATime
  <2>1. /\ \A q \in Polls : poll[q].at # "idle" => q = p
        /\ cursor <= poll[p].last
    BY <1>1, <1>4, Types DEF OneAtATime
  <2>2. ASSUME NEW k \in PostIds, replies[k] > 0 PROVE k <= poll[p].last
    <3>1. CASE k <= cursor
      BY <1>4, <2>1, <3>1, Types
    <3>2. CASE ~ (k <= cursor)
      BY <2>1, <2>2, <3>2 DEF OneAtATime
    <3> QED
      BY <3>1, <3>2
  <2>3. \A q \in Polls : poll'[q].at = "idle"
    BY <1>2, <1>3, <2>1
  <2> QED
    BY <1>1, <2>2, <2>3 DEF OneAtATime
<1>11. ASSUME NEW q \in Polls PROVE PollKnows(q)'
  BY <1>1, <1>2, <1>3, <1>7 DEF PollKnows
<1> QED
  BY <1>6, <1>9, <1>10, <1>11

LEMMA MonitorKeeps == ASSUME MonitorAssumption, MonitorInv, [MonNext]_monVars PROVE MonitorInv'
<1>1. CASE Appears \/ Toggle
  BY <1>1, AppearsKeeps
<1>2. ASSUME NEW p \in Polls, PollStarts(p) PROVE MonitorInv'
  BY <1>2, PollStartsKeeps
<1>3. ASSUME NEW p \in Polls, Fetch(p) PROVE MonitorInv'
  BY <1>3, FetchKeeps
<1>4. ASSUME NEW p \in Polls, FetchFails(p) PROVE MonitorInv'
  BY <1>4, RestsKeeps, Types DEF FetchFails, bookkeeping, MonitorInv
<1>5. ASSUME NEW p \in Polls, EnqueueReply(p) PROVE MonitorInv'
  BY <1>5, EnqueueReplyKeeps
<1>6. ASSUME NEW p \in Polls, MoveCursor(p) PROVE MonitorInv'
  BY <1>6, MoveCursorKeeps
<1>7. ASSUME NEW p \in Polls, CutOff(p) PROVE MonitorInv'
  BY <1>7, RestsKeeps, Types DEF CutOff, MonitorInv
<1>8. CASE UNCHANGED monVars
  BY <1>8 DEF MonitorInv, monVars, bookkeeping, MonTypeOK, EachPostOnce, PostOnce,
              NothingPassedOver, OneAtATime, PollKnows, Covered
<1> QED
  BY <1>1, <1>2, <1>3, <1>4, <1>5, <1>6, <1>7, <1>8 DEF MonNext

\* modules/shilling/worker/orchestrator.py:611-650: whatever polls overlap or are cut off, the
\* cursor passes over no post; one poll after the other also enqueues none twice.
THEOREM CursorKeepsPosts ==
  ASSUME MonitorAssumption PROVE MonSpec => [](MonTypeOK /\ EachPostOnce)
<1>1. MonInit => MonitorInv
  BY MonitorStarts
<1>2. MonitorInv /\ [MonNext]_monVars => MonitorInv'
  BY MonitorKeeps
<1>3. MonitorInv => MonTypeOK /\ EachPostOnce
  BY DEF MonitorInv
<1> QED
  BY <1>1, <1>2, <1>3, PTL DEF MonSpec
-----------------------------------------------------------------------------
(*************** Governor ***************)

GovInv == GovTypeOK /\ LimitsHold
-----------------------------------------------------------------------------
\* The tasks let through are some of those that ask.
LEMMA PendingFinite ==
  ASSUME GovernorAssumption, NEW w \in W
  PROVE  /\ IsFiniteSet(Pending(w)) /\ Cardinality(Pending(w)) \in Nat
         /\ Cardinality(Senders) \in Nat
         /\ Cardinality(Pending(w)) <= Cardinality(Senders)
<1>1. Pending(w) \in SUBSET Senders
  BY DEF Pending
<1>2. IsFiniteSet(Senders)
  BY DEF GovernorAssumption
<1> QED
  BY <1>1, <1>2, FS_Subset, FS_CardinalityType

\* Fewer tasks let through leave more room.
LEMMA FewerPending ==
  ASSUME GovernorAssumption, NEW w \in W, NEW P, P \in SUBSET Pending(w)
  PROVE  Cardinality(P) \in Nat /\ Cardinality(P) <= Cardinality(Pending(w))
BY PendingFinite, FS_Subset, FS_CardinalityType

LEMMA GovStarts == ASSUME GovernorAssumption, GovInit PROVE GovInv
<1>1. GovTypeOK
  BY DEF GovInit, GovTypeOK, GovernorAssumption, Idle, GovPlaces, W
<1>2. OvershootBounded
  <2> SUFFICES ASSUME NEW w \in W
               PROVE  count[w] + Cardinality(Pending(w)) <= Limit[w] - 1 + Cardinality(Senders)
    BY DEF OvershootBounded
  <2>1. Pending(w) = {}
    BY DEF Pending, GovInit, Idle
  <2>2. Cardinality(Pending(w)) = 0 /\ Cardinality(Senders) \in Nat
    BY <2>1, FS_EmptySet, PendingFinite
  <2>3. count[w] = 0 /\ Limit[w] \in Nat \ {0}
    BY DEF GovInit, GovernorAssumption, W
  <2> QED
    BY <2>2, <2>3
<1>3. CountersExpire
  BY DEF GovInit, CountersExpire
<1> QED
  BY <1>1, <1>2, <1>3 DEF GovInv, LimitsHold
-----------------------------------------------------------------------------
\* One lemma per action: types, the bound of every window, and the TTL.

LEMMA AskKeeps ==
  ASSUME GovernorAssumption, GovInv, NEW s \in Senders, Ask(s) PROVE GovInv'
<1>1. GovTypeOK'
  BY DEF GovInv, GovTypeOK, Ask, GovernorAssumption, GovPlaces, W
<1>2. OvershootBounded'
  <2> SUFFICES ASSUME NEW w \in W
               PROVE  count'[w] + Cardinality(Pending(w)') <= Limit[w] - 1 + Cardinality(Senders)
    BY DEF OvershootBounded
  <2>1. Pending(w)' = Pending(w)
    BY DEF Pending, Ask, GovInv, GovTypeOK, W, GovernorAssumption
  <2> QED
    BY <2>1 DEF Ask, GovInv, LimitsHold, OvershootBounded
<1>3. CountersExpire'
  BY DEF Ask, GovInv, LimitsHold, CountersExpire, GovTypeOK
<1> QED
  BY <1>1, <1>2, <1>3 DEF GovInv, LimitsHold

LEMMA CheckKeeps ==
  ASSUME GovernorAssumption, GovInv, NEW s \in Senders, Check(s) PROVE GovInv'
<1>1. GovTypeOK'
  BY DEF GovInv, GovTypeOK, Check, CheckedUpTo, GovernorAssumption, GovPlaces, Idle, W
<1>2. OvershootBounded'
  <2> SUFFICES ASSUME NEW v \in W
               PROVE  count'[v] + Cardinality(Pending(v)') <= Limit[v] - 1 + Cardinality(Senders)
    BY DEF OvershootBounded
  <2>1. count'[v] = count[v] /\ count[v] \in Nat /\ Limit[v] \in Nat
    BY DEF Check, GovInv, GovTypeOK, GovernorAssumption, W
  <2>2. CASE v = sender[s].w /\ count[v] < Limit[v]
    <3>1. Cardinality(Pending(v)') <= Cardinality(Senders) /\ Cardinality(Senders) \in Nat
          /\ Cardinality(Pending(v)') \in Nat
      <4>1. Pending(v)' \in SUBSET Senders
        BY DEF Pending
      <4>2. IsFiniteSet(Senders)
        BY DEF GovernorAssumption
      <4> QED
        BY <4>1, <4>2, FS_Subset, FS_CardinalityType
    <3> QED
      BY <2>1, <2>2, <3>1
  <2>3. CASE ~(v = sender[s].w /\ count[v] < Limit[v])
    <3>1. Pending(v)' \in SUBSET Pending(v)
      BY <2>1, <2>3 DEF Pending, Check, CheckedUpTo, Idle, GovInv, GovTypeOK, W, GovernorAssumption
    <3>2. Cardinality(Pending(v)') \in Nat /\ Cardinality(Pending(v)') <= Cardinality(Pending(v))
      BY <3>1, FewerPending
    <3>3. count[v] + Cardinality(Pending(v)) <= Limit[v] - 1 + Cardinality(Senders)
      BY DEF GovInv, LimitsHold, OvershootBounded
    <3> QED
      BY <2>1, <3>2, <3>3, PendingFinite
  <2> QED
    BY <2>2, <2>3
<1>3. CountersExpire'
  BY DEF Check, GovInv, LimitsHold, CountersExpire, GovTypeOK
<1> QED
  BY <1>1, <1>2, <1>3 DEF GovInv, LimitsHold

LEMMA IncrKeeps ==
  ASSUME GovernorAssumption, GovInv, NEW s \in Senders, Incr(s) PROVE GovInv'
<1> DEFINE w == sender[s].w
<1>0. w \in W /\ sender[s].at = "incr" /\ count[w] \in Nat
  BY DEF GovInv, GovTypeOK, Incr
<1>1. GovTypeOK'
  BY DEF GovInv, GovTypeOK, Incr, ReservedUpTo, GovernorAssumption, GovPlaces, Idle, W
<1>2. OvershootBounded'
  <2> SUFFICES ASSUME NEW v \in W
               PROVE  count'[v] + Cardinality(Pending(v)') <= Limit[v] - 1 + Cardinality(Senders)
    BY DEF OvershootBounded
  <2>1. count[v] + Cardinality(Pending(v)) <= Limit[v] - 1 + Cardinality(Senders)
    BY DEF GovInv, LimitsHold, OvershootBounded
  <2>2. count[v] \in Nat /\ Limit[v] \in Nat
    BY DEF GovInv, GovTypeOK, GovernorAssumption, W
  <2>3. CASE v = w
    <3>1. count'[v] = count[v] + 1
      BY <1>0, <2>3 DEF Incr, GovInv, GovTypeOK
    <3>2. s \in Pending(v) /\ Pending(v)' \in SUBSET (Pending(v) \ {s})
      BY <1>0, <2>3 DEF Pending, Incr, ReservedUpTo, Idle, GovInv, GovTypeOK, W, GovernorAssumption
    <3>3. /\ IsFiniteSet(Pending(v) \ {s})
          /\ Cardinality(Pending(v) \ {s}) = Cardinality(Pending(v)) - 1
      BY <3>2, PendingFinite, FS_RemoveElement
    <3>4. Cardinality(Pending(v)') <= Cardinality(Pending(v)) - 1 /\ Cardinality(Pending(v)') \in Nat
      BY <3>2, <3>3, FS_Subset, FS_CardinalityType
    <3> QED
      BY <2>1, <2>2, <3>1, <3>4, PendingFinite
  <2>4. CASE v # w
    <3>1. count'[v] = count[v]
      BY <1>0, <2>4 DEF Incr, GovInv, GovTypeOK
    <3>2. Pending(v)' = Pending(v)
      BY <1>0, <2>4 DEF Pending, Incr, ReservedUpTo, Idle, GovInv, GovTypeOK, W, GovernorAssumption
    <3> QED
      BY <2>1, <3>1, <3>2
  <2> QED
    BY <2>3, <2>4
<1>3. CountersExpire'
  <2> SUFFICES ASSUME deaths = 0, NEW v \in W, count'[v] > 0, ~expires[v]
               PROVE  \E t \in Senders : sender'[t] = [at |-> "expire", w |-> v]
    BY DEF CountersExpire, Incr
  <2>1. CASE count[v] = 0
    <3>1. v = w
      BY <1>0, <2>1 DEF Incr, GovInv, GovTypeOK
    <3>2. sender'[s] = [sender[s] EXCEPT !.at = "expire"]
      BY <2>1, <3>1 DEF Incr, GovInv, GovTypeOK
    <3>3. sender[s] \in [at : GovPlaces, w : Nat]
      BY DEF GovInv, GovTypeOK
    <3>4. [sender[s] EXCEPT !.at = "expire"] = [at |-> "expire", w |-> w]
      BY <3>3
    <3> QED
      BY <3>1, <3>2, <3>4
  <2>2. CASE count[v] # 0
    <3>1. PICK t \in Senders : sender[t] = [at |-> "expire", w |-> v]
      BY <2>2 DEF GovInv, LimitsHold, CountersExpire, GovTypeOK
    <3>2. t # s
      BY <1>0, <3>1
    <3> QED
      BY <3>1, <3>2 DEF Incr, GovInv, GovTypeOK
  <2> QED
    BY <2>1, <2>2
<1> QED
  BY <1>1, <1>2, <1>3 DEF GovInv, LimitsHold

LEMMA ExpireKeeps ==
  ASSUME GovernorAssumption, GovInv, NEW s \in Senders, Expire(s) PROVE GovInv'
<1>1. GovTypeOK'
  <2>1. (count[sender[s].w] > 0) \in BOOLEAN
    OBVIOUS
  <2>2. expires' \in [W -> BOOLEAN]
    <3>1. expires \in [W -> BOOLEAN] /\ expires' = [expires EXCEPT ![sender[s].w] = count[sender[s].w] > 0]
      BY DEF Expire, GovInv, GovTypeOK
    <3> QED
      BY ONLY <3>1, <2>1, Zenon
  <2>3. /\ sender' \in [Senders -> [at: GovPlaces, w: Nat]]
        /\ \A t \in Senders : sender'[t].at # "idle" => sender'[t].w \in W
    BY DEF GovInv, GovTypeOK, Expire, ReservedUpTo, GovernorAssumption, GovPlaces, Idle, W
  <2> QED
    BY <2>2, <2>3 DEF GovInv, GovTypeOK, Expire
<1>2. OvershootBounded'
  <2> SUFFICES ASSUME NEW v \in W
               PROVE  count'[v] + Cardinality(Pending(v)') <= Limit[v] - 1 + Cardinality(Senders)
    BY DEF OvershootBounded
  <2>1. Pending(v)' = Pending(v)
    BY SMTT(20) DEF Pending, Expire, ReservedUpTo, Idle, GovInv, GovTypeOK, W, GovernorAssumption
  <2> QED
    BY <2>1 DEF Expire, GovInv, LimitsHold, OvershootBounded
<1>3. CountersExpire'
  <2> SUFFICES ASSUME deaths = 0, NEW v \in W, count[v] > 0, ~expires'[v]
               PROVE  \E t \in Senders : sender'[t] = [at |-> "expire", w |-> v]
    BY DEF CountersExpire, Expire
  <2>1. v # sender[s].w /\ expires'[v] = expires[v]
    BY DEF Expire, GovInv, GovTypeOK
  <2>2. PICK t \in Senders : sender[t] = [at |-> "expire", w |-> v]
    BY <2>1 DEF GovInv, LimitsHold, CountersExpire
  <2>3. t # s
    BY <2>1, <2>2
  <2> QED
    BY <2>2, <2>3 DEF Expire, GovInv, GovTypeOK
<1> QED
  BY <1>1, <1>2, <1>3 DEF GovInv, LimitsHold

LEMMA WindowEndsKeeps ==
  ASSUME GovernorAssumption, GovInv, NEW w \in W, WindowEnds(w) PROVE GovInv'
<1>1. GovTypeOK'
  BY DEF GovInv, GovTypeOK, WindowEnds
<1>2. OvershootBounded'
  <2> SUFFICES ASSUME NEW v \in W
               PROVE  count'[v] + Cardinality(Pending(v)') <= Limit[v] - 1 + Cardinality(Senders)
    BY DEF OvershootBounded
  <2>1. Pending(v)' = Pending(v)
    BY DEF Pending, WindowEnds
  <2>2. count'[v] <= count[v] /\ count'[v] \in Nat /\ count[v] \in Nat /\ Limit[v] \in Nat
    BY DEF WindowEnds, GovInv, GovTypeOK, GovernorAssumption, W
  <2>3. count[v] + Cardinality(Pending(v)) <= Limit[v] - 1 + Cardinality(Senders)
    BY DEF GovInv, LimitsHold, OvershootBounded
  <2> QED
    BY <2>1, <2>2, <2>3, PendingFinite
<1>3. CountersExpire'
  BY DEF WindowEnds, GovInv, LimitsHold, CountersExpire, GovTypeOK
<1> QED
  BY <1>1, <1>2, <1>3 DEF GovInv, LimitsHold

LEMMA DiesKeeps == ASSUME GovernorAssumption, GovInv, Dies PROVE GovInv'
<1>1. GovTypeOK'
  BY DEF GovInv, GovTypeOK, Dies, GovPlaces, Idle
<1>2. OvershootBounded'
  <2> SUFFICES ASSUME NEW v \in W
               PROVE  count'[v] + Cardinality(Pending(v)') <= Limit[v] - 1 + Cardinality(Senders)
    BY DEF OvershootBounded
  <2>1. Pending(v)' = {}
    BY DEF Pending, Dies, Idle
  <2>2. Cardinality(Pending(v)') = 0
    BY <2>1, FS_EmptySet
  <2>3. count'[v] = count[v] /\ count[v] \in Nat /\ Limit[v] \in Nat
    BY DEF Dies, GovInv, GovTypeOK, GovernorAssumption, W
  <2>4. count[v] + Cardinality(Pending(v)) <= Limit[v] - 1 + Cardinality(Senders)
    BY DEF GovInv, LimitsHold, OvershootBounded
  <2> QED
    BY <2>2, <2>3, <2>4, PendingFinite
<1>3. CountersExpire'
  BY DEF Dies, GovInv, CountersExpire, GovTypeOK
<1> QED
  BY <1>1, <1>2, <1>3 DEF GovInv, LimitsHold

LEMMA GovKeeps == ASSUME GovernorAssumption, GovInv, [GovNext]_govVars PROVE GovInv'
<1>1. ASSUME NEW s \in Senders, Reserve(s) PROVE GovInv'
  BY <1>1, AskKeeps, CheckKeeps, IncrKeeps, ExpireKeeps DEF Reserve
<1>2. CASE UNCHANGED govVars
  BY <1>2 DEF GovInv, GovTypeOK, LimitsHold, OvershootBounded, Pending, CountersExpire, govVars
<1> QED
  BY <1>1, <1>2, WindowEndsKeeps, DiesKeeps DEF GovNext
-----------------------------------------------------------------------------
\* worker/health/governor.py:60-83: check_and_reserve reads all windows before it writes any, so
\* tasks get through together, but for any number of tasks and windows a counter never goes
\* further past its limit than the tasks that ask at once; and without a death a counter never
\* stays without a TTL once its maker is done.
THEOREM GovernorLimits == ASSUME GovernorAssumption PROVE GovSpec => [](GovTypeOK /\ LimitsHold)
<1>1. GovInit => GovInv
  BY GovStarts
<1>2. GovInv /\ [GovNext]_govVars => GovInv'
  BY GovKeeps
<1>3. GovInv => GovTypeOK /\ LimitsHold
  BY DEF GovInv
<1> QED
  BY <1>1, <1>2, <1>3, PTL DEF GovSpec

-----------------------------------------------------------------------------
(*************** CommentDelivery ***************)

\* An empty slot works on no message.
EmptyHasNoKey == \A s \in Slots : slot[s].at = "empty" => slot[s].key = <<>>

\* Where no comment has been sent for the task of a slot yet.
Unsent == {"generating", "scheduling", "governor", "sending", "defer"}

\* What keeps a message from a second answer as long as no task is run again: one claim, and
\* after it one task that holds the message, in the queue or in a slot.
OneTask(k) ==
    /\ ~claim[k] => sent[k] = 0 /\ due[k] = 0 /\ \A s \in Slots : slot[s].key # k
    /\ due[k] <= 1
    /\ due[k] > 0 => sent[k] = 0 /\ \A s \in Slots : slot[s].key # k
    /\ \A s, t \in Slots : slot[s].key = k /\ slot[t].key = k => s = t
    /\ \A s \in Slots : slot[s].key = k /\ slot[s].at \in Unsent => sent[k] = 0
    /\ sent[k] <= 1

\* A claimed message has its task or its end; an announced one may also wait for its claim.
Held(k) == due[k] > 0 \/ k \in over \/ \E s \in Slots : slot[s].key = k
Traced(k) == /\ claim[k] => Held(k)
             /\ told[k] > 0 => asked[k] > 0 \/ Held(k)

LoggedIsOver == \A s \in Slots : slot[s].at = "follow" => slot[s].key \in over

\* The mark of an account is not older than the slots it was given.
MarkIsLatest ==
    Pause > 0 => \A s \in Slots : slot[s].at = "sending" /\ linked[slot[s].key[1]] =>
                     slot[s].now <= mark[slot[s].key[1]]

DeliveryInv ==
    /\ DelTypeOK /\ EmptyHasNoKey /\ LoggedIsOver
    /\ harm = 0 => \A k \in Keys : OneTask(k) /\ Traced(k)
    /\ MarkIsLatest /\ PauseKept /\ LimitOvershoot
-----------------------------------------------------------------------------
\* What the three ways to change a slot do, field by field.

LEMMA KeyFacts ==
  /\ <<>> \notin Keys
  /\ \A k \in Keys : k[1] \in Owners
  /\ \A a \in Owners, m \in Messages : <<a, m>> \in Keys /\ <<a, m>>[1] = a
BY DEF Keys

LEMMA BeginFacts ==
  ASSUME DelTypeOK, NEW s \in Slots, NEW k \in Keys, NEW place \in SlotPlaces \ {"empty"},
         Begin(s, k, place)
  PROVE  /\ slot' \in [Slots -> [at: SlotPlaces, key: Keys \cup {<<>>}, now: Nat]]
         /\ slot'[s].at = place /\ slot'[s].key = k /\ slot'[s].now = clock
         /\ \A t \in Slots \ {s} : slot'[t] = slot[t]
BY DEF DelTypeOK, Begin

LEMMA GoFacts ==
  ASSUME DelTypeOK, NEW s \in Slots, NEW place \in SlotPlaces \ {"empty"}, Go(s, place)
  PROVE  /\ slot' \in [Slots -> [at: SlotPlaces, key: Keys \cup {<<>>}, now: Nat]]
         /\ slot'[s].at = place /\ slot'[s].key = slot[s].key /\ slot'[s].now = slot[s].now
         /\ \A t \in Slots \ {s} : slot'[t] = slot[t]
BY DEF DelTypeOK, Go

LEMMA EndFacts ==
  ASSUME DelTypeOK, NEW s \in Slots, End(s)
  PROVE  /\ slot' \in [Slots -> [at: SlotPlaces, key: Keys \cup {<<>>}, now: Nat]]
         /\ slot'[s].at = "empty" /\ slot'[s].key = <<>> /\ slot'[s].now = 0
         /\ \A t \in Slots \ {s} : slot'[t] = slot[t]
BY DEF DelTypeOK, End, Empty, SlotPlaces

LEMMA BumpFacts ==
  ASSUME NEW f \in [Keys -> Nat], NEW k \in Keys, NEW n \in {-1, 1}, f[k] + n \in Nat
  PROVE  /\ Bump(f, k, n) \in [Keys -> Nat]
         /\ Bump(f, k, n)[k] = f[k] + n
         /\ \A l \in Keys \ {k} : Bump(f, k, n)[l] = f[l]
BY DEF Bump

LEMMA BeingPostedFacts ==
  ASSUME DeliveryAssumption
  PROVE  /\ IsFiniteSet(BeingPosted) /\ Cardinality(BeingPosted) \in Nat
         /\ IsFiniteSet(Slots) /\ Cardinality(Slots) \in Nat
         /\ Cardinality(BeingPosted) <= Cardinality(Slots)
         /\ \A s \in Slots : Cardinality(BeingPosted \ {s}) =
                IF s \in BeingPosted THEN Cardinality(BeingPosted) - 1 ELSE Cardinality(BeingPosted)
         /\ \A P \in SUBSET BeingPosted : Cardinality(P) \in Nat /\ Cardinality(P) <= Cardinality(BeingPosted)
<1>1. BeingPosted \in SUBSET Slots
  BY DEF BeingPosted
<1>2. IsFiniteSet(Slots)
  BY DEF DeliveryAssumption
<1>3. IsFiniteSet(BeingPosted)
  BY <1>1, <1>2, FS_Subset
<1> QED
  BY <1>1, <1>2, <1>3, FS_Subset, FS_CardinalityType, FS_RemoveElement

LEMMA DeliveryInit == ASSUME DeliveryAssumption, DelInit PROVE DeliveryInv
<1> USE DEF DelInit
<1>1. DelTypeOK
  BY DEF DelTypeOK, DeliveryAssumption, Empty, SlotPlaces
<1>2. EmptyHasNoKey /\ LoggedIsOver
  BY DEF EmptyHasNoKey, LoggedIsOver, Empty
<1>3. \A k \in Keys : OneTask(k) /\ Traced(k)
  BY KeyFacts DEF OneTask, Traced, Empty
<1>4. MarkIsLatest /\ PauseKept
  BY DEF MarkIsLatest, PauseKept, Empty
<1>5. BeingPosted = {}
  BY DEF BeingPosted, Empty
<1>6. LimitOvershoot
  BY <1>5, FS_EmptySet, BeingPostedFacts DEF LimitOvershoot, DeliveryAssumption
<1> QED
  BY <1>1, <1>2, <1>3, <1>4, <1>6 DEF DeliveryInv
-----------------------------------------------------------------------------
\* A step that leaves the slots, the marks and the links alone keeps the pace.
LEMMA PaceUntouched ==
  ASSUME DeliveryInv, UNCHANGED <<slot, mark, linked, posted>>
  PROVE  EmptyHasNoKey' /\ MarkIsLatest' /\ PauseKept' /\ LimitOvershoot'
BY DEF DeliveryInv, EmptyHasNoKey, MarkIsLatest, PauseKept, LimitOvershoot, BeingPosted

LEMMA AnnounceKeeps ==
  ASSUME DeliveryAssumption, DeliveryInv, NEW k \in Keys, Announce(k) PROVE DeliveryInv'
<1> USE DEF Announce
<1>1. told[k] + 1 \in Nat /\ asked[k] + 1 \in Nat /\ told \in [Keys -> Nat] /\ asked \in [Keys -> Nat]
  BY DEF DeliveryInv, DelTypeOK
<1>2. DelTypeOK'
  BY <1>1, BumpFacts DEF DeliveryInv, DelTypeOK
<1>3. LoggedIsOver'
  BY DEF DeliveryInv, LoggedIsOver
<1>4. harm' = 0 => \A l \in Keys : OneTask(l)' /\ Traced(l)'
  BY <1>1, BumpFacts DEF DeliveryInv, OneTask, Traced, Held
<1> QED
  BY <1>2, <1>3, <1>4, PaceUntouched DEF DeliveryInv

\* What a step may do to one slot: only s changes, to a place where nothing is sent.
Elsewhere(s) == /\ \A t \in Slots \ {s} : slot'[t] = slot[t]
                /\ slot'[s].at # "sending"

LEMMA PauseUntouched ==
  ASSUME DeliveryInv, NEW s \in Slots, Elsewhere(s), UNCHANGED <<mark, linked>>
  PROVE  MarkIsLatest' /\ PauseKept'
BY DEF DeliveryInv, Elsewhere, MarkIsLatest, PauseKept

\* Fewer tasks under way, and no comment more.
LEMMA LimitUntouched ==
  ASSUME DeliveryAssumption, DeliveryInv, BeingPosted' \in SUBSET BeingPosted, posted' = posted
  PROVE  LimitOvershoot'
<1>1. posted \in Nat /\ MaxComments \in Nat
  BY DEF DeliveryInv, DelTypeOK, DeliveryAssumption
<1>2. posted + Cardinality(BeingPosted) <= MaxComments - 1 + Cardinality(Slots)
  BY DEF DeliveryInv, LimitOvershoot
<1>3. Cardinality(BeingPosted') \in Nat /\ Cardinality(BeingPosted') <= Cardinality(BeingPosted)
  BY BeingPostedFacts
<1> QED
  BY <1>1, <1>2, <1>3, BeingPostedFacts DEF LimitOvershoot

LEMMA TakeAskedKeeps ==
  ASSUME DeliveryAssumption, DeliveryInv, NEW s \in Slots, NEW k \in Keys, TakeAsked(s, k)
  PROVE  DeliveryInv'
<1> USE DEF TakeAsked
<1>1. asked \in [Keys -> Nat] /\ asked[k] - 1 \in Nat /\ claim \in [Keys -> BOOLEAN]
  BY DEF DeliveryInv, DelTypeOK
<1>2. /\ asked' \in [Keys -> Nat] /\ asked'[k] = asked[k] - 1
      /\ \A l \in Keys \ {k} : asked'[l] = asked[l]
  BY <1>1, BumpFacts
<1>3. CASE ~claim[k] /\ Claimed(s, k)
  <2>1. /\ claim' \in [Keys -> BOOLEAN] /\ claim'[k] /\ \A l \in Keys \ {k} : claim'[l] = claim[l]
    BY <1>1, <1>3 DEF Claimed
  <2>2. /\ slot' \in [Slots -> [at: SlotPlaces, key: Keys \cup {<<>>}, now: Nat]]
        /\ \A t \in Slots \ {s} : slot'[t] = slot[t]
        /\ \/ slot'[s].at = "empty" /\ slot'[s].key = <<>> /\ over' = over \cup {k}
           \/ slot'[s].at = "generating" /\ slot'[s].key = k /\ over' = over
    BY <1>3, EndFacts, BeginFacts DEF Claimed, DeliveryInv, SlotPlaces
  <2>3. DelTypeOK'
    BY ZenonT(30), <1>2, <2>1, <2>2 DEF DeliveryInv, DelTypeOK
  <2>4. EmptyHasNoKey' /\ LoggedIsOver'
    BY <2>2 DEF DeliveryInv, EmptyHasNoKey, LoggedIsOver
  <2>5. ASSUME harm' = 0, NEW l \in Keys PROVE OneTask(l)' /\ Traced(l)'
    <3>1. OneTask(l) /\ Traced(l) /\ slot[s].key = <<>>
      BY <2>5 DEF DeliveryInv, EmptyHasNoKey
    <3>2. OneTask(l)'
      BY <1>3, <2>1, <2>2, <3>1, KeyFacts DEF OneTask, Unsent
    <3>3. Traced(l)'
      BY <1>2, <2>1, <2>2, <3>1, KeyFacts DEF Traced, Held
    <3> QED BY <3>2, <3>3
  <2>6. MarkIsLatest' /\ PauseKept'
    BY <2>2, PauseUntouched DEF Elsewhere
  <2>7. BeingPosted' \in SUBSET BeingPosted
    BY <2>2 DEF BeingPosted
  <2> QED
    BY <2>3, <2>4, <2>5, <2>6, <2>7, LimitUntouched DEF DeliveryInv
<1>4. CASE claim' = claim /\ slot' = slot /\ over \subseteq over' /\ over' \subseteq over \cup {k}
           /\ (~claim[k] => k \in over')
  <2>1. DelTypeOK' /\ LoggedIsOver'
    BY <1>2, <1>4 DEF DeliveryInv, DelTypeOK, LoggedIsOver
  <2>2. ASSUME harm' = 0, NEW l \in Keys PROVE OneTask(l)' /\ Traced(l)'
    BY <1>2, <1>4, <2>2 DEF DeliveryInv, OneTask, Traced, Held
  <2> QED
    BY <1>4, <2>1, <2>2, PaceUntouched DEF DeliveryInv
<1> QED
  BY <1>3, <1>4

LEMMA GenerateKeeps ==
  ASSUME DeliveryAssumption, DeliveryInv, NEW s \in Slots, Generate(s) PROVE DeliveryInv'
<1> USE DEF Generate
<1>1. /\ slot' \in [Slots -> [at: SlotPlaces, key: Keys \cup {<<>>}, now: Nat]]
      /\ \A t \in Slots \ {s} : slot'[t] = slot[t]
      /\ \/ slot'[s].at = "scheduling" /\ slot'[s].key = slot[s].key /\ over' = over
         \/ slot'[s].at = "empty" /\ slot'[s].key = <<>> /\ over' = over \cup {slot[s].key}
  BY GoFacts, EndFacts DEF DeliveryInv, SlotPlaces
<1>2. slot[s].key \in Keys
  BY DEF DeliveryInv, DelTypeOK
<1>3. DelTypeOK'
  BY <1>1, <1>2 DEF DeliveryInv, DelTypeOK
<1>4. EmptyHasNoKey' /\ LoggedIsOver'
  BY <1>1 DEF DeliveryInv, EmptyHasNoKey, LoggedIsOver
<1>5. ASSUME harm' = 0, NEW l \in Keys PROVE OneTask(l)' /\ Traced(l)'
  <2>1. OneTask(l) /\ Traced(l)
    BY <1>5 DEF DeliveryInv
  <2>2. OneTask(l)'
    BY <1>1, <1>2, <2>1, KeyFacts DEF OneTask, Unsent
  <2>3. Traced(l)'
    BY <1>1, <1>2, <2>1, KeyFacts DEF Traced, Held
  <2> QED BY <2>2, <2>3
<1>6. MarkIsLatest' /\ PauseKept'
  BY <1>1, PauseUntouched DEF Elsewhere
<1>7. BeingPosted' \in SUBSET BeingPosted
  BY <1>1 DEF BeingPosted
<1> QED
  BY <1>3, <1>4, <1>5, <1>6, <1>7, LimitUntouched DEF DeliveryInv

\* on_channel_post schedules the comment, and a task turned away schedules itself.
LEMMA ScheduleKeeps ==
  ASSUME DeliveryAssumption, DeliveryInv, NEW s \in Slots, SchedulePost(s) \/ Defer(s)
  PROVE  DeliveryInv'
<1>0. /\ slot[s].at \in {"scheduling", "defer"} /\ End(s)
      /\ due' = Bump(due, slot[s].key, 1)
      /\ UNCHANGED <<told, asked, claim, mark, linked, clock, sent, posted, over, harm>>
  BY DEF SchedulePost, Defer
<1>1. /\ slot' \in [Slots -> [at: SlotPlaces, key: Keys \cup {<<>>}, now: Nat]]
      /\ \A t \in Slots \ {s} : slot'[t] = slot[t]
      /\ slot'[s].at = "empty" /\ slot'[s].key = <<>>
  BY <1>0, EndFacts DEF DeliveryInv
<1>2. slot[s].key \in Keys /\ slot[s].at \in Unsent
  BY <1>0 DEF DeliveryInv, DelTypeOK, Unsent
<1>3. /\ due' \in [Keys -> Nat] /\ due'[slot[s].key] = due[slot[s].key] + 1
      /\ \A l \in Keys \ {slot[s].key} : due'[l] = due[l]
  <2>1. due \in [Keys -> Nat] /\ due[slot[s].key] + 1 \in Nat
    BY <1>2 DEF DeliveryInv, DelTypeOK
  <2> QED BY <1>0, <1>2, <2>1, BumpFacts
<1>4. DelTypeOK'
  BY <1>0, <1>1, <1>3 DEF DeliveryInv, DelTypeOK
<1>5. EmptyHasNoKey' /\ LoggedIsOver'
  BY <1>0, <1>1 DEF DeliveryInv, EmptyHasNoKey, LoggedIsOver
<1>6. ASSUME harm' = 0, NEW l \in Keys PROVE OneTask(l)' /\ Traced(l)'
  <2>1. OneTask(l) /\ Traced(l) /\ due[l] \in Nat
    BY <1>0, <1>6 DEF DeliveryInv, DelTypeOK
  <2>2. OneTask(l)'
    <3>1. CASE l = slot[s].key
      <4>1. claim[l] /\ due[l] = 0 /\ sent[l] = 0
        BY <1>2, <2>1, <3>1 DEF OneTask
      <4>2. \A t \in Slots : slot'[t].key # l
        BY <1>1, <2>1, <3>1, KeyFacts DEF OneTask
      <4> QED BY <1>0, <1>3, <3>1, <4>1, <4>2 DEF OneTask
    <3>2. CASE l # slot[s].key
      <4>1. due'[l] = due[l] /\ sent' = sent /\ claim' = claim
        BY <1>0, <1>3, <3>2
      <4>2. \A t \in Slots : slot'[t].key = l => slot'[t] = slot[t]
        BY <1>1, KeyFacts
      <4> QED BY <4>1, <4>2, <2>1 DEF OneTask
    <3> QED BY <3>1, <3>2
  <2>3. Traced(l)'
    <3>1. CASE l = slot[s].key
      BY <1>3, <2>1, <3>1 DEF Traced, Held
    <3>2. CASE l # slot[s].key
      BY <1>0, <1>1, <1>3, <2>1, <3>2 DEF Traced, Held
    <3> QED BY <3>1, <3>2
  <2> QED BY <2>2, <2>3
<1>7. MarkIsLatest' /\ PauseKept'
  BY <1>0, <1>1, PauseUntouched DEF Elsewhere
<1>8. BeingPosted' \in SUBSET BeingPosted
  BY <1>0, <1>1 DEF BeingPosted
<1> QED
  BY <1>4, <1>5, <1>6, <1>7, <1>8, <1>0, LimitUntouched DEF DeliveryInv

LEMMA TakeDueKeeps ==
  ASSUME DeliveryAssumption, DeliveryInv, NEW s \in Slots, NEW k \in Keys, TakeDue(s, k)
  PROVE  DeliveryInv'
<1> USE DEF TakeDue
<1>1. due \in [Keys -> Nat] /\ due[k] - 1 \in Nat
  BY DEF DeliveryInv, DelTypeOK
<1>2. /\ due' \in [Keys -> Nat] /\ due'[k] = due[k] - 1
      /\ \A l \in Keys \ {k} : due'[l] = due[l]
  BY <1>1, BumpFacts
<1>3. CASE slot' = slot /\ over' = over \cup {k}
  <2>1. DelTypeOK' /\ LoggedIsOver'
    BY <1>2, <1>3 DEF DeliveryInv, DelTypeOK, LoggedIsOver
  <2>2. ASSUME harm' = 0, NEW l \in Keys PROVE OneTask(l)' /\ Traced(l)'
    <3>1. OneTask(l) /\ Traced(l) /\ due[l] \in Nat
      BY <2>2 DEF DeliveryInv, DelTypeOK
    <3> QED
      BY <1>2, <1>3, <3>1 DEF OneTask, Traced, Held
  <2> QED
    BY <1>3, <2>1, <2>2, PaceUntouched DEF DeliveryInv
<1>4. CASE /\ posted < MaxComments
           /\ Begin(s, k, IF Ready(k[1], clock) THEN "governor" ELSE "defer")
           /\ over' = over
  <2>1. /\ slot' \in [Slots -> [at: SlotPlaces, key: Keys \cup {<<>>}, now: Nat]]
        /\ \A t \in Slots \ {s} : slot'[t] = slot[t]
        /\ slot'[s].at \in {"governor", "defer"} /\ slot'[s].key = k
    BY <1>4, BeginFacts DEF DeliveryInv, SlotPlaces
  <2>2. DelTypeOK'
    BY <1>2, <1>4, <2>1 DEF DeliveryInv, DelTypeOK
  <2>3. EmptyHasNoKey' /\ LoggedIsOver'
    BY <1>4, <2>1 DEF DeliveryInv, EmptyHasNoKey, LoggedIsOver
  <2>4. ASSUME harm' = 0, NEW l \in Keys PROVE OneTask(l)' /\ Traced(l)'
    <3>1. OneTask(l) /\ Traced(l) /\ due[l] \in Nat /\ slot[s].key = <<>>
      BY <2>4 DEF DeliveryInv, DelTypeOK, EmptyHasNoKey
    <3>2. CASE l = k
      <4>1. due[l] = 1 /\ due'[l] = 0 /\ sent[l] = 0 /\ claim[l] /\ sent' = sent /\ claim' = claim
        BY <1>1, <1>2, <3>1, <3>2 DEF OneTask
      <4>2. \A t \in Slots : slot'[t].key = l => t = s
        BY <2>1, <3>1, <3>2, <4>1 DEF OneTask
      <4>3. OneTask(l)'
        BY <4>1, <4>2 DEF OneTask
      <4>4. Traced(l)'
        BY <2>1, <3>2 DEF Traced, Held
      <4> QED BY <4>3, <4>4
    <3>3. CASE l # k
      <4>1. due'[l] = due[l] /\ UNCHANGED <<told, asked, claim, sent>>
        BY <1>2, <3>3
      <4>2. \A t \in Slots : slot'[t].key = l <=> slot[t].key = l
        BY <2>1, <3>1, <3>3, KeyFacts
      <4>3. \A t \in Slots : slot'[t].key = l => slot'[t] = slot[t]
        BY <2>1, <3>3
      <4>4. OneTask(l)'
        BY <3>1, <4>1, <4>2, <4>3 DEF OneTask
      <4>5. Traced(l)'
        BY <1>4, <3>1, <4>1, <4>2 DEF Traced, Held
      <4> QED BY <4>4, <4>5
    <3> QED BY <3>2, <3>3
  <2>5. MarkIsLatest' /\ PauseKept'
    BY <2>1, PauseUntouched DEF Elsewhere
  <2>6. LimitOvershoot'
    <3>1. BeingPosted' \in SUBSET Slots
      BY DEF BeingPosted
    <3>2. Cardinality(BeingPosted') \in Nat /\ Cardinality(BeingPosted') <= Cardinality(Slots)
      BY <3>1, BeingPostedFacts, FS_Subset, FS_CardinalityType
    <3>3. posted \in Nat /\ MaxComments \in Nat
      BY DEF DeliveryInv, DelTypeOK, DeliveryAssumption
    <3> QED
      BY <1>4, <3>2, <3>3, BeingPostedFacts DEF LimitOvershoot
  <2> QED
    BY <2>2, <2>3, <2>4, <2>5, <2>6 DEF DeliveryInv
<1> QED
  BY <1>3, <1>4

LEMMA ClaimSlotKeeps ==
  ASSUME DeliveryAssumption, DeliveryInv, NEW s \in Slots, ClaimSlot(s) PROVE DeliveryInv'
<1> DEFINE a == slot[s].key[1]
<1> USE DEF ClaimSlot
<1>1. slot[s].key \in Keys /\ a \in Owners /\ mark \in [Owners -> Int] /\ slot[s].now \in Nat
  BY KeyFacts DEF DeliveryInv, DelTypeOK
<1>2. /\ slot' \in [Slots -> [at: SlotPlaces, key: Keys \cup {<<>>}, now: Nat]]
      /\ \A t \in Slots \ {s} : slot'[t] = slot[t]
      /\ slot'[s].at \in {"sending", "defer"}
      /\ slot'[s].key = slot[s].key /\ slot'[s].now = slot[s].now
  BY GoFacts DEF DeliveryInv, SlotPlaces
<1>3. mark' \in [Owners -> Int]
  BY <1>1
<1>4. DelTypeOK'
  BY <1>1, <1>2, <1>3 DEF DeliveryInv, DelTypeOK
<1>5. EmptyHasNoKey' /\ LoggedIsOver'
  BY <1>2 DEF DeliveryInv, EmptyHasNoKey, LoggedIsOver
<1>6. ASSUME harm' = 0, NEW l \in Keys PROVE OneTask(l)' /\ Traced(l)'
  <2>1. OneTask(l) /\ Traced(l)
    BY <1>6 DEF DeliveryInv
  <2>2. OneTask(l)'
    BY <1>2, <2>1 DEF OneTask, Unsent
  <2>3. Traced(l)'
    BY <1>2, <2>1 DEF Traced, Held
  <2> QED BY <2>2, <2>3
<1>7. MarkIsLatest' /\ PauseKept'
  <2>1. CASE slot'[s].at = "defer" /\ mark' = mark
    BY <1>2, <2>1, PauseUntouched DEF Elsewhere
  <2>2. CASE /\ slot'[s].at = "sending" /\ Ready(a, slot[s].now)
             /\ mark' = IF linked[a] THEN [mark EXCEPT ![a] = slot[s].now] ELSE mark
    <3>1. \A t \in Slots \ {s} : slot[t].at = "sending" => slot[t].key[1] \in Owners /\ slot[t].now \in Nat
      BY KeyFacts DEF DeliveryInv, DelTypeOK
    <3>2. \A b \in Owners : mark'[b] = IF linked[a] /\ b = a THEN slot[s].now ELSE mark[b]
      BY <1>1, <2>2
    <3>3. linked[a] /\ Pause > 0 =>
            \A t \in Slots \ {s} : slot[t].at = "sending" /\ slot[t].key[1] = a =>
                slot[t].now + Pause <= slot[s].now
      BY <1>1, <2>2, <3>1 DEF Ready, DeliveryInv, MarkIsLatest, DeliveryAssumption
    <3>4. MarkIsLatest'
      <4> SUFFICES ASSUME Pause > 0, NEW t \in Slots, slot'[t].at = "sending", linked[slot'[t].key[1]]
                   PROVE  slot'[t].now <= mark'[slot'[t].key[1]]
        BY <1>1, <1>2 DEF MarkIsLatest
      <4>1. CASE t = s
        BY <1>1, <1>2, <3>2, <4>1
      <4>2. CASE t # s
        <5>1. slot[t].at = "sending" /\ linked[slot[t].key[1]] /\ slot'[t] = slot[t]
          BY <1>2, <4>2
        <5>2. slot[t].now <= mark[slot[t].key[1]]
          BY <5>1 DEF DeliveryInv, MarkIsLatest
        <5>3. slot[t].key[1] = a => slot[t].now <= slot[s].now
          BY <1>1, <3>1, <3>3, <4>2, <5>1 DEF DeliveryAssumption
        <5> QED BY <3>1, <3>2, <4>2, <5>1, <5>2, <5>3
      <4> QED BY <4>1, <4>2
    <3>5. PauseKept'
      <4> SUFFICES ASSUME NEW t \in Slots, NEW u \in Slots, t # u, slot'[t].at = "sending",
                          slot'[u].at = "sending", slot'[t].key # <<>>, slot'[u].key # <<>>,
                          slot'[t].key[1] = slot'[u].key[1], linked[slot'[t].key[1]]
                   PROVE  \/ slot'[t].now - slot'[u].now >= Pause
                          \/ slot'[u].now - slot'[t].now >= Pause
        BY DEF PauseKept
      <4>1. CASE t # s /\ u # s
        BY <1>2, <4>1 DEF DeliveryInv, PauseKept
      <4>2. CASE Pause = 0
        BY <1>1, <1>2, <3>1, <4>2
      <4>3. CASE Pause > 0 /\ (t = s \/ u = s)
        <5>1. CASE t = s
          <6>1. slot[u].at = "sending" /\ slot[u].key[1] = a /\ slot'[u].now = slot[u].now /\ linked[a]
            BY <1>2, <5>1
          <6>2. slot[u].now + Pause <= slot[s].now
            BY <3>3, <4>3, <5>1, <6>1
          <6> QED BY <1>1, <1>2, <3>1, <5>1, <6>1, <6>2 DEF DeliveryAssumption
        <5>2. CASE u = s
          <6>1. slot[t].at = "sending" /\ slot[t].key[1] = a /\ slot'[t].now = slot[t].now /\ linked[a]
            BY <1>2, <5>2
          <6>2. slot[t].now + Pause <= slot[s].now
            BY <3>3, <4>3, <5>2, <6>1
          <6> QED BY <1>1, <1>2, <3>1, <5>2, <6>1, <6>2 DEF DeliveryAssumption
        <5> QED BY <4>3, <5>1, <5>2
      <4> QED
        BY <4>1, <4>2, <4>3 DEF DeliveryAssumption
    <3> QED BY <3>4, <3>5
  <2> QED
    BY <2>1, <2>2, GoFacts DEF DeliveryInv, SlotPlaces
<1>8. BeingPosted' \in SUBSET BeingPosted
  BY <1>2 DEF BeingPosted
<1> QED
  BY <1>4, <1>5, <1>6, <1>7, <1>8, LimitUntouched DEF DeliveryInv

LEMMA SendKeeps ==
  ASSUME DeliveryAssumption, DeliveryInv, NEW s \in Slots, Send(s) \/ SendFails(s)
  PROVE  DeliveryInv'
<1> USE DEF Send, SendFails
<1>1. slot[s].key \in Keys /\ slot[s].at \in Unsent
  BY DEF DeliveryInv, DelTypeOK, Unsent
<1>2. /\ slot' \in [Slots -> [at: SlotPlaces, key: Keys \cup {<<>>}, now: Nat]]
      /\ \A t \in Slots \ {s} : slot'[t] = slot[t]
      /\ \/ slot'[s].at = "log" /\ slot'[s].key = slot[s].key /\ over' = over
         \/ slot'[s].at = "empty" /\ slot'[s].key = <<>> /\ over' = over \cup {slot[s].key}
  BY GoFacts, EndFacts DEF DeliveryInv, SlotPlaces
<1>3. /\ sent' \in [Keys -> Nat] /\ sent'[slot[s].key] \in {sent[slot[s].key], sent[slot[s].key] + 1}
      /\ \A l \in Keys \ {slot[s].key} : sent'[l] = sent[l]
  <2>1. sent \in [Keys -> Nat] /\ sent[slot[s].key] + 1 \in Nat
    BY <1>1 DEF DeliveryInv, DelTypeOK
  <2>2. sent' = sent \/ sent' = Bump(sent, slot[s].key, 1)
    OBVIOUS
  <2>3. CASE sent' = sent
    BY <2>1, <2>3
  <2>4. CASE sent' = Bump(sent, slot[s].key, 1)
    BY <1>1, <2>1, <2>4, BumpFacts
  <2> QED BY <2>2, <2>3, <2>4
<1>4. DelTypeOK'
  BY <1>1, <1>2, <1>3 DEF DeliveryInv, DelTypeOK
<1>5. EmptyHasNoKey' /\ LoggedIsOver'
  BY <1>2 DEF DeliveryInv, EmptyHasNoKey, LoggedIsOver
<1>6. ASSUME harm' = 0, NEW l \in Keys PROVE OneTask(l)' /\ Traced(l)'
  <2>1. OneTask(l) /\ Traced(l) /\ due[l] \in Nat
    BY <1>6 DEF DeliveryInv, DelTypeOK
  <2>2. OneTask(l)'
    <3>1. CASE l = slot[s].key
      <4>1. claim[l] /\ due[l] = 0 /\ sent[l] = 0
        BY <1>1, <2>1, <3>1 DEF OneTask
      <4>2. \A t \in Slots : slot'[t].key = l => t = s /\ slot'[t].at \notin Unsent
        BY <1>2, <2>1, <3>1, KeyFacts DEF OneTask, Unsent
      <4> QED BY <1>3, <3>1, <4>1, <4>2 DEF OneTask
    <3>2. CASE l # slot[s].key
      <4>1. sent'[l] = sent[l] /\ UNCHANGED <<claim, due>>
        BY <1>3, <3>2
      <4>2. \A t \in Slots : slot'[t].key = l => slot'[t] = slot[t]
        BY <1>2, <3>2, KeyFacts
      <4> QED BY <2>1, <4>1, <4>2 DEF OneTask
    <3> QED BY <3>1, <3>2
  <2>3. Traced(l)'
    BY <1>1, <1>2, <2>1, KeyFacts DEF Traced, Held
  <2> QED BY <2>2, <2>3
<1>7. MarkIsLatest' /\ PauseKept'
  BY <1>2, PauseUntouched DEF Elsewhere
<1>8. BeingPosted' \in SUBSET BeingPosted
  BY <1>2 DEF BeingPosted
<1> QED
  BY <1>4, <1>5, <1>6, <1>7, <1>8, LimitUntouched DEF DeliveryInv

LEMMA LogKeeps ==
  ASSUME DeliveryAssumption, DeliveryInv, NEW s \in Slots, Log(s) PROVE DeliveryInv'
<1> USE DEF Log
<1>1. slot[s].key \in Keys /\ posted \in Nat /\ MaxComments \in Nat
  BY DEF DeliveryInv, DelTypeOK, DeliveryAssumption
<1>2. /\ slot' \in [Slots -> [at: SlotPlaces, key: Keys \cup {<<>>}, now: Nat]]
      /\ \A t \in Slots \ {s} : slot'[t] = slot[t]
      /\ slot'[s].at = "follow" /\ slot'[s].key = slot[s].key
  BY GoFacts DEF DeliveryInv, SlotPlaces
<1>3. DelTypeOK'
  <2>1. posted' \in Nat /\ over' \subseteq Keys
    BY <1>1 DEF DeliveryInv, DelTypeOK
  <2> QED
    BY <1>1, <1>2, <2>1 DEF DeliveryInv, DelTypeOK
<1>4. EmptyHasNoKey' /\ LoggedIsOver'
  BY <1>2 DEF DeliveryInv, EmptyHasNoKey, LoggedIsOver
<1>5. ASSUME harm' = 0, NEW l \in Keys PROVE OneTask(l)' /\ Traced(l)'
  <2>1. OneTask(l) /\ Traced(l)
    BY <1>5 DEF DeliveryInv
  <2>2. OneTask(l)'
    BY <1>2, <2>1 DEF OneTask, Unsent
  <2>3. Traced(l)'
    BY <1>2, <2>1 DEF Traced, Held
  <2> QED BY <2>2, <2>3
<1>6. MarkIsLatest' /\ PauseKept'
  BY <1>2, PauseUntouched DEF Elsewhere
<1>7. LimitOvershoot'
  <2>1. BeingPosted' = BeingPosted \ {s} /\ s \in BeingPosted
    BY <1>2 DEF BeingPosted
  <2>2. Cardinality(BeingPosted') = Cardinality(BeingPosted) - 1
    BY <2>1, BeingPostedFacts
  <2>3. posted + Cardinality(BeingPosted) <= MaxComments - 1 + Cardinality(Slots)
    BY DEF DeliveryInv, LimitOvershoot
  <2> QED
    BY <1>1, <2>2, <2>3, BeingPostedFacts DEF LimitOvershoot
<1> QED
  BY <1>3, <1>4, <1>5, <1>6, <1>7 DEF DeliveryInv

LEMMA FollowKeeps ==
  ASSUME DeliveryAssumption, DeliveryInv, NEW s \in Slots, Follow(s) PROVE DeliveryInv'
<1> USE DEF Follow
<1>1. slot[s].key \in over /\ slot[s].key \in Keys
  BY DEF DeliveryInv, DelTypeOK, LoggedIsOver
<1>2. /\ slot' \in [Slots -> [at: SlotPlaces, key: Keys \cup {<<>>}, now: Nat]]
      /\ \A t \in Slots \ {s} : slot'[t] = slot[t]
      /\ slot'[s].at = "empty" /\ slot'[s].key = <<>>
  BY EndFacts DEF DeliveryInv
<1>3. told \in [Keys -> Nat] /\ asked \in [Keys -> Nat]
  BY DEF DeliveryInv, DelTypeOK
<1>4. /\ told' \in [Keys -> Nat] /\ asked' \in [Keys -> Nat]
      /\ \A l \in Keys : \/ told'[l] = told[l] /\ asked'[l] = asked[l]
                         \/ asked'[l] > 0
  <2>1. CASE UNCHANGED <<told, asked>>
    BY <1>3, <2>1
  <2>2. CASE \E m \in Messages \ Posts :
                 LET k == <<slot[s].key[1], m>> IN
                 told' = Bump(told, k, 1) /\ asked' = Bump(asked, k, 1)
    <3>1. PICK m \in Messages \ Posts : /\ told' = Bump(told, <<slot[s].key[1], m>>, 1)
                                        /\ asked' = Bump(asked, <<slot[s].key[1], m>>, 1)
      BY <2>2
    <3>2. <<slot[s].key[1], m>> \in Keys
      BY <1>1, KeyFacts
    <3>3. told[<<slot[s].key[1], m>>] + 1 \in Nat /\ asked[<<slot[s].key[1], m>>] + 1 \in Nat
      BY <1>3, <3>2
    <3> DEFINE k == <<slot[s].key[1], m>>
    <3>a. /\ k \in Keys /\ told[k] + 1 \in Nat /\ asked[k] + 1 \in Nat
          /\ told' = Bump(told, k, 1) /\ asked' = Bump(asked, k, 1)
      BY <3>1, <3>2, <3>3
    <3> HIDE DEF k
    <3>4. /\ told' \in [Keys -> Nat] /\ told'[k] = told[k] + 1
          /\ \A l \in Keys \ {k} : told'[l] = told[l]
      BY <1>3, <3>a, BumpFacts
    <3>5. /\ asked' \in [Keys -> Nat] /\ asked'[k] = asked[k] + 1 /\ asked[k] \in Nat
          /\ \A l \in Keys \ {k} : asked'[l] = asked[l]
      BY <1>3, <3>a, BumpFacts
    <3> QED
      BY <3>4, <3>5
  <2> QED BY <2>1, <2>2
<1>5. DelTypeOK'
  BY <1>2, <1>4 DEF DeliveryInv, DelTypeOK
<1>6. EmptyHasNoKey' /\ LoggedIsOver'
  BY <1>2 DEF DeliveryInv, EmptyHasNoKey, LoggedIsOver
<1>7. ASSUME harm' = 0, NEW l \in Keys PROVE OneTask(l)' /\ Traced(l)'
  <2>1. OneTask(l) /\ Traced(l)
    BY <1>7 DEF DeliveryInv
  <2>2. OneTask(l)'
    BY <1>2, <2>1, KeyFacts DEF OneTask, Unsent
  <2>3. Held(l) => Held(l)'
    BY <1>1, <1>2, KeyFacts DEF Held
  <2>4. told'[l] > 0 => asked'[l] > 0 \/ (told[l] > 0 /\ asked'[l] = asked[l])
    BY <1>4
  <2>5. Traced(l)'
    BY <2>1, <2>3, <2>4 DEF Traced
  <2> QED BY <2>2, <2>5
<1>8. MarkIsLatest' /\ PauseKept'
  BY <1>2, PauseUntouched DEF Elsewhere
<1>9. BeingPosted' \in SUBSET BeingPosted
  BY <1>2 DEF BeingPosted
<1> QED
  BY <1>5, <1>6, <1>7, <1>8, <1>9, LimitUntouched DEF DeliveryInv

\* The clock, a detached account, a lost claim.
LEMMA OutsideKeeps ==
  ASSUME DeliveryAssumption, DeliveryInv,
         Tick \/ (\E a \in Owners : Unlink(a)) \/ (\E k \in Keys : ClaimLost(k))
  PROVE  DeliveryInv'
<1>1. CASE Tick
  <2>1. DelTypeOK' /\ LoggedIsOver'
    BY <1>1 DEF Tick, DeliveryInv, DelTypeOK, LoggedIsOver
  <2>2. harm' = 0 => \A k \in Keys : OneTask(k)' /\ Traced(k)'
    BY <1>1 DEF Tick, DeliveryInv, OneTask, Traced, Held
  <2> QED
    BY <1>1, <2>1, <2>2, PaceUntouched DEF Tick, DeliveryInv
<1>2. ASSUME NEW a \in Owners, Unlink(a) PROVE DeliveryInv'
  <2> USE <1>2 DEF Unlink
  <2>1. linked' \in [Owners -> BOOLEAN] /\ \A b \in Owners : linked'[b] => linked[b]
    BY DEF DeliveryInv, DelTypeOK
  <2>2. DelTypeOK' /\ LoggedIsOver' /\ EmptyHasNoKey'
    BY <2>1 DEF DeliveryInv, DelTypeOK, LoggedIsOver, EmptyHasNoKey
  <2>3. harm' = 0 => \A k \in Keys : OneTask(k)' /\ Traced(k)'
    BY DEF DeliveryInv, OneTask, Traced, Held
  <2>4. \A s \in Slots : slot[s].at = "sending" => slot[s].key[1] \in Owners
    BY KeyFacts DEF DeliveryInv, DelTypeOK
  <2>5. MarkIsLatest' /\ PauseKept'
    BY <2>1, <2>4 DEF DeliveryInv, MarkIsLatest, PauseKept
  <2>6. BeingPosted' \in SUBSET BeingPosted
    BY DEF BeingPosted
  <2> QED
    BY <2>2, <2>3, <2>5, <2>6, LimitUntouched DEF DeliveryInv
<1>3. ASSUME NEW k \in Keys, ClaimLost(k) PROVE DeliveryInv'
  <2> USE <1>3 DEF ClaimLost
  <2>1. claim' \in [Keys -> BOOLEAN] /\ harm' \in Nat /\ harm' # 0
    BY DEF DeliveryInv, DelTypeOK
  <2>2. DelTypeOK' /\ LoggedIsOver'
    BY <2>1 DEF DeliveryInv, DelTypeOK, LoggedIsOver
  <2> QED
    BY <2>1, <2>2, PaceUntouched DEF DeliveryInv
<1> QED
  BY <1>1, <1>2, <1>3

\* A task raises, or the worker restarts with all of them.
LEMMA RunAgainKeeps ==
  ASSUME DeliveryAssumption, DeliveryInv, NEW S \in SUBSET Slots, RunAgain(S) PROVE DeliveryInv'
<1> DEFINE at(k, places) == Cardinality({s \in S : slot[s].key = k /\ slot[s].at \in places})
<1>1. \A k, places : at(k, places) \in Nat
  <2> SUFFICES ASSUME NEW k, NEW places PROVE at(k, places) \in Nat
    OBVIOUS
  <2>1. {s \in S : slot[s].key = k /\ slot[s].at \in places} \in SUBSET Slots
    OBVIOUS
  <2> QED
    BY <2>1, BeingPostedFacts, FS_Subset, FS_CardinalityType
<1>2. /\ asked' = [k \in Keys |-> asked[k] + at(k, {"generating", "scheduling"})]
      /\ due' = [k \in Keys |-> due[k] + at(k, PostPlaces)]
      /\ slot' = [s \in Slots |-> IF s \in S THEN Empty ELSE slot[s]]
      /\ harm' = harm + 1
      /\ UNCHANGED <<told, claim, mark, linked, clock, sent, posted, over>>
  BY DEF RunAgain
<1> HIDE DEF at
<1>3. asked' \in [Keys -> Nat] /\ due' \in [Keys -> Nat] /\ harm' \in Nat /\ harm' # 0
  BY <1>1, <1>2 DEF DeliveryInv, DelTypeOK
<1>4. /\ slot' \in [Slots -> [at: SlotPlaces, key: Keys \cup {<<>>}, now: Nat]]
      /\ \A s \in Slots : slot'[s] = slot[s] \/ (slot'[s].at = "empty" /\ slot'[s].key = <<>>)
  <2>1. Empty \in [at: SlotPlaces, key: Keys \cup {<<>>}, now: Nat]
    BY DEF Empty, SlotPlaces
  <2>2. slot \in [Slots -> [at: SlotPlaces, key: Keys \cup {<<>>}, now: Nat]]
    BY DEF DeliveryInv, DelTypeOK
  <2>3. Empty.at = "empty" /\ Empty.key = <<>>
    BY DEF Empty
  <2>4. \A s \in Slots : slot'[s] = slot[s] \/ slot'[s] = Empty
    BY <1>2
  <2>5. slot' \in [Slots -> [at: SlotPlaces, key: Keys \cup {<<>>}, now: Nat]]
    BY <1>2, <2>1, <2>2
  <2>6. ASSUME NEW s \in Slots
        PROVE  slot'[s] = slot[s] \/ (slot'[s].at = "empty" /\ slot'[s].key = <<>>)
    <3>1. slot'[s] = slot[s] \/ slot'[s] = Empty
      BY <2>4
    <3> QED BY <2>3, <3>1
  <2> QED
    BY <2>5, <2>6
<1>5. DelTypeOK'
  BY <1>2, <1>3, <1>4 DEF DeliveryInv, DelTypeOK
<1>6. EmptyHasNoKey' /\ LoggedIsOver'
  BY <1>2, <1>4 DEF DeliveryInv, EmptyHasNoKey, LoggedIsOver
<1>7. MarkIsLatest' /\ PauseKept'
  BY <1>2, <1>4 DEF DeliveryInv, MarkIsLatest, PauseKept
<1>8. BeingPosted' \in SUBSET BeingPosted
  BY <1>4 DEF BeingPosted
<1> QED
  BY <1>2, <1>3, <1>5, <1>6, <1>7, <1>8, LimitUntouched DEF DeliveryInv

LEMMA DeliveryKeeps == ASSUME DeliveryAssumption, DeliveryInv, [DelNext]_delVars PROVE DeliveryInv'
<1>1. ASSUME NEW s \in Slots, Work(s) PROVE DeliveryInv'
  BY <1>1, GenerateKeeps, ScheduleKeeps, ClaimSlotKeeps, SendKeeps, LogKeeps, FollowKeeps,
     TakeAskedKeeps, TakeDueKeeps, RunAgainKeeps DEF Work, Raises
<1>2. CASE UNCHANGED delVars
  <2>1. DelTypeOK' /\ LoggedIsOver'
    BY <1>2 DEF delVars, DeliveryInv, DelTypeOK, LoggedIsOver
  <2>2. harm' = 0 => \A k \in Keys : OneTask(k)' /\ Traced(k)'
    BY <1>2 DEF delVars, DeliveryInv, OneTask, Traced, Held
  <2> QED
    BY <1>2, <2>1, <2>2, PaceUntouched DEF delVars, DeliveryInv
<1> QED
  BY <1>1, <1>2, AnnounceKeeps, OutsideKeeps, RunAgainKeeps DEF DelNext, WorkerRestarts

LEMMA DeliveryHolds ==
  ASSUME DeliveryInv PROVE OneCommentPerMessage /\ NothingDropped /\ PaceKept
BY DEF DeliveryInv, OneTask, Traced, Held, OneCommentPerMessage, NothingDropped, PaceKept
-----------------------------------------------------------------------------
\* modules/commenting/worker/runner.py, limits.py: for any accounts, messages, tasks at once and
\* any limits, without a rerun or a lost claim an account answers a message at most once and no
\* announced message disappears without its end being shown; and whatever happens, comments of
\* one account keep the pause, and max_comments is exceeded by fewer than the tasks at once.
THEOREM CommentsInPace ==
  ASSUME DeliveryAssumption
  PROVE  DelSpec => [](DelTypeOK /\ OneCommentPerMessage /\ NothingDropped /\ PaceKept)
<1>1. DelInit => DeliveryInv
  BY DeliveryInit
<1>2. DeliveryInv /\ [DelNext]_delVars => DeliveryInv'
  BY DeliveryKeeps
<1>3. DeliveryInv => DelTypeOK /\ OneCommentPerMessage /\ NothingDropped /\ PaceKept
  BY DeliveryHolds DEF DeliveryInv
<1> QED
  BY <1>1, <1>2, <1>3, PTL DEF DelSpec

-----------------------------------------------------------------------------
(*************** Priming ***************)

\* A pair that is enqueued or about to be, and one that some task still has.
Waiting(p) == p \in primes \/ \E l \in Loops : p \in loop[l].pair
Taken(p) == Waiting(p) \/ p \in running

\* An attachment has one pair at most, made while it was `working` below its ramp limit, and
\* keeps it for as long as it exists; a new attachment is told apart by its id.
LinksOK ==
    /\ \A a \in Primers : /\ link[a].id = 0 <=> link[a].state = "none"
                          /\ link[a].id <= linked_
    /\ \A a, b \in Primers : link[a].id = link[b].id /\ link[a].id # 0 => a = b
    /\ \A p \in Pairs : Taken(p) =>
          /\ p.id <= linked_
          /\ \A a \in Primers : link[a].id = p.id =>
                a = p.acct /\ link[a].state = "working" /\ link[a].today < RampLimit
    /\ \A p, q \in Pairs : Taken(p) /\ Taken(q) /\ p.id = q.id => p = q

\* A target has one pair at most, and nobody has started on it before its pair starts.
GoalsOK ==
    /\ \A p \in Pairs : Taken(p) => goal[p.goal] \notin {"absent", "pending"}
    /\ \A p, q \in Pairs : Taken(p) /\ Taken(q) /\ p.goal = q.goal => p = q
    /\ \A p \in Pairs : Waiting(p) => runs[p.goal] = 0 /\ p \notin running
    /\ \A t \in Goals : goal[t] \in {"absent", "pending"} => runs[t] = 0
    /\ \A t \in Goals : runs[t] <= 1

\* No pair is in two places.
LoopsOK ==
    /\ \A l \in Loops : loop[l].at # "enqueue" => loop[l].pair = {}
    /\ \A l \in Loops : \A p \in loop[l].pair : p \notin primes
    /\ \A l, m \in Loops : \A p \in loop[l].pair : p \in loop[m].pair => l = m

\* TakenHasTask, with the pairs that are anywhere.
Accounted ==
    faults = 0 =>
        /\ \A a \in Primers : link[a].state = "working" =>
              link[a].id \in jammed \/ \E p \in Pairs : Taken(p) /\ p.acct = a /\ p.id = link[a].id
        /\ \A t \in Goals : goal[t] = "assigned" =>
              t \in left \/ \E p \in Pairs : Taken(p) /\ p.goal = t

PrimeInv == PrimeTypeOK /\ LinksOK /\ GoalsOK /\ LoopsOK /\ RunningHasTick /\ Accounted
-----------------------------------------------------------------------------
LEMMA GivenIsTaken ==
  ASSUME PrimeTypeOK
  PROVE  \A p : (p \in Given <=> Taken(p)) /\ (Taken(p) => p \in Pairs)
BY DEF PrimeTypeOK, Given, Taken, Waiting

\* The pair is made for the target imported first.
LEMMA FirstGoalIsPending ==
  ASSUME PrimingAssumption, PendingGoals # {}
  PROVE  FirstGoal \in Goals /\ goal[FirstGoal] = "pending"
<1> DEFINE UpTo(n) == {m \in Goals : m <= n}
           Below == {UpTo(n) : n \in PendingGoals}
<1>1. Goals \subseteq Nat /\ PendingGoals \subseteq Goals /\ IsFiniteSet(Goals)
  BY DEF PrimingAssumption, PendingGoals
<1>2. IsWellFoundedOn(StrictSubsetOrdering(Goals), FiniteSubsetsOf(Goals))
  BY FS_StrictSubsetOrderingWellFounded
<1>3. Below \subseteq FiniteSubsetsOf(Goals)
  <2>1. \A D \in SUBSET Goals : D \in FiniteSubsetsOf(Goals)
    BY <1>1, FS_Subset DEF FiniteSubsetsOf
  <2>2. \A n : UpTo(n) \in SUBSET Goals
    OBVIOUS
  <2> QED
    BY <2>1, <2>2
<1>4. Below # {}
  OBVIOUS
<1>5. PICK l \in Below : \A b \in Below : ~ (<<b, l>> \in StrictSubsetOrdering(Goals))
  <2> HIDE DEF Below
  <2> QED
    BY <1>2, <1>3, <1>4, WFMin
<1>6. PICK t \in PendingGoals : l = UpTo(t)
  OBVIOUS
<1>7. ASSUME NEW u \in PendingGoals, u < t PROVE FALSE
  <2>1. UpTo(u) \in Below /\ UpTo(u) \in SUBSET Goals /\ UpTo(t) \in SUBSET Goals
    OBVIOUS
  <2>2. t \in UpTo(t) /\ t \notin UpTo(u) /\ UpTo(u) \subseteq UpTo(t)
    <3>1. u \in Goals /\ t \in Goals /\ u \in Nat /\ t \in Nat
      BY <1>1
    <3>2. \A m \in Goals : m \in Nat
      BY <1>1
    <3>3. t \in UpTo(t) /\ t \notin UpTo(u)
      BY <1>7, <3>1
    <3>4. \A m \in UpTo(u) : m \in UpTo(t)
      BY <1>7, <3>1, <3>2
    <3> QED BY <3>3, <3>4
  <2> QED
    BY <1>5, <1>6, <2>1, <2>2 DEF StrictSubsetOrdering
<1>8. \A u \in PendingGoals : t <= u
  BY <1>1, <1>7
<1>9. FirstGoal \in PendingGoals
  BY <1>6, <1>8 DEF FirstGoal
<1> QED
  BY <1>9 DEF PendingGoals

LEMMA PrimingInit == ASSUME PrimingAssumption, PrimeInit PROVE PrimeInv
<1> USE DEF PrimeInit
<1>1. PrimeTypeOK
  BY DEF PrimeTypeOK, PrimingAssumption, CampaignStates, Detached, LinkStates, GoalStates, AtRest,
         LoopPlaces
<1>2. \A p : ~ Taken(p)
  BY DEF Taken, Waiting, AtRest
<1>3. LinksOK
  BY <1>2 DEF LinksOK, Detached
<1>4. GoalsOK
  BY <1>2 DEF GoalsOK, Taken
<1>5. LoopsOK
  BY DEF LoopsOK, AtRest
<1>6. RunningHasTick /\ Accounted
  BY DEF RunningHasTick, Accounted, Detached
<1> QED
  BY <1>1, <1>3, <1>4, <1>5, <1>6 DEF PrimeInv
-----------------------------------------------------------------------------
\* Steps that move no pair.
SamePairs == \A p : (Waiting(p)' <=> Waiting(p)) /\ (p \in running' <=> p \in running)

LEMMA SameTables ==
  ASSUME PrimeInv, SamePairs, UNCHANGED <<link, linked_>> PROVE LinksOK'
BY DEF PrimeInv, LinksOK, SamePairs, Taken

LEMMA SameGoals ==
  ASSUME PrimeInv, SamePairs, UNCHANGED <<goal, runs>> PROVE GoalsOK'
BY DEF PrimeInv, GoalsOK, SamePairs, Taken

LEMMA SameLoops ==
  ASSUME PrimeInv, UNCHANGED <<primes, loop>> PROVE LoopsOK'
BY DEF PrimeInv, LoopsOK

LEMMA SameTasks ==
  ASSUME PrimeInv, SamePairs, UNCHANGED <<link, goal, left, jammed, faults>> PROVE Accounted'
BY DEF PrimeInv, Accounted, SamePairs, Taken

LEMMA ApiKeeps ==
  ASSUME PrimingAssumption, PrimeInv,
         (\E request \in {"start", "pause", "resume", "stop"} : Call(request)) \/ CommitCall
            \/ FirstTick \/ CallLost \/ SpinEnds
  PROVE  PrimeInv'
<1> USE DEF Call, CommitCall, FirstTick, CallLost, SpinEnds, tables, queue, worker, ghosts
<1>1. UNCHANGED <<link, goal, loop, primes, running, runs, left, jammed, linked_>>
  OBVIOUS
<1>2. PrimeTypeOK'
  <2>1. campaign' \in CampaignStates /\ api' \in {"none", "start", "pause", "resume", "stop", "enqueue"}
    BY DEF PrimeInv, PrimeTypeOK, CampaignStates
  <2>2. ticks' \in 0..MaxTicks /\ faults' \in Nat /\ hung' \in Primers \cup {NoOne}
    BY DEF PrimeInv, PrimeTypeOK, PrimingAssumption
  <2> QED
    BY <1>1, <2>1, <2>2 DEF PrimeInv, PrimeTypeOK
<1>3. SamePairs
  BY <1>1 DEF SamePairs, Waiting
<1>4. LinksOK' /\ GoalsOK' /\ LoopsOK'
  BY <1>1, <1>3, SameTables, SameGoals, SameLoops
<1>5. RunningHasTick'
  BY DEF PrimeInv, PrimeTypeOK, RunningHasTick
<1>6. Accounted'
  <2>1. CASE faults' = faults
    BY <1>1, <1>3, <2>1, SameTasks
  <2>2. CASE faults' # 0
    BY <2>2 DEF Accounted
  <2> QED
    BY <2>1, <2>2 DEF PrimeInv, PrimeTypeOK
<1> QED
  BY <1>2, <1>4, <1>5, <1>6 DEF PrimeInv

LEMMA AttachKeeps ==
  ASSUME PrimingAssumption, PrimeInv, NEW a \in Primers, Attach(a) PROVE PrimeInv'
<1> USE DEF Attach, queue, worker
<1>1. /\ linked_' = linked_ + 1 /\ linked_ \in Nat /\ linked_' \in 0..MaxLinks
      /\ link'[a].id = linked_' /\ link'[a].state = "idle"
      /\ \A b \in Primers \ {a} : link'[b] = link[b]
  BY DEF PrimeInv, PrimeTypeOK, PrimingAssumption
<1>2. link'[a] \in [id: 0..MaxLinks, state: LinkStates, today: 0..DailyLimit, floods: Nat]
  <2>1. Detached \in [id: 0..MaxLinks, state: LinkStates, today: 0..DailyLimit, floods: Nat]
    BY DEF PrimingAssumption, Detached, LinkStates
  <2>2. link'[a] = [Detached EXCEPT !.id = linked_', !.state = "idle"]
    BY <1>1 DEF PrimeInv, PrimeTypeOK
  <2>3. linked_' \in 0..MaxLinks /\ "idle" \in LinkStates
    BY <1>1 DEF LinkStates
  <2> HIDE DEF Attach
  <2> QED
    BY <2>1, <2>2, <2>3
<1>3. PrimeTypeOK'
  BY <1>1, <1>2 DEF PrimeInv, PrimeTypeOK
<1>4. SamePairs
  BY DEF SamePairs, Waiting
<1>5. LinksOK'
  <2>1. LinksOK /\ \A b \in Primers : link[b].id \in Nat /\ link[b].id <= linked_
    BY DEF PrimeInv, LinksOK, PrimeTypeOK
  <2>2. \A p \in Pairs : Taken(p)' <=> Taken(p)
    BY <1>4 DEF SamePairs, Taken
  <2>3. \A p \in Pairs : Taken(p) => p.id \in Nat /\ p.id <= linked_
    BY <2>1 DEF LinksOK, Pairs
  <2> HIDE DEF Attach
  <2>4. /\ \A b \in Primers : /\ link'[b].id = 0 <=> link'[b].state = "none"
                              /\ link'[b].id <= linked_'
        /\ \A b, c \in Primers : link'[b].id = link'[c].id /\ link'[b].id # 0 => b = c
    BY <1>1, <2>1 DEF LinksOK
  <2>5. ASSUME NEW p \in Pairs, Taken(p)
        PROVE  /\ p.id <= linked_'
               /\ \A b \in Primers : link'[b].id = p.id =>
                     b = p.acct /\ link'[b].state = "working" /\ link'[b].today < RampLimit
    BY <1>1, <2>1, <2>3, <2>5 DEF LinksOK
  <2>6. \A p, q \in Pairs : Taken(p) /\ Taken(q) /\ p.id = q.id => p = q
    BY <2>1 DEF LinksOK
  <2> HIDE DEF Taken
  <2> QED
    BY <2>2, <2>4, <2>5, <2>6 DEF LinksOK
<1>6. GoalsOK' /\ LoopsOK'
  BY <1>4, SameGoals, SameLoops
<1>7. RunningHasTick'
  BY DEF PrimeInv, RunningHasTick
<1>8. Accounted'
  BY <1>1, <1>4 DEF PrimeInv, Accounted, SamePairs, Taken
<1> QED
  BY <1>3, <1>5, <1>6, <1>7, <1>8 DEF PrimeInv

LEMMA DetachKeeps ==
  ASSUME PrimingAssumption, PrimeInv, NEW a \in Primers, Detach(a) PROVE PrimeInv'
<1> USE DEF Detach, queue, worker, ghosts
<1>1. /\ link'[a].id = 0 /\ link'[a].state = "none"
      /\ \A b \in Primers \ {a} : link'[b] = link[b]
  BY DEF PrimeInv, PrimeTypeOK, Detached
<1>2. link'[a] \in [id: 0..MaxLinks, state: LinkStates, today: 0..DailyLimit, floods: Nat]
  BY DEF PrimeInv, PrimeTypeOK, PrimingAssumption, Detached, LinkStates
<1>3. PrimeTypeOK'
  BY <1>1, <1>2 DEF PrimeInv, PrimeTypeOK
<1>4. SamePairs
  BY DEF SamePairs, Waiting
<1>5. LinksOK'
  <2>1. \A p \in Pairs : (Taken(p)' <=> Taken(p)) /\ p.id # 0 /\ p.id \in Nat
    BY <1>4 DEF SamePairs, Taken, Pairs
  <2>2. LinksOK /\ linked_ \in Nat
    BY DEF PrimeInv, PrimeTypeOK
  <2>3. linked_' = linked_
    OBVIOUS
  <2> QED
    BY <1>1, <2>1, <2>2, <2>3 DEF LinksOK
<1>6. GoalsOK' /\ LoopsOK'
  BY <1>4, SameGoals, SameLoops
<1>7. RunningHasTick'
  BY DEF PrimeInv, RunningHasTick
<1>8. Accounted'
  BY <1>1, <1>4 DEF PrimeInv, Accounted, SamePairs, Taken
<1> QED
  BY <1>3, <1>5, <1>6, <1>7, <1>8 DEF PrimeInv

\* Imported targets are new, and blacklisted ones do not come back.
LEMMA TargetsKeep ==
  ASSUME PrimingAssumption, PrimeInv, NEW t \in Goals, Import(t) \/ Blacklist(t) PROVE PrimeInv'
<1> USE DEF Import, Blacklist, queue, worker, ghosts
<1>1. /\ goal' \in [Goals -> GoalStates]
      /\ \A u \in Goals \ {t} : goal'[u] = goal[u]
      /\ \/ goal[t] = "absent" /\ goal'[t] = "pending"
         \/ goal'[t] = "blacklisted"
  BY DEF PrimeInv, PrimeTypeOK, GoalStates
<1>2. PrimeTypeOK'
  BY <1>1 DEF PrimeInv, PrimeTypeOK
<1>3. SamePairs
  BY DEF SamePairs, Waiting
<1>4. LinksOK' /\ LoopsOK'
  BY <1>3, SameTables, SameLoops
<1>5. GoalsOK'
  <2>1. \A p : (Taken(p)' <=> Taken(p)) /\ (Waiting(p)' <=> Waiting(p))
    BY <1>3 DEF SamePairs, Taken
  <2>2. GoalsOK /\ runs' = runs /\ running' = running /\ \A p \in Pairs : p.goal \in Goals
    BY DEF PrimeInv, Pairs
  <2> HIDE DEF Import, Blacklist
  <2> QED
    BY <1>1, <2>1, <2>2 DEF GoalsOK
<1>6. RunningHasTick'
  BY DEF PrimeInv, RunningHasTick
<1>7. Accounted'
  BY <1>1, <1>3 DEF PrimeInv, Accounted, SamePairs, Taken
<1> QED
  BY <1>2, <1>4, <1>5, <1>6, <1>7 DEF PrimeInv
-----------------------------------------------------------------------------
(* The tick *)

LEMMA MovesFacts ==
  ASSUME PrimeTypeOK, NEW l \in Loops, NEW place \in LoopPlaces, Moves(l, place)
  PROVE  /\ loop' \in [Loops -> [at: LoopPlaces, pair: SUBSET Pairs]]
         /\ loop'[l].at = place /\ loop'[l].pair = {}
         /\ \A m \in Loops \ {l} : loop'[m] = loop[m]
BY DEF PrimeTypeOK, Moves

\* A tick that holds no pair moves on.
LEMMA IdleTickKeeps ==
  ASSUME PrimingAssumption, PrimeInv, NEW l \in Loops,
         TickStarts(l) \/ AutoPause(l) \/ NoAccount(l) \/ Spins(l) \/ NoGoal(l) \/ NextTick(l)
  PROVE  PrimeInv'
<1> USE DEF tables, queue, ghosts
<1>1. /\ loop[l].at \in {"idle", "autopause", "pair", "next"}
      /\ UNCHANGED <<link, goal, primes, running, runs, left, jammed, linked_, faults, api>>
  BY DEF TickStarts, AutoPause, NoAccount, Spins, NoGoal, NextTick
<1>2. loop[l].pair = {}
  BY <1>1 DEF PrimeInv, LoopsOK
<1>3. /\ loop' \in [Loops -> [at: LoopPlaces, pair: SUBSET Pairs]]
      /\ \A m \in Loops : loop'[m].pair = loop[m].pair
      /\ \A m \in Loops \ {l} : loop'[m] = loop[m]
  <2>1. CASE UNCHANGED loop
    BY <2>1 DEF PrimeInv, PrimeTypeOK
  <2>2. CASE \E place \in LoopPlaces : Moves(l, place)
    BY <1>2, <2>2, MovesFacts DEF PrimeInv
  <2> QED
    BY <2>1, <2>2 DEF TickStarts, AutoPause, NoAccount, Spins, NoGoal, NextTick, LoopPlaces
<1>4. campaign' \in CampaignStates /\ ticks' \in 0..MaxTicks /\ hung' \in Primers \cup {NoOne}
  <2>1. /\ campaign \in CampaignStates /\ ticks \in 0..MaxTicks /\ MaxTicks \in Nat
        /\ hung \in Primers \cup {NoOne}
    BY DEF PrimeInv, PrimeTypeOK, PrimingAssumption
  <2>2. CASE Spins(l)
    BY <2>1, <2>2 DEF Spins, Available
  <2>3. CASE TickStarts(l) \/ NextTick(l)
    BY <2>1, <2>3 DEF TickStarts, NextTick
  <2>4. CASE AutoPause(l) \/ NoAccount(l) \/ NoGoal(l)
    BY <2>1, <2>4 DEF AutoPause, NoAccount, NoGoal, CampaignStates
  <2> QED
    BY <2>2, <2>3, <2>4
<1>5. PrimeTypeOK'
  BY <1>1, <1>3, <1>4 DEF PrimeInv, PrimeTypeOK
<1>6. SamePairs
  BY <1>1, <1>3 DEF SamePairs, Waiting
<1>7. LinksOK' /\ GoalsOK' /\ Accounted'
  BY <1>1, <1>6, SameTables, SameGoals, SameTasks
<1>8. LoopsOK'
  <2>1. \A m \in Loops : loop'[m].pair # {} => loop'[m] = loop[m]
    BY <1>2, <1>3
  <2> QED
    BY <1>1, <1>3, <2>1 DEF PrimeInv, LoopsOK
<1>9. RunningHasTick'
  <2>1. CASE TickStarts(l)
    <3>1. campaign = "running" => loop'[l].at # "idle"
      BY <2>1, MovesFacts DEF TickStarts, PrimeInv, LoopPlaces
    <3> QED
      BY <2>1, <3>1 DEF TickStarts, RunningHasTick
  <2>2. CASE AutoPause(l)
    BY <2>2 DEF AutoPause, RunningHasTick
  <2>3. CASE NoAccount(l) \/ NoGoal(l)
    <3>1. loop'[l].at # "idle"
      BY <2>3, MovesFacts DEF NoAccount, NoGoal, PrimeInv, LoopPlaces
    <3> QED
      BY <3>1 DEF RunningHasTick
  <2>4. CASE Spins(l)
    BY <2>4 DEF Spins, PrimeInv, RunningHasTick
  <2>5. CASE NextTick(l)
    BY <2>5 DEF NextTick, PrimeInv, PrimeTypeOK, RunningHasTick
  <2> QED
    BY <2>1, <2>2, <2>3, <2>4, <2>5
<1> QED
  BY <1>5, <1>7, <1>8, <1>9 DEF PrimeInv

LEMMA PairKeeps ==
  ASSUME PrimingAssumption, PrimeInv, NEW l \in Loops, Pair(l) PROVE PrimeInv'
<1> DEFINE t == FirstGoal
<1>1. PICK a \in Primers :
        /\ link[a].state = "idle" /\ link[a].today < RampLimit
        /\ link' = [link EXCEPT ![a].state = "working"]
        /\ loop' = [loop EXCEPT ![l] = [at |-> "enqueue",
                       pair |-> {[acct |-> a, id |-> link[a].id, goal |-> FirstGoal]}]]
  BY DEF Pair, Available
<1>2. /\ loop[l].at = "pair"
      /\ goal' = [goal EXCEPT ![FirstGoal] = "assigned"]
      /\ UNCHANGED <<campaign, ticks, primes, running, api, hung, runs, left, jammed, linked_, faults>>
  BY DEF Pair, queue, ghosts
<1>3. FirstGoal \in Goals /\ goal[FirstGoal] = "pending"
  BY FirstGoalIsPending DEF Pair
<1>4. PICK p : p = [acct |-> a, id |-> link[a].id, goal |-> FirstGoal]
  OBVIOUS
<1>5. /\ link[a].id \in 1..MaxLinks /\ p \in Pairs
      /\ p.acct = a /\ p.id = link[a].id /\ p.goal = FirstGoal
  <2>1. link[a].id \in 0..MaxLinks /\ link[a].id # 0
    BY <1>1 DEF PrimeInv, PrimeTypeOK, LinksOK
  <2>2. link[a].id \in 1..MaxLinks
    BY <2>1 DEF PrimingAssumption
  <2> QED
    BY <1>3, <1>4, <2>2 DEF Pairs
<1>6. /\ loop' \in [Loops -> [at: LoopPlaces, pair: SUBSET Pairs]]
      /\ loop'[l].at = "enqueue" /\ loop'[l].pair = {p}
      /\ \A m \in Loops \ {l} : loop'[m] = loop[m]
  <2>1. loop' = [loop EXCEPT ![l] = [at |-> "enqueue", pair |-> {p}]]
    BY <1>1, <1>4
  <2>2. {p} \in SUBSET Pairs
    BY <1>5
  <2> QED
    BY <2>1, <2>2 DEF PrimeInv, PrimeTypeOK, LoopPlaces
<1>7. /\ link' \in [Primers -> [id: 0..MaxLinks, state: LinkStates, today: 0..DailyLimit, floods: Nat]]
      /\ link'[a].id = link[a].id /\ link'[a].state = "working" /\ link'[a].today = link[a].today
      /\ \A b \in Primers \ {a} : link'[b] = link[b]
  BY <1>1 DEF PrimeInv, PrimeTypeOK, LinkStates
<1>8. /\ goal' \in [Goals -> GoalStates] /\ goal'[p.goal] = "assigned"
      /\ \A u \in Goals \ {p.goal} : goal'[u] = goal[u]
  BY <1>2, <1>3, <1>5 DEF PrimeInv, PrimeTypeOK, GoalStates
<1>9. PrimeTypeOK'
  BY <1>2, <1>6, <1>7, <1>8 DEF PrimeInv, PrimeTypeOK
<1>10. loop[l].pair = {}
  BY <1>2 DEF PrimeInv, LoopsOK
<1>11. /\ \A q : Waiting(q)' <=> Waiting(q) \/ q = p
       /\ \A q : Taken(q)' <=> Taken(q) \/ q = p
  BY <1>2, <1>6, <1>10 DEF Waiting, Taken
<1>12. \A q \in Pairs : Taken(q) => q.id # p.id /\ q.goal # p.goal
  BY <1>1, <1>3, <1>5 DEF PrimeInv, LinksOK, GoalsOK
<1>13. LinksOK'
  <2>1. LinksOK
    BY DEF PrimeInv
  <2>2. p.id <= linked_ /\ link[a].id # 0
    BY <1>5, <2>1 DEF LinksOK
  <2>3. /\ \A b \in Primers : /\ link'[b].id = 0 <=> link'[b].state = "none"
                              /\ link'[b].id <= linked_
        /\ \A b, c \in Primers : link'[b].id = link'[c].id /\ link'[b].id # 0 => b = c
        /\ \A b \in Primers : link'[b].id = link[b].id
    BY <1>7, <2>1, <2>2 DEF LinksOK
  <2>4. \A b \in Primers : link'[b].id = p.id => b = a
    BY <1>5, <2>2, <2>3, <1>7
  <2>5. ASSUME NEW q \in Pairs, Taken(q)
        PROVE  /\ q.id <= linked_
               /\ \A b \in Primers : link'[b].id = q.id =>
                     b = q.acct /\ link'[b].state = "working" /\ link'[b].today < RampLimit
    BY <1>5, <1>7, <1>12, <2>1, <2>5 DEF LinksOK
  <2>6. /\ p.id <= linked_
        /\ \A b \in Primers : link'[b].id = p.id =>
              b = p.acct /\ link'[b].state = "working" /\ link'[b].today < RampLimit
    BY <1>1, <1>5, <1>7, <2>2, <2>4
  <2>7. \A q, r \in Pairs : (Taken(q) \/ q = p) /\ (Taken(r) \/ r = p) /\ q.id = r.id => q = r
    BY <1>12, <2>1 DEF LinksOK
  <2>8. linked_' = linked_ /\ \A q \in Pairs : Taken(q)' <=> Taken(q) \/ q = p
    BY <1>2, <1>11
  <2> HIDE DEF Taken
  <2> QED
    BY <2>3, <2>5, <2>6, <2>7, <2>8 DEF LinksOK
<1>14. GoalsOK'
  <2>1. GoalsOK
    BY DEF PrimeInv
  <2>2. p \notin running /\ runs[p.goal] = 0
    BY <1>3, <1>5, <1>12, <2>1 DEF Taken, GoalsOK
  <2>3. \A q \in Pairs : q.goal \in Goals
    BY DEF Pairs
  <2>4. \A q \in Pairs : Taken(q) \/ q = p => goal'[q.goal] \notin {"absent", "pending"}
    BY <1>8, <2>1, <2>3 DEF GoalsOK
  <2>5. \A q, r \in Pairs : (Taken(q) \/ q = p) /\ (Taken(r) \/ r = p) /\ q.goal = r.goal => q = r
    BY <1>12, <2>1 DEF GoalsOK
  <2>6. \A q \in Pairs : Waiting(q) \/ q = p => runs[q.goal] = 0 /\ q \notin running
    BY <2>1, <2>2 DEF GoalsOK
  <2>7. \A u \in Goals : goal'[u] \in {"absent", "pending"} => runs[u] = 0
    BY <1>8, <2>1 DEF GoalsOK
  <2> QED
    BY <1>2, <1>11, <2>1, <2>4, <2>5, <2>6, <2>7 DEF GoalsOK
<1>15. LoopsOK'
  <2>1. p \notin primes /\ \A m \in Loops : p \notin loop[m].pair
    BY <1>5, <1>12 DEF Taken, Waiting
  <2>2. LoopsOK
    BY DEF PrimeInv
  <2>3. \A m \in Loops : loop'[m].at # "enqueue" => loop'[m].pair = {}
    BY <1>6, <2>2 DEF LoopsOK
  <2>4. ASSUME NEW m \in Loops, NEW q \in loop'[m].pair
        PROVE  q \notin primes' /\ \A n \in Loops : q \in loop'[n].pair => m = n
    BY <1>2, <1>6, <2>1, <2>2 DEF LoopsOK
  <2> QED
    BY <2>3, <2>4 DEF LoopsOK
<1>16. RunningHasTick'
  BY <1>6 DEF RunningHasTick
<1>17. Accounted'
  <2> SUFFICES ASSUME faults = 0 PROVE Accounted'
    BY <1>2 DEF Accounted
  <2>1. \A b \in Primers : link'[b].state = "working" => link[b].state = "working" \/ b = a
    BY <1>7
  <2>2. \A u \in Goals : goal'[u] = "assigned" => goal[u] = "assigned" \/ u = p.goal
    BY <1>8
  <2>3. \A b \in Primers : link'[b].id = link[b].id
    BY <1>7
  <2> QED
    BY <1>2, <1>5, <1>11, <2>1, <2>2, <2>3 DEF PrimeInv, Accounted
<1> QED
  BY <1>9, <1>13, <1>14, <1>15, <1>16, <1>17 DEF PrimeInv

LEMMA EnqueuePrimeKeeps ==
  ASSUME PrimingAssumption, PrimeInv, NEW l \in Loops, EnqueuePrime(l) PROVE PrimeInv'
<1>1. /\ loop[l].at = "enqueue" /\ primes' = primes \cup loop[l].pair /\ Moves(l, "pair")
      /\ UNCHANGED <<campaign, link, goal, ticks, running, api, hung, runs, left, jammed, linked_, faults>>
  BY DEF EnqueuePrime, tables, ghosts
<1>2. /\ loop' \in [Loops -> [at: LoopPlaces, pair: SUBSET Pairs]]
      /\ loop'[l].at = "pair" /\ loop'[l].pair = {}
      /\ \A m \in Loops \ {l} : loop'[m] = loop[m]
  BY <1>1, MovesFacts DEF PrimeInv, LoopPlaces
<1>3. PrimeTypeOK'
  BY <1>1, <1>2 DEF PrimeInv, PrimeTypeOK
<1>4. SamePairs
  BY <1>1, <1>2 DEF SamePairs, Waiting
<1>5. LinksOK' /\ GoalsOK' /\ Accounted'
  BY <1>1, <1>4, SameTables, SameGoals, SameTasks
<1>6. LoopsOK'
  BY <1>1, <1>2 DEF PrimeInv, LoopsOK
<1>7. RunningHasTick'
  BY <1>2 DEF RunningHasTick
<1> QED
  BY <1>3, <1>5, <1>6, <1>7 DEF PrimeInv
-----------------------------------------------------------------------------
(* The executor *)

\* The executor starts on a pair and finds its attachment, or drops the pair.
LEMMA PrimeStartsKeeps ==
  ASSUME PrimingAssumption, PrimeInv, NEW p \in Pairs, PrimeStarts(p) PROVE PrimeInv'
<1>1. /\ p \in primes /\ primes' = primes \ {p}
      /\ UNCHANGED <<campaign, link, goal, ticks, loop, api, hung, jammed, linked_, faults>>
  BY DEF PrimeStarts, tables
<1>2. p.goal \in Goals /\ p.acct \in Primers /\ \A q \in Pairs : q.goal \in Goals
  BY DEF Pairs
<1>3. Waiting(p) /\ Taken(p) /\ p \notin running /\ runs[p.goal] = 0
  BY <1>1 DEF Waiting, Taken, PrimeInv, GoalsOK
<1>4. \A q : Waiting(q)' <=> Waiting(q) /\ q # p
  BY <1>1 DEF Waiting, PrimeInv, LoopsOK
<1>5. LoopsOK'
  BY <1>1 DEF PrimeInv, LoopsOK
<1>6. RunningHasTick'
  BY <1>1 DEF PrimeInv, RunningHasTick
<1>7. CASE link[p.acct].id = p.id
  <2>1. /\ running' = running \cup {p} /\ left' = left
        /\ runs' = [runs EXCEPT ![p.goal] = @ + 1]
    BY <1>7 DEF PrimeStarts
  <2>2. /\ runs' \in [Goals -> Nat] /\ runs'[p.goal] = 1
        /\ \A t \in Goals \ {p.goal} : runs'[t] = runs[t]
    BY <1>2, <1>3, <2>1 DEF PrimeInv, PrimeTypeOK
  <2>3. PrimeTypeOK'
    BY <1>1, <2>1, <2>2 DEF PrimeInv, PrimeTypeOK
  <2>4. \A q : Taken(q)' <=> Taken(q)
    BY <1>3, <1>4, <2>1 DEF Taken
  <2>5. LinksOK' /\ Accounted'
    BY <1>1, <2>1, <2>4 DEF PrimeInv, LinksOK, Accounted
  <2>6. GoalsOK'
    <3>1. GoalsOK
      BY DEF PrimeInv
    <3>2. \A q \in Pairs : Waiting(q) /\ q # p => runs'[q.goal] = 0 /\ q \notin running'
      BY <1>2, <1>3, <2>1, <2>2, <3>1 DEF GoalsOK, Taken
    <3>3. \A t \in Goals : goal[t] \in {"absent", "pending"} => runs'[t] = 0
      BY <1>3, <2>2, <3>1 DEF GoalsOK
    <3>4. \A t \in Goals : runs'[t] <= 1
      BY <2>2, <3>1 DEF GoalsOK
    <3> QED
      BY <1>1, <1>4, <2>4, <3>1, <3>2, <3>3, <3>4 DEF GoalsOK
  <2> QED
    BY <1>5, <1>6, <2>3, <2>5, <2>6 DEF PrimeInv
<1>8. CASE link[p.acct].id # p.id
  <2>1. left' = left \cup {p.goal} /\ UNCHANGED <<running, runs>>
    BY <1>8 DEF PrimeStarts
  <2>2. PrimeTypeOK'
    BY <1>1, <1>2, <2>1 DEF PrimeInv, PrimeTypeOK
  <2>3. \A q : Taken(q)' <=> Taken(q) /\ q # p
    BY <1>3, <1>4, <2>1 DEF Taken
  <2>4. LinksOK'
    BY <1>1, <2>3 DEF PrimeInv, LinksOK
  <2>5. GoalsOK'
    BY <1>1, <1>4, <2>1, <2>3 DEF PrimeInv, GoalsOK
  <2>6. Accounted'
    BY <1>1, <1>8, <2>1, <2>3 DEF PrimeInv, Accounted
  <2> QED
    BY <1>5, <1>6, <2>2, <2>4, <2>5, <2>6 DEF PrimeInv
<1> QED
  BY <1>7, <1>8

\* A pair whose task is over is nowhere any more.
LEMMA EndsFacts ==
  ASSUME PrimeInv, NEW p \in running, running' = running \ {p}, UNCHANGED <<primes, loop>>
  PROVE  /\ p \in Pairs /\ p.acct \in Primers /\ p.goal \in Goals /\ p.id # 0 /\ Taken(p)
         /\ \A q : Waiting(q)' <=> Waiting(q)
         /\ \A q : Taken(q)' <=> Taken(q) /\ q # p
         /\ LoopsOK'
<1>1. p \in Pairs
  BY DEF PrimeInv, PrimeTypeOK
<1>2. p.acct \in Primers /\ p.goal \in Goals /\ p.id # 0
  BY <1>1 DEF Pairs
<1>3. ~ Waiting(p) /\ Taken(p)
  BY <1>1 DEF PrimeInv, GoalsOK, Taken
<1>4. \A q : Waiting(q)' <=> Waiting(q)
  BY DEF Waiting
<1>5. \A q : Taken(q)' <=> Taken(q) /\ q # p
  BY <1>3, <1>4 DEF Taken
<1>6. LoopsOK'
  BY SameLoops
<1> QED
  BY <1>1, <1>2, <1>3, <1>4, <1>5, <1>6

\* The account is given back, unless it was detached meanwhile.
LinkRows == [id: 0..MaxLinks, state: LinkStates, today: 0..DailyLimit, floods: Nat]

LEMMA ReleasedFacts ==
  ASSUME PrimeInv, NEW p \in Pairs, Taken(p), NEW next, Released(p, next),
         link[p.acct].id = p.id => /\ next \in LinkRows /\ next.id = link[p.acct].id
                                   /\ next.state \in LinkStates \ {"none", "working"},
         linked_' = linked_, \A q : Taken(q)' <=> Taken(q) /\ q # p
  PROVE  /\ link' \in [Primers -> LinkRows]
         /\ LinksOK'
         /\ \A a \in Primers : link'[a].state = "working" =>
               link'[a] = link[a] /\ (a = p.acct => link[a].id # p.id)
<1>1. p.acct \in Primers /\ p.id # 0
  BY DEF Pairs
<1>2. link \in [Primers -> LinkRows] /\ LinksOK
  BY DEF PrimeInv, PrimeTypeOK, LinkRows
<1>3. CASE link[p.acct].id # p.id
  <2>1. link' = link
    BY <1>3 DEF Released
  <2>2. LinksOK'
    BY <1>2, <2>1 DEF LinksOK
  <2> QED
    BY <1>2, <1>3, <2>1, <2>2
<1>4. CASE link[p.acct].id = p.id
  <2>1. /\ link' \in [Primers -> LinkRows]
        /\ link'[p.acct] = next
        /\ \A a \in Primers \ {p.acct} : link'[a] = link[a]
    BY <1>1, <1>2, <1>4 DEF Released
  <2>2. \A a \in Primers : link'[a].id = link[a].id
    BY <1>4, <2>1
  <2>3. \A a \in Primers : link'[a].state = "working" => link'[a] = link[a] /\ a # p.acct
    BY <1>4, <2>1
  <2>4. \A a \in Primers : link'[a].id = 0 <=> link'[a].state = "none"
    BY <1>1, <1>2, <1>4, <2>1 DEF LinksOK
  <2>5. ASSUME NEW q \in Pairs, Taken(q), q # p, NEW a \in Primers, link'[a].id = q.id
        PROVE  a = q.acct /\ link'[a].state = "working" /\ link'[a].today < RampLimit
    <3>1. a = q.acct /\ link[a].state = "working" /\ link[a].today < RampLimit
      BY <1>2, <2>2, <2>5 DEF LinksOK
    <3>2. q.id # p.id
      BY <1>2, <2>5 DEF LinksOK
    <3>3. a # p.acct
      BY <1>4, <2>2, <2>5, <3>2
    <3> QED
      BY <2>1, <3>1, <3>3
  <2>6. LinksOK'
    BY <1>2, <2>2, <2>4, <2>5 DEF LinksOK
  <2> QED
    BY <2>1, <2>3, <2>6
<1> QED
  BY <1>3, <1>4

LEMMA FloodedKeeps ==
  ASSUME PrimingAssumption, PrimeInv, NEW p \in Pairs, Flooded(p) PROVE PrimeInv'
<1> DEFINE old == link[p.acct]
           next == [old EXCEPT !.floods = @ + 1,
                      !.state = IF old.floods + 1 >= MaxFloods THEN "quarantined" ELSE "cooldown"]
<1>1. /\ p \in running /\ running' = running \ {p} /\ Released(p, next)
      /\ left' = left \cup {p.goal}
      /\ UNCHANGED <<campaign, goal, ticks, primes, loop, api, hung, runs, jammed, linked_, faults>>
  BY DEF Flooded, queue
<1>2. /\ p.acct \in Primers /\ p.goal \in Goals /\ Taken(p) /\ LoopsOK'
      /\ \A q : Waiting(q)' <=> Waiting(q)
      /\ \A q : Taken(q)' <=> Taken(q) /\ q # p
  BY <1>1, EndsFacts
<1>3. next \in LinkRows /\ next.id = old.id /\ next.state \in LinkStates \ {"none", "working"}
  <2>1. old \in LinkRows
    BY <1>2 DEF PrimeInv, PrimeTypeOK, LinkRows
  <2> HIDE DEF old
  <2>2. PICK state \in {"quarantined", "cooldown"} :
          next = [old EXCEPT !.floods = @ + 1, !.state = state]
    OBVIOUS
  <2> HIDE DEF next
  <2>3. state \in LinkStates \ {"none", "working"}
    BY DEF LinkStates
  <2>4. old.floods + 1 \in Nat
    BY <2>1 DEF LinkRows
  <2>5. next \in LinkRows
    BY <2>1, <2>2, <2>3, <2>4 DEF LinkRows
  <2>6. next.id = old.id /\ next.state = state
    BY <2>1, <2>2 DEF LinkRows
  <2> QED
    BY <2>3, <2>5, <2>6
<1> HIDE DEF next
<1>4. /\ link' \in [Primers -> LinkRows] /\ LinksOK'
      /\ \A a \in Primers : link'[a].state = "working" =>
            link'[a] = link[a] /\ (a = p.acct => link[a].id # p.id)
  BY <1>1, <1>2, <1>3, ReleasedFacts
<1>5. PrimeTypeOK'
  BY <1>1, <1>2, <1>4 DEF PrimeInv, PrimeTypeOK, LinkRows
<1>6. GoalsOK'
  BY <1>1, <1>2 DEF PrimeInv, GoalsOK
<1>7. RunningHasTick'
  BY <1>1 DEF PrimeInv, RunningHasTick
<1>8. Accounted'
  BY <1>1, <1>2, <1>4 DEF PrimeInv, Accounted
<1> QED
  BY <1>2, <1>4, <1>5, <1>6, <1>7, <1>8 DEF PrimeInv

LEMMA StoreKeeps ==
  ASSUME PrimingAssumption, PrimeInv, NEW p \in Pairs, NEW result \in {"primed", "failed"},
         Store(p, result)
  PROVE  PrimeInv'
<1> DEFINE old == link[p.acct]
           counted == [old EXCEPT !.today = @ + 1, !.floods = 0, !.state = "idle"]
           back == [old EXCEPT !.state = "idle"]
<1>1. /\ p \in running /\ running' = running \ {p}
      /\ UNCHANGED <<campaign, ticks, primes, loop, api, hung, runs, left, linked_, faults>>
  BY DEF Store, queue
<1>2. /\ p.acct \in Primers /\ p.goal \in Goals /\ Taken(p) /\ LoopsOK'
      /\ \A q : Waiting(q)' <=> Waiting(q)
      /\ \A q : Taken(q)' <=> Taken(q) /\ q # p
  BY <1>1, EndsFacts
<1>3. RunningHasTick'
  BY <1>1 DEF PrimeInv, RunningHasTick
<1>4. CASE goal[p.goal] = "assigned"
  <2>1. PICK next \in {counted, back} : Released(p, next)
    BY <1>4 DEF Store
  <2>2. goal' = [goal EXCEPT ![p.goal] = result] /\ jammed' = jammed
    BY <1>4 DEF Store
  <2>3. old.id = p.id => /\ next \in LinkRows /\ next.id = old.id
                         /\ next.state \in LinkStates \ {"none", "working"}
    <3>1. old \in LinkRows
      BY <1>2 DEF PrimeInv, PrimeTypeOK, LinkRows
    <3>2. old.id = p.id => old.today + 1 \in 0..DailyLimit
      <4>1. old.id = p.id => old.today < RampLimit
        BY <1>2 DEF PrimeInv, LinksOK
      <4>2. old.today \in Nat /\ RampLimit \in 1..DailyLimit /\ DailyLimit \in Nat
        BY <3>1 DEF LinkRows, PrimingAssumption
      <4> HIDE DEF old
      <4> QED BY <4>1, <4>2
    <3> HIDE DEF old
    <3>3. back \in LinkRows /\ back.id = old.id /\ back.state = "idle"
      BY <3>1 DEF LinkRows, LinkStates
    <3>4. old.id = p.id => counted \in LinkRows /\ counted.id = old.id /\ counted.state = "idle"
      BY <3>1, <3>2 DEF LinkRows, LinkStates
    <3> HIDE DEF back, counted
    <3> QED
      BY <2>1, <3>3, <3>4 DEF LinkStates
  <2>4. /\ link' \in [Primers -> LinkRows] /\ LinksOK'
        /\ \A a \in Primers : link'[a].state = "working" =>
              link'[a] = link[a] /\ (a = p.acct => link[a].id # p.id)
    BY <1>1, <1>2, <2>1, <2>3, ReleasedFacts
  <2>5. /\ goal' \in [Goals -> GoalStates] /\ goal'[p.goal] \notin {"absent", "pending", "assigned"}
        /\ \A t \in Goals \ {p.goal} : goal'[t] = goal[t]
    BY <1>2, <2>2 DEF PrimeInv, PrimeTypeOK, GoalStates
  <2>6. PrimeTypeOK'
    BY <1>1, <2>2, <2>4, <2>5 DEF PrimeInv, PrimeTypeOK, LinkRows
  <2>7. GoalsOK'
    <3>1. GoalsOK /\ \A q \in Pairs : q.goal \in Goals
      BY DEF PrimeInv, Pairs
    <3> QED
      BY <1>1, <1>2, <2>5, <3>1 DEF GoalsOK
  <2>8. Accounted'
    BY <1>1, <1>2, <2>2, <2>4, <2>5 DEF PrimeInv, Accounted
  <2> QED
    BY <1>2, <1>3, <2>4, <2>6, <2>7, <2>8 DEF PrimeInv
<1>5. CASE goal[p.goal] # "assigned"
  <2>1. jammed' = jammed \cup {p.id} /\ UNCHANGED <<link, goal>>
    BY <1>5 DEF Store
  <2>2. p.id \in 1..MaxLinks
    BY DEF Pairs
  <2>3. PrimeTypeOK'
    BY <1>1, <2>1, <2>2 DEF PrimeInv, PrimeTypeOK
  <2>4. LinksOK'
    BY <1>1, <1>2, <2>1 DEF PrimeInv, LinksOK
  <2>5. GoalsOK'
    BY <1>1, <1>2, <2>1 DEF PrimeInv, GoalsOK
  <2>6. Accounted'
    BY <1>1, <1>2, <1>5, <2>1 DEF PrimeInv, Accounted
  <2> QED
    BY <1>2, <1>3, <2>3, <2>4, <2>5, <2>6 DEF PrimeInv
<1> QED
  BY <1>4, <1>5

\* Tasks that are lost: one that raises, or all of them with the worker.
LEMMA LostKeeps ==
  ASSUME PrimingAssumption, PrimeInv, (\E p \in Pairs : PrimeRaises(p)) \/ PrimerDies
  PROVE  PrimeInv'
<1>1. /\ running' \subseteq running /\ UNCHANGED <<campaign, link, goal, primes, ticks, api, runs, left, jammed, linked_>>
      /\ faults' = faults + 1
  BY DEF PrimeRaises, PrimerDies, tables, queue
<1>2. /\ loop' \in [Loops -> [at: LoopPlaces, pair: SUBSET Pairs]]
      /\ \A l \in Loops : loop'[l].pair = {} \/ loop'[l] = loop[l]
  BY DEF PrimeRaises, PrimerDies, queue, PrimeInv, PrimeTypeOK, AtRest, LoopPlaces
<1>3. hung' \in Primers \cup {NoOne}
  BY DEF PrimeRaises, PrimerDies, PrimeInv, PrimeTypeOK
<1>4. PrimeTypeOK' /\ faults' # 0
  BY <1>1, <1>2, <1>3 DEF PrimeInv, PrimeTypeOK
<1>5. /\ \A q : Waiting(q)' => Waiting(q)
      /\ \A q : Taken(q)' => Taken(q)
  BY <1>1, <1>2 DEF Waiting, Taken
<1>6. LinksOK'
  BY <1>1, <1>5 DEF PrimeInv, LinksOK
<1>7. GoalsOK'
  BY <1>1, <1>5 DEF PrimeInv, GoalsOK
<1>8. LoopsOK'
  BY <1>1, <1>2 DEF PrimeInv, LoopsOK
<1>9. RunningHasTick' /\ Accounted'
  BY <1>4 DEF RunningHasTick, Accounted
<1> QED
  BY <1>4, <1>6, <1>7, <1>8, <1>9 DEF PrimeInv
-----------------------------------------------------------------------------
LEMMA PrimingKeeps ==
  ASSUME PrimingAssumption, PrimeInv, [PrimeNext]_primeVars PROVE PrimeInv'
<1>1. CASE UNCHANGED primeVars
  <2>1. PrimeTypeOK' /\ RunningHasTick'
    BY <1>1 DEF primeVars, PrimeInv, PrimeTypeOK, RunningHasTick
  <2>2. SamePairs
    BY <1>1 DEF primeVars, SamePairs, Waiting
  <2> QED
    BY <1>1, <2>1, <2>2, SameTables, SameGoals, SameLoops, SameTasks DEF primeVars, PrimeInv
<1>2. ASSUME NEW l \in Loops, Tick_(l) PROVE PrimeInv'
  BY <1>2, IdleTickKeeps, PairKeeps, EnqueuePrimeKeeps DEF Tick_
<1>3. ASSUME NEW p \in primes \cup running, Execute(p) PROVE PrimeInv'
  <2>1. p \in Pairs
    BY DEF PrimeInv, PrimeTypeOK
  <2> QED
    BY <1>3, <2>1, PrimeStartsKeeps, FloodedKeeps, StoreKeeps, LostKeeps DEF Execute
<1> QED
  BY <1>1, <1>2, <1>3, ApiKeeps, AttachKeeps, DetachKeeps, TargetsKeep, LostKeeps DEF PrimeNext

LEMMA PrimingHolds == ASSUME PrimeInv PROVE ContactedOnce /\ NothingStranded
<1>1. \A p : (p \in Given <=> Taken(p)) /\ (Taken(p) => p \in Pairs)
  BY GivenIsTaken DEF PrimeInv
<1>2. PrimedOnce
  BY DEF PrimeInv, GoalsOK, PrimedOnce
<1>3. OnePrimeAtATime
  <2> SUFFICES ASSUME NEW a \in Primers
               PROVE  LET mine == {p \in Given : p.acct = a /\ p.id = link[a].id} IN
                      /\ Cardinality(mine) <= 1
                      /\ mine # {} => link[a].state = "working" /\ link[a].today < RampLimit
    BY DEF OnePrimeAtATime
  <2> DEFINE mine == {p \in Given : p.acct = a /\ p.id = link[a].id}
  <2>1. \A p, q \in mine : p = q
    BY <1>1 DEF PrimeInv, LinksOK
  <2>2. mine # {} => link[a].state = "working" /\ link[a].today < RampLimit
    BY <1>1 DEF PrimeInv, LinksOK
  <2>3. Cardinality(mine) <= 1
    <3>1. CASE mine = {}
      BY <3>1, FS_EmptySet
    <3>2. CASE mine # {}
      <4>1. PICK p : mine = {p}
        BY <2>1, <3>2
      <4> HIDE DEF mine
      <4> QED BY <4>1, FS_Singleton
    <3> QED BY <3>1, <3>2
  <2> QED
    BY <2>2, <2>3
<1>4. TakenHasTask
  BY <1>1 DEF PrimeInv, Accounted, TakenHasTask
<1> QED
  BY <1>2, <1>3, <1>4 DEF ContactedOnce, NothingStranded, PrimeInv
-----------------------------------------------------------------------------
\* modules/priming/worker/orchestrator.py, executor.py: for any accounts, targets and ticks at
\* once, through every race of the API with the worker, detachment and death, a target is
\* contacted once and an attachment has one task; without a fault a running campaign has a tick
\* to come, and what a tick took has a task or is accounted for.
THEOREM PrimedAndReleased ==
  ASSUME PrimingAssumption
  PROVE  PrimeSpec => [](PrimeTypeOK /\ ContactedOnce /\ NothingStranded)
<1>1. PrimeInit => PrimeInv
  BY PrimingInit
<1>2. PrimeInv /\ [PrimeNext]_primeVars => PrimeInv'
  BY PrimingKeeps
<1>3. PrimeInv => PrimeTypeOK /\ ContactedOnce /\ NothingStranded
  BY PrimingHolds DEF PrimeInv
<1> QED
  BY <1>1, <1>2, <1>3, PTL DEF PrimeSpec
-----------------------------------------------------------------------------
(*************** Shilling ***************)

\* The same line of the same dialog.
SameLine(q, r) == q.dialog = r.dialog /\ q.line = r.line

\* The lines a slot still has to get rid of; a logged line is said.
ToDo(s) == IF stage[s].at \in {"log", "resolve"} THEN {} ELSE stage[s].todo

Alone == {"governor", "sending", "log", "handover", "promote"}

\* What a slot may hold at each place, when n dialogs were scheduled.
TaskFits(place, todo, n) ==
    /\ place \in {"empty", "opening"} => todo = {}
    /\ place = "resolve" => \A q \in todo : q.dialog = 0
    /\ place # "resolve" => \A q \in todo : q.dialog \in 1..n
    /\ place \in {"resolve", "plan"} => \A q, r \in todo : q.line = r.line => q = r
    /\ place \in Alone => \A q, r \in todo : q = r

StagesFit == \A s \in Stages : TaskFits(stage[s].at, stage[s].todo, dialogs)

QueuesFit ==
    /\ \A q \in cues \cup subs : q.dialog \in 1..dialogs
    /\ \A v \in voices : v.dialog \in 1..dialogs
    /\ \A d \in 1..MaxDialogs, l \in Lines : said[d][l] > 0 => d \in 1..dialogs

\* There is one copy of each line, and none of a line that was said.
OneCopy ==
    /\ \A q, r \in cues : SameLine(q, r) => q = r
    /\ \A q, r \in subs : SameLine(q, r) => q = r
    /\ \A q \in cues : \A r \in subs : ~SameLine(q, r)
    /\ \A s \in Stages : \A q \in cues \cup subs : \A r \in ToDo(s) : ~SameLine(q, r)
    /\ \A s, t \in Stages : \A q \in ToDo(s) : \A r \in ToDo(t) : SameLine(q, r) => s = t /\ q = r

SaidLeft ==
    \A d \in 1..MaxDialogs, l \in Lines :
        /\ said[d][l] <= 1
        /\ said[d][l] > 0 =>
              /\ \A q \in cues \cup subs : ~(q.dialog = d /\ q.line = l)
              /\ \A s \in Stages : \A q \in ToDo(s) : ~(q.dialog = d /\ q.line = l)

\* Whoever has a line, or has said one.
Voice(q) == [dialog |-> q.dialog, actor |-> q.actor, part |-> PartOf[q.line]]
Awaited == cues \cup subs \cup UNION {stage[s].todo : s \in {t \in Stages : stage[t].at # "resolve"}}
Roles == voices \cup {Voice(q) : q \in Awaited}

\* Nobody plays two parts, and no reserve plays before he is promoted.
PartsFit ==
    /\ \A v, w \in Roles :
          v.dialog = w.dialog /\ v.actor = w.actor /\ v.actor \notin recast => v.part = w.part
    /\ \A v \in Roles : v.actor \notin recast => cast[v.actor].as # "reserve"
    /\ \A s \in Stages : stage[s].at = "resolve" =>
          /\ \A q, r \in stage[s].todo : q.actor = r.actor => PartOf[q.line] = PartOf[r.line]
          /\ \A q \in stage[s].todo : q.actor \notin recast => cast[q.actor].as # "reserve"

CopiesFit == mishaps_ = 0 => OneCopy /\ SaidLeft

ShillInv == ShillTypeOK /\ StagesFit /\ QueuesFit /\ CopiesFit /\ PartsFit
-----------------------------------------------------------------------------
Slots_ == [at: StagePlaces, todo: SUBSET Cues, chat: SUBSET Chats]

LEMMA SlotType ==
  ASSUME ShillTypeOK, NEW s \in Stages
  PROVE  /\ stage \in [Stages -> Slots_] /\ stage[s] \in Slots_ /\ stage[s].at \in StagePlaces
         /\ stage[s].todo \in SUBSET Cues /\ stage[s].chat \in SUBSET Chats /\ ToDo(s) \in SUBSET Cues
<1>1. stage \in [Stages -> Slots_]
  BY DEF ShillTypeOK, Slots_
<1> QED BY <1>1 DEF Slots_, ToDo

LEMMA CueFields ==
  ASSUME ShillTypeOK, NEW q \in Cues
  PROVE  /\ q.dialog \in 0..MaxDialogs /\ q.chat \in Chats /\ q.line \in Lines /\ q.actor \in Actors
         /\ \A n \in 0..MaxDialogs :
              LET p == [q EXCEPT !.dialog = n] IN
              p \in Cues /\ p.dialog = n /\ p.line = q.line /\ p.actor = q.actor
         /\ \A a \in Actors :
              LET p == [q EXCEPT !.actor = a] IN
              p \in Cues /\ p.dialog = q.dialog /\ p.line = q.line /\ p.actor = a
BY DEF Cues

\* A slot goes on to another place with other lines.
LEMMA SlotStep ==
  ASSUME ShillTypeOK, NEW s \in Stages, NEW place \in StagePlaces, NEW todo \in SUBSET Cues,
         NEW chat \in SUBSET Chats, Enters(s, place, todo, chat)
  PROVE  /\ stage' \in [Stages -> Slots_]
         /\ stage'[s].at = place /\ stage'[s].todo = todo /\ stage'[s].chat = chat
         /\ \A t \in Stages : t # s => stage'[t] = stage[t]
         /\ ToDo(s)' = IF place \in {"log", "resolve"} THEN {} ELSE todo
         /\ \A t \in Stages : t # s => ToDo(t)' = ToDo(t)
<1> DEFINE row == [at |-> place, todo |-> todo, chat |-> chat]
<1>1. row \in Slots_ /\ row.at = place /\ row.todo = todo /\ row.chat = chat
  BY DEF Slots_
<1>2. stage \in [Stages -> Slots_] /\ stage' = [stage EXCEPT ![s] = row]
  BY SlotType DEF Enters
<1> HIDE DEF row
<1>3. stage' \in [Stages -> Slots_] /\ stage'[s] = row /\ \A t \in Stages : t # s => stage'[t] = stage[t]
  BY <1>1, <1>2
<1> QED BY <1>1, <1>3 DEF ToDo

LEMMA ExitIs ==
  ASSUME NEW s \in Stages, Exits(s)
  PROVE  Enters(s, "empty", {}, {})
BY DEF Exits, Enters, Bare

LEMMA PlacesAre ==
  /\ "empty" \in StagePlaces /\ "opening" \in StagePlaces /\ "resolve" \in StagePlaces /\ "plan" \in StagePlaces
  /\ "governor" \in StagePlaces /\ "sending" \in StagePlaces /\ "log" \in StagePlaces
  /\ "handover" \in StagePlaces /\ "promote" \in StagePlaces
BY DEF StagePlaces

\* A slot that has nothing more to do.
LEMMA SlotLeft ==
  ASSUME ShillTypeOK, NEW s \in Stages, Exits(s)
  PROVE  /\ stage' \in [Stages -> Slots_]
         /\ stage'[s].at = "empty" /\ stage'[s].todo = {}
         /\ \A t \in Stages : t # s => stage'[t] = stage[t]
         /\ ToDo(s)' = {}
         /\ \A t \in Stages : t # s => ToDo(t)' = ToDo(t)
<1>1. Enters(s, "empty", {}, {})
  BY ExitIs
<1>2. "empty" \in StagePlaces
  BY DEF StagePlaces
<1>3. {} \in SUBSET Cues /\ {} \in SUBSET Chats
  OBVIOUS
<1> QED BY <1>1, <1>2, <1>3, SlotStep

\* The slot goes to `place` with `todo`.
Goes(s, place, todo) ==
    /\ stage' \in [Stages -> Slots_]
    /\ stage'[s].at = place /\ stage'[s].todo = todo
    /\ \A t \in Stages : t # s => stage'[t] = stage[t]

LEMMA SlotGoes ==
  ASSUME ShillTypeOK, NEW s \in Stages, NEW place \in StagePlaces, NEW todo \in SUBSET Cues,
         NEW chat \in SUBSET Chats, Enters(s, place, todo, chat)
  PROVE  Goes(s, place, todo)
BY SlotStep DEF Goes

LEMMA SlotEmptied ==
  ASSUME ShillTypeOK, NEW s \in Stages, Exits(s)
  PROVE  Goes(s, "empty", {})
BY SlotLeft DEF Goes

LEMMA GoesToDo ==
  ASSUME NEW s \in Stages, NEW place, NEW todo, Goes(s, place, todo)
  PROVE  /\ ToDo(s)' = IF place \in {"log", "resolve"} THEN {} ELSE todo
         /\ \A t \in Stages : t # s => ToDo(t)' = ToDo(t)
BY DEF Goes, ToDo
-----------------------------------------------------------------------------
\* What the steps of a slot do, by where the lines go.
LEMMA PlaysFacts ==
  ASSUME ShillingAssumption, ShillTypeOK, StagesFit, NEW s \in Stages, Plays(s)
  PROVE  \/ UNCHANGED <<stage, cast, cues, subs, history, admin>>
         \/ Stumbles(s)
         \/ /\ \/ (\E c \in SUBSET Chats : stage[s].at \in {"empty", "opening"} /\ Enters(s, "opening", {}, c))
               \/ Exits(s)
            /\ UNCHANGED <<cast, cues, subs, dialogs, speech, admin>>
         \/ \E c \in Chats : Visits(s, c)
         \/ Resolves(s)
         \/ Schedules(s)
         \/ \E q \in cues : Enacts(s, q)
         \/ Defers(s) \/ Fluffs(s) \/ StepsIn(s)
         \/ Says(s)
         \/ HandsOver(s)
         \/ \E q \in subs : Promotes(s, q)
         \/ Allowed(s) \/ Barred(s)
<1>1. CASE Opens(s)
  <2>1. CASE stage' = stage
    BY <1>1, <2>1 DEF Opens
  <2>2. CASE Enters(s, "opening", {}, Chats)
    BY <1>1, <2>2 DEF Opens, On, history
  <2> QED BY <1>1, <2>1, <2>2 DEF Opens
<1>2. ASSUME NEW c \in Chats, SendsTo(s, c)
      PROVE  /\ \/ (\E d \in SUBSET Chats : stage[s].at \in {"empty", "opening"} /\ Enters(s, "opening", {}, d))
                \/ Exits(s)
             /\ UNCHANGED <<cast, cues, subs, dialogs, speech, admin>>
  <2>1. stage[s].chat \ {c} \in SUBSET Chats
    BY SlotType
  <2> QED BY <1>2, <2>1 DEF SendsTo, On, history
<1>3. CASE ResolveRefused(s) \/ ResolveRaises(s) \/ Logs(s)
  BY <1>3 DEF ResolveRefused, ResolveRaises, Logs, history, waiting
<1> QED BY <1>1, <1>2, <1>3 DEF Plays

LEMMA FallsFacts ==
  ASSUME ShillingAssumption, ShillTypeOK, StagesFit, NEW S \in SUBSET Stages, Falls(S)
  PROVE  /\ openings' \in Nat /\ visits' \in [Chats -> Nat]
         /\ mishaps_' = mishaps_ + 1
         /\ cues \subseteq cues' /\ cues' \subseteq Awaited
         /\ \A s \in Stages : stage'[s] = IF s \in S THEN Bare ELSE stage[s]
         /\ stage' \in [Stages -> Slots_]
         /\ UNCHANGED <<show, cast, unfit, subs, flops, shunned, dialogs, said, voices, recast, edits_>>
<1>1. \A T \in SUBSET Stages : Cardinality(T) \in Nat
  BY FS_Subset, FS_CardinalityType DEF ShillingAssumption
<1>2. openings' \in Nat
  <2>1. openings' = openings + Cardinality({s \in S : stage[s].at \in {"opening"}})
    BY DEF Falls
  <2>2. {s \in S : stage[s].at \in {"opening"}} \in SUBSET Stages
    OBVIOUS
  <2> QED BY <1>1, <2>1, <2>2 DEF ShillTypeOK
<1>3. visits' \in [Chats -> Nat]
  <2>1. visits' = [c \in Chats |-> visits[c] +
                     Cardinality({s \in {t \in S : stage[t].at \in {"resolve", "plan"}} : c \in stage[s].chat})]
    BY DEF Falls
  <2>2. \A c \in Chats : {s \in {t \in S : stage[t].at \in {"resolve", "plan"}} : c \in stage[s].chat} \in SUBSET Stages
    OBVIOUS
  <2>3. \A c \in Chats : visits[c] \in Nat
    BY DEF ShillTypeOK
  <2> QED BY <1>1, <2>1, <2>2, <2>3
<1>4. cues \subseteq cues' /\ cues' \subseteq Awaited
  <2>1. cues' = cues \cup UNION {stage[s].todo : s \in {t \in S : stage[t].at \in {"governor", "sending", "log", "handover"}}}
    BY DEF Falls
  <2> QED BY <2>1 DEF Awaited
<1>5. stage' = [s \in Stages |-> IF s \in S THEN Bare ELSE stage[s]]
  BY DEF Falls
<1>6. Bare \in Slots_ /\ stage \in [Stages -> Slots_]
  BY DEF Bare, Slots_, StagePlaces, ShillTypeOK
<1>7. UNCHANGED <<show, cast, unfit, subs, flops, shunned, dialogs, said, voices, recast, edits_>>
  BY DEF Falls, history, speech
<1>8. mishaps_' = mishaps_ + 1
  BY DEF Falls
<1> QED BY <1>2, <1>3, <1>4, <1>5, <1>6, <1>7, <1>8

LEMMA HeldType ==
  ASSUME ShillTypeOK, StagesFit, QueuesFit
  PROVE  /\ Awaited \subseteq Cues /\ \A q \in Awaited : q.dialog \in 1..dialogs
         /\ \A s \in Stages : \A q \in ToDo(s) : q.dialog \in 1..dialogs
         /\ \A q : q \in Awaited <=> \/ q \in cues \/ q \in subs
                                  \/ \E s \in Stages : stage[s].at # "resolve" /\ q \in stage[s].todo
<1>1. \A q : q \in Awaited <=> \/ q \in cues \/ q \in subs
                            \/ \E s \in Stages : stage[s].at # "resolve" /\ q \in stage[s].todo
  BY DEF Awaited
<1>2. \A s \in Stages : stage[s].todo \subseteq Cues
  BY SlotType
<1>3. cues \subseteq Cues /\ subs \subseteq Cues
  BY DEF ShillTypeOK
<1>4. Awaited \subseteq Cues
  BY <1>1, <1>2, <1>3
<1>5. \A s \in Stages : stage[s].at # "resolve" => \A q \in stage[s].todo : q.dialog \in 1..dialogs
  BY DEF StagesFit, TaskFits
<1>6. \A q \in Awaited : q.dialog \in 1..dialogs
  BY <1>1, <1>5 DEF QueuesFit
<1>7. \A s \in Stages : \A q \in ToDo(s) : q.dialog \in 1..dialogs
  BY <1>5 DEF ToDo
<1> QED BY <1>1, <1>4, <1>6, <1>7
-----------------------------------------------------------------------------
LEMMA LineupFacts ==
  ASSUME ShillingAssumption, ShillTypeOK, NEW f \in Lineups, NEW c \in Chats
  PROVE  /\ \A p \in DOMAIN f : p \in Parts /\ f[p] \in Primary /\ f[p] \in Actors
         /\ \A p, q \in DOMAIN f : f[p] = f[q] => p = q
         /\ Plan(f, c) \in SUBSET Cues
         /\ \A q \in Plan(f, c) : /\ q.dialog = 0 /\ q.line \in Lines /\ PartOf[q.line] \in DOMAIN f
                                  /\ q.actor = f[PartOf[q.line]] /\ q.chat = c
<1>1. f \in UNION {[P -> Primary] : P \in SUBSET Parts}
  BY DEF Lineups
<1>2. PICK P \in SUBSET Parts : f \in [P -> Primary]
  BY <1>1
<1>3. \A p \in DOMAIN f : p \in Parts /\ f[p] \in Primary /\ f[p] \in Actors
  BY <1>2 DEF Primary
<1>4. \A p, q \in DOMAIN f : f[p] = f[q] => p = q
  BY DEF Lineups
<1>5. \A q : q \in Plan(f, c) => \E l \in Lines : PartOf[l] \in DOMAIN f
                                     /\ q = [dialog |-> 0, chat |-> c, line |-> l, actor |-> f[PartOf[l]]]
  BY DEF Plan
<1>6. 0 \in 0..MaxDialogs
  BY DEF ShillingAssumption
<1>7. ASSUME NEW q \in Plan(f, c)
      PROVE  /\ q \in Cues
             /\ q.dialog = 0 /\ q.line \in Lines /\ PartOf[q.line] \in DOMAIN f
             /\ q.actor = f[PartOf[q.line]] /\ q.chat = c
  <2> PICK l \in Lines : PartOf[l] \in DOMAIN f
                         /\ q = [dialog |-> 0, chat |-> c, line |-> l, actor |-> f[PartOf[l]]]
    BY <1>5
  <2>1. f[PartOf[l]] \in Actors
    BY <1>3
  <2> QED BY <1>6, <2>1 DEF Cues
<1>8. Plan(f, c) \in SUBSET Cues
  BY <1>7
<1> QED BY <1>3, <1>4, <1>7, <1>8

\* The lines of a dialog, once it has its number.
LEMMA NumberedFacts ==
  ASSUME ShillTypeOK, NEW S \in SUBSET Cues, NEW n \in 0..MaxDialogs
  PROVE  /\ {[q EXCEPT !.dialog = n] : q \in S} \in SUBSET Cues
         /\ \A r \in {[q EXCEPT !.dialog = n] : q \in S} :
               \E q \in S : r.dialog = n /\ r.line = q.line /\ r.actor = q.actor /\ r = [q EXCEPT !.dialog = n]
<1>1. ASSUME NEW q \in S
      PROVE  LET r == [q EXCEPT !.dialog = n] IN r \in Cues /\ r.dialog = n /\ r.line = q.line /\ r.actor = q.actor
  BY CueFields
<1> QED BY <1>1

LEMMA SaysFacts ==
  ASSUME ShillingAssumption, ShillTypeOK, StagesFit, NEW s \in Stages, Says(s)
  PROVE  \E q \in stage[s].todo :
            /\ stage[s].at = "sending" /\ stage[s].todo = {q} /\ ToDo(s) = {q}
            /\ q.dialog \in 1..dialogs /\ q.dialog \in 1..MaxDialogs /\ q.line \in Lines
            /\ said' \in [1..MaxDialogs -> [Lines -> Nat]]
            /\ \A d \in 1..MaxDialogs, l \in Lines :
                  said'[d][l] = IF d = q.dialog /\ l = q.line THEN said[d][l] + 1 ELSE said[d][l]
            /\ voices' = voices \cup {Voice(q)}
            /\ Voice(q) \in [dialog: 1..MaxDialogs, actor: Actors, part: Parts]
            /\ Goes(s, "log", {q}) /\ ToDo(s)' = {}
            /\ \A t \in Stages : t # s => ToDo(t)' = ToDo(t)
            /\ UNCHANGED <<show, cast, unfit, waiting, flops, shunned, dialogs, admin>>
<1>1. PICK q \in stage[s].todo :
          /\ said' = [said EXCEPT ![q.dialog][q.line] = @ + 1]
          /\ voices' = voices \cup {Voice(q)}
  BY DEF Says, Voice
<1>2. q \in Cues /\ q.line \in Lines /\ q.actor \in Actors /\ stage[s].at = "sending"
  BY SlotType, CueFields DEF Says, On
<1>3. q.dialog \in 1..dialogs /\ \A r \in stage[s].todo : q = r
  BY <1>2 DEF StagesFit, TaskFits, Alone
<1>4. q.dialog \in 1..MaxDialogs
  BY <1>3 DEF ShillTypeOK, ShillingAssumption
<1>5. stage[s].todo = {q} /\ ToDo(s) = {q}
  BY <1>2, <1>3 DEF ToDo
<1> DEFINE d0 == q.dialog
           l0 == q.line
<1>6. d0 \in 1..MaxDialogs /\ l0 \in Lines /\ said' = [said EXCEPT ![d0][l0] = @ + 1]
  BY <1>1, <1>2, <1>4
<1> HIDE DEF d0, l0
<1>7. said \in [1..MaxDialogs -> [Lines -> Nat]]
  BY DEF ShillTypeOK
<1>8. said[d0] \in [Lines -> Nat] /\ said[d0][l0] \in Nat
  BY <1>6, <1>7
<1>9. said' = [said EXCEPT ![d0] = [said[d0] EXCEPT ![l0] = said[d0][l0] + 1]]
  BY <1>6
<1>10. [said[d0] EXCEPT ![l0] = said[d0][l0] + 1] \in [Lines -> Nat]
  BY <1>6, <1>8
<1>11. said' \in [1..MaxDialogs -> [Lines -> Nat]]
  BY <1>6, <1>7, <1>9, <1>10
<1>12. \A d \in 1..MaxDialogs, l \in Lines :
          said'[d][l] = IF d = d0 /\ l = l0 THEN said[d][l] + 1 ELSE said[d][l]
  BY <1>6, <1>7, <1>8, <1>9
<1>13. Voice(q) \in [dialog: 1..MaxDialogs, actor: Actors, part: Parts]
  BY <1>2, <1>4 DEF Voice, ShillingAssumption
<1>14. Enters(s, "log", {q}, {})
  BY <1>5 DEF Says
<1>15. "log" \in StagePlaces /\ {q} \in SUBSET Cues /\ {} \in SUBSET Chats
  BY <1>2, PlacesAre
<1>16. Goes(s, "log", {q})
  BY <1>14, <1>15, SlotGoes
<1>17. ToDo(s)' = {} /\ \A t \in Stages : t # s => ToDo(t)' = ToDo(t)
  BY <1>16, GoesToDo
<1>18. UNCHANGED <<show, cast, unfit, waiting, flops, shunned, dialogs, admin>>
  BY DEF Says
<1> QED BY <1>1, <1>2, <1>3, <1>4, <1>5, <1>11, <1>12, <1>13, <1>16, <1>17, <1>18 DEF d0, l0

\* The reserve that is promoted, and the line he gets.
LEMMA PromotesFacts ==
  ASSUME ShillingAssumption, ShillTypeOK, NEW s \in Stages, NEW q \in subs, Promotes(s, q)
  PROVE  /\ stage[s].at = "empty" /\ subs' = subs \ {q}
         /\ UNCHANGED <<show, unfit, openings, visits, cues, flops, dialogs, speech, admin>>
         /\ \/ UNCHANGED <<stage, cast>>
            \/ \E r \in Actors : \E p \in Cues :
                 /\ r # q.actor /\ cast[r].as = "reserve" /\ p = [q EXCEPT !.actor = r]
                 /\ p.dialog = q.dialog /\ p.line = q.line /\ p.actor = r
                 /\ Goes(s, "promote", {p})
                 /\ cast' \in [Actors -> [as: {"none", "primary", "reserve"}, part: Parts \cup {NoPart}]]
                 /\ cast'[r].as = "primary" /\ cast'[q.actor].as = "none"
                 /\ \A a \in Actors : a # r /\ a # q.actor => cast'[a] = cast[a]
<1>1. /\ stage[s].at = "empty" /\ subs' = subs \ {q}
      /\ UNCHANGED <<show, unfit, openings, visits, cues, flops, dialogs, speech, admin>>
  BY DEF Promotes, On
<1>2. CASE UNCHANGED <<stage, cast>>
  BY <1>1, <1>2
<1>3. CASE \E r \in Reserves(q) :
             /\ cast' = [cast EXCEPT ![r] = [as |-> "primary", part |-> cast[q.actor].part],
                                     ![q.actor] = NotCast]
             /\ Enters(s, "promote", {[q EXCEPT !.actor = r]}, {})
  <2> PICK r \in Reserves(q) :
             /\ cast' = [cast EXCEPT ![r] = [as |-> "primary", part |-> cast[q.actor].part],
                                     ![q.actor] = NotCast]
             /\ Enters(s, "promote", {[q EXCEPT !.actor = r]}, {})
    BY <1>3
  <2>1. q \in Cues /\ q.actor \in Actors /\ r \in Actors /\ r # q.actor /\ cast[r].as = "reserve"
    BY CueFields DEF Reserves, ShillTypeOK
  <2> DEFINE p == [q EXCEPT !.actor = r]
             row == [as |-> "primary", part |-> cast[q.actor].part]
             a0 == q.actor
             Rows == [as: {"none", "primary", "reserve"}, part: Parts \cup {NoPart}]
  <2>2. p \in Cues /\ p.dialog = q.dialog /\ p.line = q.line /\ p.actor = r
    BY <2>1, CueFields
  <2>3. Enters(s, "promote", {p}, {})
    OBVIOUS
  <2>4. cast \in [Actors -> Rows]
    BY DEF ShillTypeOK
  <2>5. row \in Rows /\ row.as = "primary" /\ NotCast \in Rows /\ NotCast.as = "none"
    BY <2>1, <2>4 DEF NotCast
  <2>6. cast' = [cast EXCEPT ![r] = row, ![a0] = NotCast] /\ a0 \in Actors /\ a0 # r
    BY <2>1
  <2>9. p = [q EXCEPT !.actor = r] /\ a0 = q.actor
    OBVIOUS
  <2> HIDE DEF p, row, Rows, a0
  <2>7. /\ cast' \in [Actors -> Rows] /\ cast'[r] = row /\ cast'[a0] = NotCast
        /\ \A a \in Actors : a # r /\ a # a0 => cast'[a] = cast[a]
    BY <2>1, <2>4, <2>5, <2>6
  <2>8. Goes(s, "promote", {p})
    <3>1. "promote" \in StagePlaces /\ {p} \in SUBSET Cues /\ {} \in SUBSET Chats
      BY <2>2, PlacesAre
    <3> QED BY <2>3, <3>1, SlotGoes
  <2>10. /\ r # q.actor /\ cast[r].as = "reserve" /\ p = [q EXCEPT !.actor = r]
         /\ p.dialog = q.dialog /\ p.line = q.line /\ p.actor = r
         /\ Goes(s, "promote", {p})
         /\ cast' \in [Actors -> Rows]
         /\ cast'[r].as = "primary" /\ cast'[q.actor].as = "none"
         /\ \A a \in Actors : a # r /\ a # q.actor => cast'[a] = cast[a]
    BY <2>1, <2>2, <2>5, <2>7, <2>8, <2>9
  <2> QED BY <1>1, <2>1, <2>2, <2>10 DEF Rows
<1> QED BY <1>2, <1>3 DEF Promotes

\* What an edit of the cast leaves.
LEMMA CastFacts ==
  ASSUME ShillTypeOK, NEW a \in Actors, Cast(a) \/ Uncast(a)
  PROVE  /\ cast' \in [Actors -> [as: {"none", "primary", "reserve"}, part: Parts \cup {NoPart}]]
         /\ \A b \in Actors : b # a => cast'[b] = cast[b]
         /\ recast' = IF Drawn THEN recast \cup {a} ELSE recast
         /\ edits_' \in Nat
         /\ UNCHANGED <<show, unfit, waiting, stage, history, mishaps_>>
<1> DEFINE Rows == [as: {"none", "primary", "reserve"}, part: Parts \cup {NoPart}]
<1>1. NotCast \in Rows
  BY DEF NotCast
<1>2. \A as \in {"primary", "reserve"}, p \in Parts \cup {NoPart} : [as |-> as, part |-> p] \in Rows
  OBVIOUS
<1>3. cast \in [Actors -> Rows]
  BY DEF ShillTypeOK
<1>4. \E row \in Rows : cast' = [cast EXCEPT ![a] = row]
  BY <1>1, <1>2 DEF Cast, Uncast
<1> HIDE DEF Rows
<1>5. cast' \in [Actors -> Rows] /\ \A b \in Actors : b # a => cast'[b] = cast[b]
  BY <1>3, <1>4
<1>6. recast' = IF Drawn THEN recast \cup {a} ELSE recast
  BY DEF Cast, Uncast
<1>7. edits_' \in Nat /\ UNCHANGED <<show, unfit, waiting, stage, history, mishaps_>>
  BY DEF Cast, Uncast, Edited, ShillTypeOK
<1> QED BY <1>5, <1>6, <1>7 DEF Rows

LEMMA ShillTypeKeeps ==
  ASSUME ShillingAssumption, ShillTypeOK, StagesFit, ShillNext
  PROVE  ShillTypeOK'
<1> USE PlacesAre
<1>n. /\ cues \in SUBSET Cues /\ subs \in SUBSET Cues /\ stage \in [Stages -> Slots_]
      /\ \A s \in Stages : /\ stage[s].todo \in SUBSET Cues /\ stage[s].chat \in SUBSET Chats
                           /\ stage[s].at \in StagePlaces
      /\ visits \in [Chats -> Nat] /\ openings \in Nat /\ flops \subseteq Chats \X Actors
      /\ {} \in SUBSET Cues /\ {} \in SUBSET Chats /\ Chats \in SUBSET Chats
  BY SlotType DEF ShillTypeOK
\* Queues and slots change, and sometimes more.
<1>a. ASSUME UNCHANGED <<cast, dialogs, speech, admin>>, show' \in {"draft", "running", "paused", "error"},
             unfit' \subseteq Actors, shunned' \subseteq Chats, flops' \subseteq Chats \X Actors,
             openings' \in Nat, visits' \in [Chats -> Nat], cues' \subseteq Cues, subs' \subseteq Cues,
             stage' \in [Stages -> Slots_]
      PROVE  ShillTypeOK'
  BY <1>a DEF ShillTypeOK, speech, admin, Slots_
<1>b. /\ show \in {"draft", "running", "paused", "error"} /\ unfit \subseteq Actors /\ shunned \subseteq Chats
  BY DEF ShillTypeOK
<1>1. CASE StartShow \/ StopShow
  <2>1. /\ UNCHANGED <<cast, unfit, visits, cues, subs, stage, history, recast, mishaps_>>
        /\ show' \in {"running", "paused"} /\ openings' \in {openings, openings + 1}
        /\ edits_' \in {edits_, edits_ + 1}
    BY <1>1 DEF StartShow, StopShow, Edited, waiting, admin
  <2> QED BY <2>1 DEF ShillTypeOK, history, speech
<1>2. ASSUME NEW a \in Actors, Cast(a) \/ Uncast(a) PROVE ShillTypeOK'
  <2>1. recast' \subseteq Actors
    BY <1>2, CastFacts DEF ShillTypeOK
  <2> QED BY <1>2, <2>1, CastFacts DEF ShillTypeOK, waiting, history, speech
<1>3. ASSUME NEW S \in SUBSET Stages, Falls(S) PROVE ShillTypeOK'
  <2>1. cues' \subseteq Cues
    <3>1. Awaited \subseteq Cues
      BY <1>n DEF Awaited
    <3> QED BY <1>3, <3>1, FallsFacts
  <2>2. mishaps_' \in Nat
    BY <1>3, FallsFacts DEF ShillTypeOK
  <2> QED BY <1>3, <2>1, <2>2, FallsFacts DEF ShillTypeOK, Slots_
<1>4. ASSUME NEW s \in Stages, Plays(s) PROVE ShillTypeOK'
  <2>e. Exits(s) => stage' \in [Stages -> Slots_]
    BY SlotLeft
  <2>g. \A place \in StagePlaces : \A todo \in SUBSET Cues : \A chat \in SUBSET Chats :
           Enters(s, place, todo, chat) => stage' \in [Stages -> Slots_]
    BY SlotStep
  <2>t. stage[s].todo \in SUBSET Cues
    BY <1>n
  <2>1. CASE Opens(s)
    <3>1. openings' \in Nat /\ show' \in {"draft", "running", "paused", "error"}
      BY <1>b, <1>n, <2>1 DEF Opens
    <3>2. stage' \in [Stages -> Slots_]
      BY <1>n, <2>1, <2>g DEF Opens
    <3> QED BY <1>a, <1>b, <1>n, <2>1, <3>1, <3>2 DEF Opens, history
  <2>2. ASSUME NEW c \in Chats, SendsTo(s, c) PROVE ShillTypeOK'
    <3>1. stage' \in [Stages -> Slots_]
      <4>1. stage[s].chat \ {c} \in SUBSET Chats
        BY <1>n
      <4> QED BY <1>n, <2>2, <2>e, <2>g, <4>1 DEF SendsTo
    <3>2. visits' \in [Chats -> Nat]
      BY <1>n, <2>2 DEF SendsTo
    <3> QED BY <1>a, <1>b, <1>n, <2>2, <3>1, <3>2 DEF SendsTo, history
  <2>3. ASSUME NEW c \in Chats, Visits(s, c) PROVE ShillTypeOK'
    <3>1. stage' \in [Stages -> Slots_]
      <4>1. CASE stage' = stage
        BY <1>n, <4>1
      <4>2. ASSUME NEW f \in Lineups, Enters(s, "resolve", Plan(f, c), {c}) PROVE stage' \in [Stages -> Slots_]
        <5>1. Plan(f, c) \in SUBSET Cues /\ {c} \in SUBSET Chats
          BY LineupFacts
        <5> QED BY <2>g, <4>2, <5>1
      <4> QED BY <2>3, <4>1, <4>2 DEF Visits
    <3>2. visits' \in [Chats -> Nat]
      <4>1. visits[c] \in Nat /\ visits[c] > 0
        BY <1>n, <2>3 DEF Visits
      <4> QED BY <1>n, <2>3, <4>1 DEF Visits
    <3> QED BY <1>a, <1>b, <1>n, <2>3, <3>1, <3>2 DEF Visits, history
  <2>4. CASE Resolves(s)
    <3> DEFINE todo == {[q EXCEPT !.dialog = dialogs + 1] : q \in stage[s].todo}
    <3>1. dialogs + 1 \in 0..MaxDialogs
      BY <2>4 DEF Resolves, ShillTypeOK, ShillingAssumption
    <3>2. todo \in SUBSET Cues
      BY <1>n, <3>1, NumberedFacts
    <3> HIDE DEF todo
    <3>3. Enters(s, "plan", todo, stage[s].chat)
      BY <2>4 DEF Resolves, todo
    <3>4. stage' \in [Stages -> Slots_]
      BY <1>n, <2>g, <3>2, <3>3
    <3>5. dialogs' \in 0..MaxDialogs /\ UNCHANGED <<show, cast, unfit, waiting, flops, shunned, speech, admin>>
      BY <2>4, <3>1 DEF Resolves
    <3> QED BY <3>4, <3>5 DEF ShillTypeOK, Slots_, waiting, speech, admin
  <2>5. CASE ResolveRaises(s)
    <3>1. visits' \in [Chats -> Nat]
      <4>1. \A c \in Chats : Cardinality(stage[s].chat \cap {c}) \in Nat
        <5> TAKE c \in Chats
        <5>1. stage[s].chat \cap {c} = {} \/ stage[s].chat \cap {c} = {c}
          OBVIOUS
        <5>2. CASE stage[s].chat \cap {c} = {}
          BY <5>2, FS_EmptySet
        <5>3. CASE stage[s].chat \cap {c} = {c}
          <6>1. Cardinality({c}) = 1
            BY FS_Singleton
          <6> QED BY <5>3, <6>1
        <5> QED BY <5>1, <5>2, <5>3
      <4>2. CASE visits' = [c \in Chats |-> visits[c] + Cardinality(stage[s].chat \cap {c})]
        BY <1>n, <4>1, <4>2
      <4> QED BY <1>n, <2>5, <4>2 DEF ResolveRaises
    <3> QED BY <1>a, <1>b, <1>n, <2>5, <2>e, <3>1 DEF ResolveRaises, history
  <2>6. CASE ResolveRefused(s)
    BY <1>a, <1>b, <1>n, <2>6, <2>e DEF ResolveRefused, waiting
  <2>7. CASE Schedules(s)
    <3> PICK q \in stage[s].todo :
          /\ cues' = cues \cup {q}
          /\ Exits(s) \/ Enters(s, "plan", stage[s].todo \ {q}, stage[s].chat)
      BY <2>7 DEF Schedules
    <3>1. stage[s].todo \ {q} \in SUBSET Cues
      BY <2>t
    <3>2. stage' \in [Stages -> Slots_]
      BY <1>n, <2>e, <2>g, <3>1
    <3>3. cues' \subseteq Cues
      BY <1>n
    <3>4. UNCHANGED <<show, cast, unfit, openings, visits, subs, history, admin>>
      BY <2>7 DEF Schedules
    <3> QED BY <1>a, <1>b, <1>n, <3>2, <3>3, <3>4 DEF history
  <2>8. ASSUME NEW q \in cues, Enacts(s, q) PROVE ShillTypeOK'
    <3>1. {q} \in SUBSET Cues
      BY <1>n
    <3>2. stage' \in [Stages -> Slots_]
      BY <1>n, <2>8, <2>g, <3>1 DEF Enacts
    <3> QED BY <1>a, <1>b, <1>n, <2>8, <3>2 DEF Enacts, history
  <2>9. CASE Defers(s) \/ Fluffs(s) \/ StepsIn(s)
    <3>1. stage' \in [Stages -> Slots_] /\ cues' \subseteq Cues
      BY <1>n, <2>9, <2>e, <2>t DEF Defers, Fluffs, StepsIn
    <3>2. flops' \subseteq Chats \X Actors
      <4>1. {<<q.chat, q.actor>> : q \in stage[s].todo} \subseteq Chats \X Actors
        BY <2>t, CueFields
      <4> QED BY <1>n, <2>9, <4>1 DEF Defers, Fluffs, StepsIn, history
    <3>3. UNCHANGED <<show, cast, unfit, openings, visits, subs, shunned, dialogs, speech, admin>>
      BY <2>9 DEF Defers, Fluffs, StepsIn, history
    <3> QED BY <1>a, <1>b, <1>n, <3>1, <3>2, <3>3
  <2>10. CASE Allowed(s)
    <3>1. stage' \in [Stages -> Slots_]
      BY <1>n, <2>10, <2>g, <2>t DEF Allowed
    <3> QED BY <1>a, <1>b, <1>n, <2>10, <3>1 DEF Allowed, waiting, history
  <2>11. CASE Says(s)
    <3>1. /\ said' \in [1..MaxDialogs -> [Lines -> Nat]]
          /\ voices' \subseteq [dialog: 1..MaxDialogs, actor: Actors, part: Parts]
          /\ stage' \in [Stages -> Slots_]
          /\ UNCHANGED <<show, cast, unfit, waiting, flops, shunned, dialogs, admin>>
      BY <2>11, SaysFacts DEF ShillTypeOK, Goes
    <3> QED BY <3>1 DEF ShillTypeOK, Slots_, waiting, admin
  <2>12. CASE Logs(s)
    BY <1>a, <1>b, <1>n, <2>12, <2>e DEF Logs, waiting, history
  <2>13. CASE Barred(s)
    <3>1. {<<q.chat, q.actor>> : q \in stage[s].todo} \subseteq Chats \X Actors /\ {q.actor : q \in stage[s].todo} \subseteq Actors
      BY <2>t, CueFields
    <3>2. flops' \subseteq Chats \X Actors /\ unfit' \subseteq Actors
      BY <1>b, <1>n, <2>13, <3>1 DEF Barred
    <3>3. stage' \in [Stages -> Slots_]
      BY <1>n, <2>13, <2>g, <2>t DEF Barred
    <3> QED BY <1>a, <1>b, <1>n, <2>13, <3>2, <3>3 DEF Barred, waiting
  <2>14. CASE HandsOver(s)
    BY <1>a, <1>b, <1>n, <2>14, <2>e, <2>t DEF HandsOver, history
  <2>15. ASSUME NEW q \in subs, Promotes(s, q) PROVE ShillTypeOK'
    <3>1. /\ stage' \in [Stages -> Slots_]
          /\ cast' \in [Actors -> [as: {"none", "primary", "reserve"}, part: Parts \cup {NoPart}]]
      BY <1>n, <2>15, PromotesFacts DEF Goes, ShillTypeOK
    <3>2. subs' \subseteq Cues /\ shunned' \subseteq Chats
      <4>1. q.chat \in Chats
        BY <1>n, CueFields
      <4> QED BY <1>b, <1>n, <2>15, <4>1 DEF Promotes
    <3>3. UNCHANGED <<show, unfit, openings, visits, cues, flops, dialogs, speech, admin>>
      BY <2>15 DEF Promotes
    <3> QED BY <3>1, <3>2, <3>3 DEF ShillTypeOK, Slots_, speech, admin
  <2>16. CASE Stumbles(s)
    <3>1. {s} \in SUBSET Stages /\ Falls({s})
      BY <2>16 DEF Stumbles
    <3> QED BY <1>3, <3>1
  <2> QED BY <1>4, <2>1, <2>2, <2>3, <2>4, <2>5, <2>6, <2>7, <2>8, <2>9, <2>10, <2>11, <2>12, <2>13, <2>14,
             <2>15, <2>16 DEF Plays
<1>5. CASE TheatreBurns
  <2>1. Stages \in SUBSET Stages /\ Falls(Stages)
    BY <1>5 DEF TheatreBurns
  <2> QED BY <1>3, <2>1
<1> QED BY <1>1, <1>2, <1>4, <1>5 DEF ShillNext
-----------------------------------------------------------------------------
LEMMA StagesKeep ==
  ASSUME StagesFit, NEW s \in Stages, NEW place, NEW todo, Goes(s, place, todo),
         dialogs \in Nat, dialogs' \in Nat, dialogs <= dialogs', TaskFits(place, todo, dialogs')
  PROVE  StagesFit'
<1>1. ASSUME NEW t \in Stages PROVE TaskFits(stage'[t].at, stage'[t].todo, dialogs')
  <2>1. CASE t = s
    BY <2>1 DEF Goes
  <2>2. CASE t # s
    <3>1. stage'[t] = stage[t] /\ TaskFits(stage[t].at, stage[t].todo, dialogs)
      BY <2>2 DEF Goes, StagesFit
    <3> QED BY <3>1 DEF TaskFits
  <2> QED BY <2>1, <2>2
<1> QED BY <1>1 DEF StagesFit

LEMMA EmptyFitsStage ==
  ASSUME NEW n, NEW place \in {"empty", "opening"} PROVE TaskFits(place, {}, n)
BY DEF TaskFits, Alone

LEMMA FitsKeep ==
  ASSUME ShillingAssumption, ShillTypeOK, StagesFit, QueuesFit, ShillNext
  PROVE  StagesFit' /\ QueuesFit'
<1> USE PlacesAre
<1>n. dialogs \in Nat /\ dialogs <= dialogs /\ cues \subseteq Cues /\ subs \subseteq Cues
  BY DEF ShillTypeOK, ShillingAssumption
<1>f. \A s \in Stages : TaskFits(stage[s].at, stage[s].todo, dialogs) /\ stage[s].todo \in SUBSET Cues
  BY SlotType DEF StagesFit
\* Lines move between the queues and the slots.
<1>a. ASSUME UNCHANGED <<dialogs, speech>>, \A q \in cues' \cup subs' : q.dialog \in 1..dialogs
      PROVE  QueuesFit'
  BY <1>a DEF QueuesFit, speech
<1>b. ASSUME UNCHANGED <<dialogs, stage>> PROVE StagesFit'
  BY <1>b DEF StagesFit
<1>q. \A q \in cues \cup subs : q.dialog \in 1..dialogs
  BY DEF QueuesFit
<1>1. CASE StartShow \/ StopShow \/ \E a \in Actors : Cast(a) \/ Uncast(a)
  <2>1. UNCHANGED <<stage, cues, subs, history>>
    BY <1>1 DEF StartShow, StopShow, Cast, Uncast, waiting
  <2> QED BY <1>a, <1>b, <1>q, <2>1 DEF history
<1>2. ASSUME NEW S \in SUBSET Stages, Falls(S) PROVE StagesFit' /\ QueuesFit'
  <2>1. \A q \in Awaited : q.dialog \in 1..dialogs
    BY HeldType
  <2>2. QueuesFit'
    BY <1>2, <1>a, <1>q, <2>1, FallsFacts DEF speech
  <2>3. \A s \in Stages : TaskFits(stage'[s].at, stage'[s].todo, dialogs')
    <3> TAKE s \in Stages
    <3>1. stage'[s] = (IF s \in S THEN Bare ELSE stage[s]) /\ dialogs' = dialogs
      BY <1>2, FallsFacts
    <3>2. TaskFits(Bare.at, Bare.todo, dialogs)
      BY EmptyFitsStage DEF Bare
    <3> QED BY <1>f, <3>1, <3>2
  <2> QED BY <2>2, <2>3 DEF StagesFit
<1>3. ASSUME NEW s \in Stages, Plays(s) PROVE StagesFit' /\ QueuesFit'
  <2>e. ASSUME Exits(s), dialogs' = dialogs PROVE StagesFit'
    <3>1. Goes(s, "empty", {}) /\ TaskFits("empty", {}, dialogs')
      BY <2>e, SlotEmptied, EmptyFitsStage
    <3> QED BY <1>n, <2>e, <3>1, StagesKeep
  <2>1. CASE UNCHANGED <<stage, cast, cues, subs, history, admin>>
    BY <1>a, <1>b, <1>q, <2>1 DEF history
  <2>2. CASE Stumbles(s)
    <3>1. {s} \in SUBSET Stages /\ Falls({s})
      BY <2>2 DEF Stumbles
    <3> QED BY <1>2, <3>1
  <2>3. CASE /\ \/ (\E c \in SUBSET Chats : stage[s].at \in {"empty", "opening"} /\ Enters(s, "opening", {}, c))
                \/ Exits(s)
             /\ UNCHANGED <<cast, cues, subs, dialogs, speech, admin>>
    <3>1. QueuesFit'
      BY <1>a, <1>q, <2>3
    <3>2. ASSUME NEW c \in SUBSET Chats, Enters(s, "opening", {}, c) PROVE StagesFit'
      <4>1. Goes(s, "opening", {}) /\ TaskFits("opening", {}, dialogs')
        <5>1. {} \in SUBSET Cues
          OBVIOUS
        <5> QED BY <3>2, <5>1, SlotGoes, EmptyFitsStage
      <4>2. dialogs' = dialogs
        BY <2>3
      <4> QED BY <1>n, <4>1, <4>2, StagesKeep
    <3> QED BY <2>3, <2>e, <3>1, <3>2
  <2>4. ASSUME NEW c \in Chats, Visits(s, c) PROVE StagesFit' /\ QueuesFit'
    <3>1. QueuesFit' /\ dialogs' = dialogs
      BY <1>a, <1>q, <2>4 DEF Visits, history
    <3>2. ASSUME NEW f \in Lineups, Enters(s, "resolve", Plan(f, c), {c}) PROVE StagesFit'
      <4>1. /\ Plan(f, c) \in SUBSET Cues
            /\ \A q \in Plan(f, c) : q.dialog = 0
        BY LineupFacts
      <4>2. \A q, r \in Plan(f, c) : q.line = r.line => q = r
        BY DEF Plan
      <4>3. TaskFits("resolve", Plan(f, c), dialogs')
        BY <4>1, <4>2 DEF TaskFits, Alone
      <4>4. Goes(s, "resolve", Plan(f, c))
        BY <3>2, <4>1, SlotGoes
      <4> QED BY <1>n, <3>1, <4>3, <4>4, StagesKeep
    <3>3. stage' = stage \/ \E f \in Lineups : Enters(s, "resolve", Plan(f, c), {c})
      BY <2>4 DEF Visits
    <3> QED BY <1>b, <3>1, <3>2, <3>3
  <2>5. CASE Resolves(s)
    <3> DEFINE todo == {[q EXCEPT !.dialog = dialogs + 1] : q \in stage[s].todo}
    <3>1. dialogs + 1 \in 0..MaxDialogs /\ dialogs' = dialogs + 1 /\ dialogs' \in Nat
      BY <2>5 DEF Resolves, ShillTypeOK, ShillingAssumption
    <3>2. /\ todo \in SUBSET Cues
          /\ \A r \in todo : \E q \in stage[s].todo :
                r.dialog = dialogs + 1 /\ r.line = q.line /\ r = [q EXCEPT !.dialog = dialogs + 1]
      BY <1>f, <3>1, NumberedFacts
    <3> HIDE DEF todo
    <3>3. Enters(s, "plan", todo, stage[s].chat)
      BY <2>5 DEF Resolves, todo
    <3>4. Goes(s, "plan", todo)
      BY <3>2, <3>3, SlotGoes, SlotType
    <3>5. \A q, r \in stage[s].todo : q.line = r.line => q = r
      BY <1>f, <2>5 DEF Resolves, On, TaskFits
    <3>6. TaskFits("plan", todo, dialogs')
      <4>1. \A q \in todo : q.dialog \in 1..dialogs'
        BY <1>n, <3>1, <3>2
      <4>2. \A q, r \in todo : q.line = r.line => q = r
        BY <3>2, <3>5
      <4> QED BY <4>1, <4>2 DEF TaskFits, Alone
    <3>7. StagesFit'
      BY <1>n, <3>1, <3>4, <3>6, StagesKeep
    <3>8. QueuesFit'
      <4>1. UNCHANGED <<cues, subs, said, voices>>
        BY <2>5 DEF Resolves, waiting, speech
      <4>2. \A d \in 1..dialogs : d \in 1..dialogs'
        BY <1>n, <3>1
      <4> QED BY <4>1, <4>2 DEF QueuesFit
    <3> QED BY <3>7, <3>8
  <2>6. CASE Schedules(s)
    <3> PICK q \in stage[s].todo :
          /\ cues' = cues \cup {q}
          /\ Exits(s) \/ Enters(s, "plan", stage[s].todo \ {q}, stage[s].chat)
      BY <2>6 DEF Schedules
    <3> DEFINE rest == stage[s].todo \ {q}
    <3>1. stage[s].at = "plan" /\ UNCHANGED <<subs, dialogs, speech>>
      BY <2>6 DEF Schedules, On, history
    <3>2. q.dialog \in 1..dialogs /\ TaskFits("plan", rest, dialogs) /\ rest \in SUBSET Cues
      BY <1>f, <3>1 DEF TaskFits, Alone
    <3>3. QueuesFit'
      BY <1>a, <1>q, <3>1, <3>2
    <3> HIDE DEF rest
    <3>4. ASSUME Enters(s, "plan", rest, stage[s].chat) PROVE StagesFit'
      <4>1. Goes(s, "plan", rest)
        BY <3>2, <3>4, SlotGoes, SlotType
      <4> QED BY <1>n, <3>1, <3>2, <4>1, StagesKeep
    <3> QED BY <2>e, <3>1, <3>3, <3>4 DEF rest
  <2>7. ASSUME NEW q \in cues, Enacts(s, q) PROVE StagesFit' /\ QueuesFit'
    <3>1. cues' \subseteq cues /\ UNCHANGED <<subs, dialogs, speech>>
      BY <2>7 DEF Enacts, history
    <3>2. QueuesFit'
      BY <1>a, <1>q, <3>1
    <3>3. CASE Enters(s, "governor", {q}, {})
      <4>1. {q} \in SUBSET Cues /\ {} \in SUBSET Chats
        BY <1>n
      <4>2. Goes(s, "governor", {q})
        BY <3>3, <4>1, SlotGoes
      <4>3. TaskFits("governor", {q}, dialogs)
        BY <1>q DEF TaskFits, Alone
      <4> QED BY <1>n, <3>1, <3>2, <4>2, <4>3, StagesKeep
    <3> QED BY <1>b, <2>7, <3>1, <3>2, <3>3 DEF Enacts
  <2>8. CASE Defers(s) \/ Fluffs(s) \/ StepsIn(s) \/ HandsOver(s)
    <3>1. /\ Exits(s) /\ UNCHANGED <<dialogs, speech>> /\ stage[s].at # "resolve"
          /\ cues' \subseteq cues \cup stage[s].todo /\ subs' \subseteq subs \cup stage[s].todo
      BY <2>8 DEF Defers, Fluffs, StepsIn, HandsOver, On, history
    <3>2. \A q \in stage[s].todo : q.dialog \in 1..dialogs
      BY <1>f, <3>1 DEF TaskFits
    <3> QED BY <1>a, <1>q, <2>e, <3>1, <3>2
  <2>9. CASE Says(s)
    <3> PICK q \in stage[s].todo :
            /\ q.dialog \in 1..dialogs
            /\ \A d \in 1..MaxDialogs, l \in Lines :
                  said'[d][l] = IF d = q.dialog /\ l = q.line THEN said[d][l] + 1 ELSE said[d][l]
            /\ voices' = voices \cup {Voice(q)}
            /\ Goes(s, "log", {q})
            /\ UNCHANGED <<show, cast, unfit, waiting, flops, shunned, dialogs, admin>>
      BY <2>9, SaysFacts
    <3>1. TaskFits("log", {q}, dialogs)
      BY DEF TaskFits, Alone
    <3>2. StagesFit'
      BY <1>n, <3>1, StagesKeep
    <3>3. QueuesFit'
      <4>1. UNCHANGED <<cues, subs, dialogs>>
        BY DEF waiting
      <4>2. \A v \in voices' : v.dialog \in 1..dialogs
        BY DEF QueuesFit, Voice
      <4>3. \A d \in 1..MaxDialogs, l \in Lines : said'[d][l] > 0 => d \in 1..dialogs
        BY DEF QueuesFit
      <4> QED BY <1>q, <4>1, <4>2, <4>3 DEF QueuesFit
    <3> QED BY <3>2, <3>3
  <2>10. ASSUME NEW q \in subs, Promotes(s, q) PROVE StagesFit' /\ QueuesFit'
    <3>1. subs' = subs \ {q} /\ UNCHANGED <<cues, dialogs, speech>>
      BY <2>10 DEF Promotes
    <3>2. QueuesFit'
      BY <1>a, <1>q, <3>1
    <3>3. ASSUME NEW p \in Cues, p.dialog = q.dialog, Goes(s, "promote", {p}) PROVE StagesFit'
      <4>1. TaskFits("promote", {p}, dialogs)
        BY <1>q, <3>3 DEF TaskFits, Alone
      <4> QED BY <1>n, <3>1, <3>3, <4>1, StagesKeep
    <3>4. UNCHANGED stage \/ \E p \in Cues : p.dialog = q.dialog /\ Goes(s, "promote", {p})
      BY ZenonT(30), <2>10, PromotesFacts
    <3>5. CASE UNCHANGED stage
      BY <1>b, <3>1, <3>2, <3>5
    <3>6. CASE \E p \in Cues : p.dialog = q.dialog /\ Goes(s, "promote", {p})
      BY <3>2, <3>3, <3>6
    <3> QED BY <3>4, <3>5, <3>6
  <2>11. CASE Allowed(s) \/ Barred(s)
    <3>1. /\ UNCHANGED <<cues, subs, dialogs, speech>> /\ stage[s].at \in Alone
          /\ Enters(s, "sending", stage[s].todo, {}) \/ Enters(s, "handover", stage[s].todo, {})
      BY <2>11 DEF Allowed, Barred, On, waiting, history, Alone
    <3>2. TaskFits("sending", stage[s].todo, dialogs) /\ TaskFits("handover", stage[s].todo, dialogs)
      BY <1>f, <3>1 DEF TaskFits, Alone
    <3>3. Goes(s, "sending", stage[s].todo) \/ Goes(s, "handover", stage[s].todo)
      <4>1. stage[s].todo \in SUBSET Cues /\ {} \in SUBSET Chats
        BY <1>f
      <4> QED BY <3>1, <4>1, SlotGoes
    <3> QED BY <1>a, <1>n, <1>q, <3>1, <3>2, <3>3, StagesKeep
  <2> QED BY <1>3, <2>1, <2>2, <2>3, <2>4, <2>5, <2>6, <2>7, <2>8, <2>9, <2>10, <2>11, PlaysFacts
<1>4. CASE TheatreBurns
  <2>1. Stages \in SUBSET Stages /\ Falls(Stages)
    BY <1>4 DEF TheatreBurns
  <2> QED BY <1>2, <2>1
<1> QED BY <1>1, <1>3, <1>4 DEF ShillNext
-----------------------------------------------------------------------------
\* Nothing is there that was not there before.
LEMMA CopiesShrink ==
  ASSUME OneCopy, SaidLeft, said' = said, cues' \subseteq cues, subs' \subseteq subs,
         \A t \in Stages : ToDo(t)' \subseteq ToDo(t)
  PROVE  OneCopy' /\ SaidLeft'
<1>1. OneCopy'
  BY DEF OneCopy, SameLine
<1>2. SaidLeft'
  BY DEF SaidLeft
<1> QED BY <1>1, <1>2

\* Lines leave a slot for a queue.
LEMMA CopiesQueued ==
  ASSUME OneCopy, SaidLeft, said' = said, NEW s \in Stages, NEW M \in SUBSET ToDo(s),
         \/ cues' \subseteq cues \cup M /\ subs' = subs
         \/ subs' \subseteq subs \cup M /\ cues' = cues,
         ToDo(s)' \subseteq ToDo(s) \ M, \A t \in Stages : t # s => ToDo(t)' = ToDo(t)
  PROVE  OneCopy' /\ SaidLeft'
<1>1. /\ \A q, r \in cues : SameLine(q, r) => q = r
      /\ \A q, r \in subs : SameLine(q, r) => q = r
      /\ \A q \in cues : \A r \in subs : ~SameLine(q, r)
      /\ \A t \in Stages : \A q \in cues \cup subs : \A r \in ToDo(t) : ~SameLine(q, r)
      /\ \A t, u \in Stages : \A q \in ToDo(t) : \A r \in ToDo(u) : SameLine(q, r) => t = u /\ q = r
  BY DEF OneCopy
<1>2. \A t \in Stages : ToDo(t)' \subseteq ToDo(t) \ M
  <2> TAKE t \in Stages
  <2>1. CASE t = s
    BY <2>1
  <2>2. CASE t # s
    BY <1>1, <2>2 DEF SameLine
  <2> QED BY <2>1, <2>2
<1>3. \A q, r : SameLine(q, r) <=> SameLine(r, q)
  BY DEF SameLine
<1>4. CASE cues' \subseteq cues \cup M /\ subs' = subs
  <2>1. \A q, r \in cues' : SameLine(q, r) => q = r
    BY <1>1, <1>3, <1>4
  <2>2. \A q \in cues' : \A r \in subs' : ~SameLine(q, r)
    BY <1>1, <1>3, <1>4
  <2>3. \A t \in Stages : \A q \in cues' \cup subs' : \A r \in ToDo(t)' : ~SameLine(q, r)
    BY <1>1, <1>2, <1>4
  <2>4. \A t, u \in Stages : \A q \in ToDo(t)' : \A r \in ToDo(u)' : SameLine(q, r) => t = u /\ q = r
    BY <1>1, <1>2
  <2>5. OneCopy'
    BY <1>1, <1>4, <2>1, <2>2, <2>3, <2>4 DEF OneCopy, SameLine
  <2>6. SaidLeft'
    BY <1>2, <1>4 DEF SaidLeft
  <2> QED BY <2>5, <2>6
<1>5. CASE subs' \subseteq subs \cup M /\ cues' = cues
  <2>1. \A q, r \in subs' : SameLine(q, r) => q = r
    BY <1>1, <1>3, <1>5
  <2>2. \A q \in cues' : \A r \in subs' : ~SameLine(q, r)
    BY <1>1, <1>3, <1>5
  <2>3. \A t \in Stages : \A q \in cues' \cup subs' : \A r \in ToDo(t)' : ~SameLine(q, r)
    BY <1>1, <1>2, <1>5
  <2>4. \A t, u \in Stages : \A q \in ToDo(t)' : \A r \in ToDo(u)' : SameLine(q, r) => t = u /\ q = r
    BY <1>1, <1>2
  <2>5. OneCopy'
    BY <1>1, <1>5, <2>1, <2>2, <2>3, <2>4 DEF OneCopy, SameLine
  <2>6. SaidLeft'
    BY <1>2, <1>5 DEF SaidLeft
  <2> QED BY <2>5, <2>6
<1> QED BY <1>4, <1>5

\* A line leaves a queue for a slot, under the same number, whoever is to say it.
LEMMA CopiesTaken ==
  ASSUME OneCopy, SaidLeft, said' = said, NEW s \in Stages, NEW q, NEW p, SameLine(p, q), ToDo(s) = {},
         \/ q \in cues /\ cues' = cues \ {q} /\ subs' = subs
         \/ q \in subs /\ subs' = subs \ {q} /\ cues' = cues,
         ToDo(s)' \subseteq {p}, \A t \in Stages : t # s => ToDo(t)' = ToDo(t)
  PROVE  OneCopy' /\ SaidLeft'
<1>1. /\ \A x, y \in cues : SameLine(x, y) => x = y
      /\ \A x, y \in subs : SameLine(x, y) => x = y
      /\ \A x \in cues : \A y \in subs : ~SameLine(x, y)
      /\ \A t \in Stages : \A x \in cues \cup subs : \A y \in ToDo(t) : ~SameLine(x, y)
      /\ \A t, u \in Stages : \A x \in ToDo(t) : \A y \in ToDo(u) : SameLine(x, y) => t = u /\ x = y
  BY DEF OneCopy
<1>2. /\ \A x, y : SameLine(x, y) <=> SameLine(y, x)
      /\ \A x : SameLine(x, p) <=> SameLine(x, q)
      /\ \A x : SameLine(p, x) <=> SameLine(q, x)
  BY DEF SameLine
<1>3. \A x \in cues' \cup subs' : ~SameLine(x, q)
  BY <1>1, <1>2
<1>4. \A t \in Stages : \A x \in cues' \cup subs' : \A y \in ToDo(t)' : ~SameLine(x, y)
  <2> TAKE t \in Stages
  <2>1. CASE t = s
    BY <1>2, <1>3, <2>1
  <2>2. CASE t # s
    BY <1>1, <2>2
  <2> QED BY <2>1, <2>2
<1>5. \A t, u \in Stages : \A x \in ToDo(t)' : \A y \in ToDo(u)' : SameLine(x, y) => t = u /\ x = y
  <2> TAKE t, u \in Stages
  <2>1. CASE t # s /\ u # s
    BY <1>1, <2>1
  <2>2. CASE t = s /\ u # s
    BY <1>1, <1>2, <2>2
  <2>3. CASE t # s /\ u = s
    BY <1>1, <1>2, <2>3
  <2>4. CASE t = s /\ u = s
    BY <2>4
  <2> QED BY <2>1, <2>2, <2>3, <2>4
<1>6. OneCopy'
  <2>1. \A x, y \in cues' : SameLine(x, y) => x = y
    BY <1>1
  <2>2. \A x, y \in subs' : SameLine(x, y) => x = y
    BY <1>1
  <2>3. \A x \in cues' : \A y \in subs' : ~SameLine(x, y)
    BY <1>1
  <2> QED BY <1>4, <1>5, <2>1, <2>2, <2>3 DEF OneCopy, SameLine
<1>7. SaidLeft'
  <2>1. \A d \in 1..MaxDialogs, l \in Lines : said[d][l] > 0 => ~(q.dialog = d /\ q.line = l)
    BY DEF SaidLeft
  <2>2. \A d \in 1..MaxDialogs, l \in Lines : said[d][l] > 0 =>
           \A t \in Stages : \A x \in ToDo(t)' : ~(x.dialog = d /\ x.line = l)
    <3> TAKE d \in 1..MaxDialogs, l \in Lines
    <3> HAVE said[d][l] > 0
    <3> TAKE t \in Stages
    <3>1. CASE t = s
      BY <2>1, <3>1 DEF SameLine
    <3>2. CASE t # s
      BY <3>2 DEF SaidLeft
    <3> QED BY <3>1, <3>2
  <2> QED BY <2>2 DEF SaidLeft
<1> QED BY <1>6, <1>7

\* A line is said.
LEMMA CopiesSaid ==
  ASSUME ShillTypeOK, OneCopy, SaidLeft, NEW s \in Stages, NEW q, ToDo(s) = {q}, q.dialog \in 1..MaxDialogs,
         q.line \in Lines,
         \A d \in 1..MaxDialogs, l \in Lines :
            said'[d][l] = IF d = q.dialog /\ l = q.line THEN said[d][l] + 1 ELSE said[d][l],
         cues' = cues, subs' = subs, ToDo(s)' = {}, \A t \in Stages : t # s => ToDo(t)' = ToDo(t)
  PROVE  OneCopy' /\ SaidLeft'
<1>1. OneCopy'
  <2>1. \A t \in Stages : ToDo(t)' \subseteq ToDo(t)
    OBVIOUS
  <2>2. \A t \in Stages : \A x \in cues' \cup subs' : \A r \in ToDo(t)' : ~SameLine(x, r)
    BY <2>1 DEF OneCopy
  <2>3. \A t, u \in Stages : \A x \in ToDo(t)' : \A r \in ToDo(u)' : SameLine(x, r) => t = u /\ x = r
    BY <2>1 DEF OneCopy
  <2> QED BY <2>2, <2>3 DEF OneCopy
<1>2. \A d \in 1..MaxDialogs, l \in Lines : said[d][l] \in Nat
  <2>1. said \in [1..MaxDialogs -> [Lines -> Nat]]
    BY DEF ShillTypeOK
  <2> QED BY <2>1
<1>3. said[q.dialog][q.line] = 0
  BY <1>2 DEF SaidLeft
<1>4. \A x \in cues \cup subs : ~(x.dialog = q.dialog /\ x.line = q.line)
  BY DEF OneCopy, SameLine
<1>5. \A t \in Stages : \A x \in ToDo(t)' : ~(x.dialog = q.dialog /\ x.line = q.line)
  <2> TAKE t \in Stages
  <2>1. CASE t = s
    BY <2>1
  <2>2. CASE t # s
    BY <2>2 DEF OneCopy, SameLine
  <2> QED BY <2>1, <2>2
<1>6. \A t \in Stages : ToDo(t)' \subseteq ToDo(t)
  OBVIOUS
<1>7. SaidLeft'
  <2>1. ASSUME NEW d \in 1..MaxDialogs, NEW l \in Lines
        PROVE  /\ said'[d][l] <= 1
               /\ said'[d][l] > 0 =>
                     /\ \A x \in cues' \cup subs' : ~(x.dialog = d /\ x.line = l)
                     /\ \A t \in Stages : \A x \in ToDo(t)' : ~(x.dialog = d /\ x.line = l)
    <3>1. CASE d = q.dialog /\ l = q.line
      BY <1>3, <1>4, <1>5, <3>1
    <3>2. CASE ~(d = q.dialog /\ l = q.line)
      <4>1. said'[d][l] = said[d][l]
        BY <3>2
      <4> QED BY <1>6, <4>1 DEF SaidLeft
    <3> QED BY <3>1, <3>2
  <2> QED BY <2>1 DEF SaidLeft
<1> QED BY <1>1, <1>7

\* A dialog gets a number that nothing had.
LEMMA CopiesNumbered ==
  ASSUME ShillingAssumption, ShillTypeOK, StagesFit, QueuesFit, OneCopy, SaidLeft, said' = said, NEW s \in Stages, ToDo(s) = {},
         cues' = cues, subs' = subs, \A t \in Stages : t # s => ToDo(t)' = ToDo(t),
         \A q \in ToDo(s)' : q.dialog = dialogs + 1, \A q, r \in ToDo(s)' : q.line = r.line => q = r
  PROVE  OneCopy' /\ SaidLeft'
<1>1. dialogs \in Nat /\ \A d \in 1..dialogs : d # dialogs + 1
  BY DEF ShillTypeOK, ShillingAssumption
<1>2. /\ \A q \in cues \cup subs : q.dialog # dialogs + 1
      /\ \A t \in Stages : \A q \in ToDo(t) : q.dialog # dialogs + 1
      /\ \A d \in 1..MaxDialogs, l \in Lines : said[d][l] > 0 => d # dialogs + 1
  BY <1>1, HeldType DEF QueuesFit
<1>3. \A t \in Stages : \A x \in cues \cup subs : \A y \in ToDo(t)' : ~SameLine(x, y)
  <2> TAKE t \in Stages
  <2>1. CASE t = s
    BY <1>2, <2>1 DEF SameLine
  <2>2. CASE t # s
    BY <2>2 DEF OneCopy
  <2> QED BY <2>1, <2>2
<1>4. \A t, u \in Stages : \A x \in ToDo(t)' : \A y \in ToDo(u)' : SameLine(x, y) => t = u /\ x = y
  <2> TAKE t, u \in Stages
  <2>1. CASE t # s /\ u # s
    BY <2>1 DEF OneCopy
  <2>2. CASE t = s /\ u # s
    BY <1>2, <2>2 DEF SameLine
  <2>3. CASE t # s /\ u = s
    BY <1>2, <2>3 DEF SameLine
  <2>4. CASE t = s /\ u = s
    BY <2>4 DEF SameLine
  <2> QED BY <2>1, <2>2, <2>3, <2>4
<1>5. OneCopy'
  BY <1>3, <1>4 DEF OneCopy, SameLine
<1>6. \A d \in 1..MaxDialogs, l \in Lines : said[d][l] > 0 =>
           \A t \in Stages : \A x \in ToDo(t)' : ~(x.dialog = d /\ x.line = l)
  <2> TAKE d \in 1..MaxDialogs, l \in Lines
  <2> HAVE said[d][l] > 0
  <2> TAKE t \in Stages
  <2>1. CASE t = s
    BY <1>2, <2>1
  <2>2. CASE t # s
    BY <2>2 DEF SaidLeft
  <2> QED BY <2>1, <2>2
<1>7. SaidLeft'
  BY <1>6 DEF SaidLeft
<1> QED BY <1>5, <1>7

LEMMA CopiesKeep ==
  ASSUME ShillingAssumption, ShillTypeOK, StagesFit, QueuesFit, CopiesFit, ShillNext
  PROVE  CopiesFit'
<1> USE PlacesAre
<1>n. cues \subseteq Cues /\ subs \subseteq Cues /\ mishaps_ \in Nat
  BY DEF ShillTypeOK
<1>f. \A s \in Stages : TaskFits(stage[s].at, stage[s].todo, dialogs) /\ stage[s].todo \in SUBSET Cues
  BY SlotType DEF StagesFit
<1>1. CASE StartShow \/ StopShow \/ \E a \in Actors : Cast(a) \/ Uncast(a)
  <2>1. UNCHANGED <<stage, cues, subs, said, mishaps_>>
    BY <1>1 DEF StartShow, StopShow, Cast, Uncast, waiting, history, speech, admin
  <2>2. \A t \in Stages : ToDo(t)' = ToDo(t)
    BY <2>1 DEF ToDo
  <2>3. OneCopy /\ SaidLeft => OneCopy' /\ SaidLeft'
    BY <2>1, <2>2, CopiesShrink
  <2> QED BY <2>1, <2>3 DEF CopiesFit
\* After a mishap nothing is claimed.
<1>2. ASSUME NEW S \in SUBSET Stages, Falls(S) PROVE CopiesFit'
  BY <1>n, <1>2, FallsFacts DEF CopiesFit
<1>3. ASSUME NEW s \in Stages, Plays(s) PROVE CopiesFit'
  <2>c. SUFFICES ASSUME mishaps_ = 0, OneCopy, SaidLeft, ~Stumbles(s)
                 PROVE  OneCopy' /\ SaidLeft'
    <3>1. CASE Stumbles(s)
      <4>1. {s} \in SUBSET Stages /\ Falls({s})
        BY <3>1 DEF Stumbles
      <4> QED BY <1>2, <4>1
    <3>2. CASE ~Stumbles(s)
      <4>1. mishaps_' = mishaps_
        BY <1>3, <3>2 DEF Plays, Opens, Resolves, ResolveRefused, ResolveRaises, Schedules, Defers, Allowed, Says,
             Logs, Fluffs, Barred, HandsOver, StepsIn, SendsTo, Visits, Enacts, Promotes, admin
      <4> QED BY <3>2, <4>1 DEF CopiesFit
    <3> QED BY <3>1, <3>2
  \* A slot that got rid of what it had, or had nothing to do.
  <2>s. ASSUME UNCHANGED <<cues, subs, said>>, NEW place, NEW todo, Goes(s, place, todo),
               place \in {"log", "resolve"} \/ todo \subseteq ToDo(s)
        PROVE  OneCopy' /\ SaidLeft'
    <3>1. \A t \in Stages : ToDo(t)' \subseteq ToDo(t)
      BY <2>s, GoesToDo
    <3> QED BY <2>c, <2>s, <3>1, CopiesShrink
  <2>u. ASSUME stage' = stage, cues' \subseteq cues, subs' \subseteq subs, said' = said PROVE OneCopy' /\ SaidLeft'
    <3>1. \A t \in Stages : ToDo(t)' = ToDo(t)
      BY <2>u DEF ToDo
    <3> QED BY <2>c, <2>u, <3>1, CopiesShrink
  <2>1. CASE UNCHANGED <<stage, cast, cues, subs, history, admin>>
    BY <2>1, <2>u DEF history, speech
  <2>3. CASE /\ \/ (\E c \in SUBSET Chats : stage[s].at \in {"empty", "opening"} /\ Enters(s, "opening", {}, c))
                \/ Exits(s)
             /\ UNCHANGED <<cast, cues, subs, dialogs, speech, admin>>
    <3>1. ASSUME NEW c \in SUBSET Chats, Enters(s, "opening", {}, c) PROVE Goes(s, "opening", {})
      <4>1. {} \in SUBSET Cues
        OBVIOUS
      <4> QED BY <3>1, <4>1, SlotGoes
    <3>2. Goes(s, "opening", {}) \/ Goes(s, "empty", {})
      BY <2>3, <3>1, SlotEmptied
    <3>3. UNCHANGED <<cues, subs, said>>
      BY <2>3 DEF speech
    <3> QED BY <2>s, <3>2, <3>3
  <2>4. ASSUME NEW c \in Chats, Visits(s, c) PROVE OneCopy' /\ SaidLeft'
    <3>1. UNCHANGED <<cues, subs, said>>
      BY <2>4 DEF Visits, history, speech
    <3>2. ASSUME NEW f \in Lineups, Enters(s, "resolve", Plan(f, c), {c}) PROVE OneCopy' /\ SaidLeft'
      <4>1. Plan(f, c) \in SUBSET Cues
        BY LineupFacts
      <4>2. Goes(s, "resolve", Plan(f, c))
        BY <3>2, <4>1, SlotGoes
      <4> QED BY <2>s, <3>1, <4>2
    <3>3. stage' = stage \/ \E f \in Lineups : Enters(s, "resolve", Plan(f, c), {c})
      BY <2>4 DEF Visits
    <3> QED BY <2>u, <3>1, <3>2, <3>3
  <2>5. CASE Resolves(s)
    <3> DEFINE todo == {[q EXCEPT !.dialog = dialogs + 1] : q \in stage[s].todo}
    <3>1. dialogs + 1 \in 0..MaxDialogs /\ stage[s].at = "resolve"
      BY <2>5 DEF Resolves, On, ShillTypeOK, ShillingAssumption
    <3>2. /\ todo \in SUBSET Cues
          /\ \A r \in todo : \E q \in stage[s].todo :
                r.dialog = dialogs + 1 /\ r.line = q.line /\ r = [q EXCEPT !.dialog = dialogs + 1]
      BY <1>f, <3>1, NumberedFacts
    <3> HIDE DEF todo
    <3>3. Enters(s, "plan", todo, stage[s].chat)
      BY <2>5 DEF Resolves, todo
    <3>4. Goes(s, "plan", todo)
      BY <3>2, <3>3, SlotGoes, SlotType
    <3>5. \A q, r \in stage[s].todo : q.line = r.line => q = r
      BY <1>f, <3>1 DEF TaskFits
    <3>6. ToDo(s)' = todo /\ ToDo(s) = {} /\ \A t \in Stages : t # s => ToDo(t)' = ToDo(t)
      BY <3>1, <3>4, GoesToDo DEF ToDo
    <3>7. (\A q \in todo : q.dialog = dialogs + 1) /\ \A q, r \in todo : q.line = r.line => q = r
      BY <3>2, <3>5
    <3>8. UNCHANGED <<cues, subs, said>>
      BY <2>5 DEF Resolves, waiting, speech
    <3> QED BY <2>c, <3>6, <3>7, <3>8, CopiesNumbered
  <2>6. CASE Schedules(s)
    <3> PICK q \in stage[s].todo :
          /\ cues' = cues \cup {q}
          /\ IF stage[s].todo = {q} THEN Exits(s) ELSE Enters(s, "plan", stage[s].todo \ {q}, stage[s].chat)
      BY <2>6 DEF Schedules
    <3> DEFINE rest == stage[s].todo \ {q}
    <3>1. stage[s].at = "plan" /\ UNCHANGED <<subs, said>>
      BY <2>6 DEF Schedules, On, history, speech
    <3>2. rest \in SUBSET Cues /\ ToDo(s) = stage[s].todo /\ (stage[s].todo = {q} => rest = {})
      BY <1>f, <3>1 DEF ToDo
    <3>3. Goes(s, "empty", rest) \/ Goes(s, "plan", rest)
      <4>1. CASE stage[s].todo = {q}
        BY <3>2, <4>1, SlotEmptied
      <4>2. CASE stage[s].todo # {q}
        BY <3>2, <4>2, SlotGoes, SlotType
      <4> QED BY <4>1, <4>2
    <3>4. ToDo(s)' = rest /\ \A t \in Stages : t # s => ToDo(t)' = ToDo(t)
      BY <3>3, GoesToDo
    <3>5. {q} \in SUBSET ToDo(s) /\ ToDo(s)' \subseteq ToDo(s) \ {q}
      BY <3>2, <3>4
    <3> QED BY <2>c, <3>1, <3>4, <3>5, CopiesQueued
  <2>7. ASSUME NEW q \in cues, Enacts(s, q) PROVE OneCopy' /\ SaidLeft'
    <3>1. cues' = cues \ {q} /\ UNCHANGED <<subs, said>> /\ stage[s].at = "empty"
      BY <2>7 DEF Enacts, On, history, speech
    <3>2. CASE Enters(s, "governor", {q}, {})
      <4>1. {q} \in SUBSET Cues /\ {} \in SUBSET Chats
        BY <1>n
      <4>2. Goes(s, "governor", {q})
        BY <3>2, <4>1, SlotGoes
      <4>3. ToDo(s)' = {q} /\ ToDo(s) = {} /\ \A t \in Stages : t # s => ToDo(t)' = ToDo(t)
        BY <1>f, <3>1, <4>2, GoesToDo DEF ToDo, TaskFits
      <4>4. SameLine(q, q)
        BY DEF SameLine
      <4> QED BY <2>c, <3>1, <4>3, <4>4, CopiesTaken
    <3>3. stage' = stage \/ Enters(s, "governor", {q}, {})
      BY <2>7 DEF Enacts
    <3> QED BY <2>u, <3>1, <3>2, <3>3
  <2>8. CASE Defers(s) \/ Fluffs(s) \/ StepsIn(s) \/ HandsOver(s)
    <3>1. /\ Exits(s) /\ said' = said /\ stage[s].at \in {"governor", "sending", "promote", "handover"}
          /\ \/ cues' \subseteq cues \cup stage[s].todo /\ subs' = subs
             \/ subs' \subseteq subs \cup stage[s].todo /\ cues' = cues
      BY <2>8 DEF Defers, Fluffs, StepsIn, HandsOver, On, history, speech
    <3>2. ToDo(s) = stage[s].todo
      BY <3>1 DEF ToDo
    <3>3. ToDo(s)' = {} /\ \A t \in Stages : t # s => ToDo(t)' = ToDo(t)
      BY <3>1, SlotLeft
    <3>4. stage[s].todo \in SUBSET ToDo(s) /\ ToDo(s)' \subseteq ToDo(s) \ stage[s].todo
      BY <3>2, <3>3
    <3> QED BY <2>c, <3>1, <3>3, <3>4, CopiesQueued
  <2>9. CASE Says(s)
    <3> PICK q \in stage[s].todo :
            /\ ToDo(s) = {q} /\ q.dialog \in 1..MaxDialogs /\ q.line \in Lines
            /\ \A d \in 1..MaxDialogs, l \in Lines :
                  said'[d][l] = IF d = q.dialog /\ l = q.line THEN said[d][l] + 1 ELSE said[d][l]
            /\ ToDo(s)' = {} /\ \A t \in Stages : t # s => ToDo(t)' = ToDo(t)
            /\ UNCHANGED <<show, cast, unfit, waiting, flops, shunned, dialogs, admin>>
      BY <2>9, SaysFacts
    <3>1. cues' = cues /\ subs' = subs
      BY DEF waiting
    <3> QED BY <2>c, <3>1, CopiesSaid
  <2>10. ASSUME NEW q \in subs, Promotes(s, q) PROVE OneCopy' /\ SaidLeft'
    <3>1. subs' = subs \ {q} /\ UNCHANGED <<cues, said>> /\ stage[s].at = "empty"
      BY <2>10 DEF Promotes, On, speech
    <3>2. ASSUME NEW p \in Cues, p.dialog = q.dialog, p.line = q.line, Goes(s, "promote", {p})
          PROVE  OneCopy' /\ SaidLeft'
      <4>1. ToDo(s)' = {p} /\ ToDo(s) = {} /\ \A t \in Stages : t # s => ToDo(t)' = ToDo(t)
        BY <1>f, <3>1, <3>2, GoesToDo DEF ToDo, TaskFits
      <4>2. SameLine(p, q)
        BY <3>2 DEF SameLine
      <4> QED BY <2>c, <3>1, <4>1, <4>2, CopiesTaken
    <3>3. stage' = stage \/ \E p \in Cues : p.dialog = q.dialog /\ p.line = q.line /\ Goes(s, "promote", {p})
      BY ZenonT(30), <2>10, PromotesFacts
    <3>4. CASE stage' = stage
      BY <2>u, <3>1, <3>4
    <3>5. CASE \E p \in Cues : p.dialog = q.dialog /\ p.line = q.line /\ Goes(s, "promote", {p})
      BY <3>2, <3>5
    <3> QED BY <3>3, <3>4, <3>5
  <2>11. CASE Allowed(s) \/ Barred(s)
    <3>1. /\ UNCHANGED <<cues, subs, said>> /\ stage[s].at \in {"governor", "sending"}
          /\ Enters(s, "sending", stage[s].todo, {}) \/ Enters(s, "handover", stage[s].todo, {})
      BY <2>11 DEF Allowed, Barred, On, waiting, history, speech
    <3>2. ToDo(s) = stage[s].todo
      BY <3>1 DEF ToDo
    <3>3. Goes(s, "sending", stage[s].todo) \/ Goes(s, "handover", stage[s].todo)
      <4>1. stage[s].todo \in SUBSET Cues /\ {} \in SUBSET Chats
        BY <1>f
      <4> QED BY <3>1, <4>1, SlotGoes
    <3> QED BY <2>s, <3>1, <3>2, <3>3
  <2> QED BY <1>3, <2>c, <2>1, <2>3, <2>4, <2>5, <2>6, <2>7, <2>8, <2>9, <2>10, <2>11, PlaysFacts
<1>4. CASE TheatreBurns
  <2>1. Stages \in SUBSET Stages /\ Falls(Stages)
    BY <1>4 DEF TheatreBurns
  <2> QED BY <1>2, <2>1
<1> QED BY <1>1, <1>3, <1>4 DEF ShillNext
-----------------------------------------------------------------------------
LEMMA HeldGoes ==
  ASSUME NEW s \in Stages, NEW place, NEW todo, Goes(s, place, todo), cues' \subseteq Awaited, subs' \subseteq Awaited,
         place = "resolve" \/ todo \subseteq Awaited
  PROVE  Awaited' \subseteq Awaited
<1>1. ASSUME NEW q \in Awaited' PROVE q \in Awaited
  <2>1. q \in cues' \/ q \in subs' \/ \E t \in Stages : stage'[t].at # "resolve" /\ q \in stage'[t].todo
    BY DEF Awaited
  <2>2. ASSUME NEW t \in Stages, stage'[t].at # "resolve", q \in stage'[t].todo PROVE q \in Awaited
    <3>1. CASE t = s
      BY <2>2, <3>1 DEF Goes
    <3>2. CASE t # s
      <4>1. stage'[t] = stage[t]
        BY <3>2 DEF Goes
      <4> QED BY <2>2, <4>1 DEF Awaited
    <3> QED BY <3>1, <3>2
  <2> QED BY <2>1, <2>2
<1> QED BY <1>1

LEMMA RolesType ==
  ASSUME ShillTypeOK, StagesFit, QueuesFit
  PROVE  /\ \A v \in Roles : v.actor \in Actors /\ v.dialog \in 1..dialogs
         /\ \A q \in Awaited : Voice(q) \in Roles
         /\ \A q : Voice(q).dialog = q.dialog /\ Voice(q).actor = q.actor /\ Voice(q).part = PartOf[q.line]
         /\ cues \subseteq Awaited /\ subs \subseteq Awaited /\ voices \subseteq Roles
         /\ \A s \in Stages : stage[s].at # "resolve" => stage[s].todo \subseteq Awaited
<1>1. \A q : Voice(q).dialog = q.dialog /\ Voice(q).actor = q.actor /\ Voice(q).part = PartOf[q.line]
  BY DEF Voice
<1>2. \A q \in Awaited : q.dialog \in 1..dialogs /\ q.actor \in Actors
  BY HeldType, CueFields
<1>3. \A v \in voices : v.actor \in Actors /\ v.dialog \in 1..dialogs
  BY DEF ShillTypeOK, QueuesFit
<1>4. \A v \in Roles : v.actor \in Actors /\ v.dialog \in 1..dialogs
  BY <1>1, <1>2, <1>3 DEF Roles
<1>5. cues \subseteq Awaited /\ subs \subseteq Awaited /\ \A s \in Stages : stage[s].at # "resolve" => stage[s].todo \subseteq Awaited
  BY DEF Awaited
<1> QED BY <1>1, <1>4, <1>5 DEF Roles

LEMMA PartsSame ==
  ASSUME ShillTypeOK, StagesFit, QueuesFit, PartsFit, voices' \subseteq Roles, Awaited' \subseteq Awaited, recast \subseteq recast',
         \A a \in Actors : a \notin recast' /\ cast'[a].as = "reserve" => cast[a].as = "reserve",
         \A s \in Stages : stage'[s].at = "resolve" => stage[s].at = "resolve" /\ stage'[s].todo = stage[s].todo
  PROVE  PartsFit'
<1>1. \A v \in Roles' : v \in Roles
  <2>1. \A v \in Roles' : v \in voices' \/ \E q \in Awaited' : v = Voice(q)
    BY DEF Roles, Voice
  <2> QED BY <2>1, RolesType
<1>2. \A v, w \in Roles' :
          v.dialog = w.dialog /\ v.actor = w.actor /\ v.actor \notin recast' => v.part = w.part
  BY <1>1 DEF PartsFit
<1>3. \A v \in Roles' : v.actor \notin recast' => cast'[v.actor].as # "reserve"
  BY <1>1, RolesType DEF PartsFit
<1>4. \A s \in Stages : stage'[s].at = "resolve" =>
          /\ \A q, r \in stage'[s].todo : q.actor = r.actor => PartOf[q.line] = PartOf[r.line]
          /\ \A q \in stage'[s].todo : q.actor \notin recast' => cast'[q.actor].as # "reserve"
  <2> TAKE s \in Stages
  <2> HAVE stage'[s].at = "resolve"
  <2>1. \A q \in stage[s].todo : q.actor \in Actors
    BY SlotType, CueFields
  <2> QED BY <2>1 DEF PartsFit
<1> QED BY <1>2, <1>3, <1>4 DEF PartsFit

LEMMA PartsKeep ==
  ASSUME ShillingAssumption, ShillTypeOK, StagesFit, QueuesFit, PartsFit, ShillNext
  PROVE  PartsFit'
<1> USE PlacesAre
<1>n. /\ cues \subseteq Cues /\ subs \subseteq Cues /\ cues \subseteq Awaited /\ subs \subseteq Awaited /\ voices \subseteq Roles
      /\ \A s \in Stages : stage[s].at # "resolve" => stage[s].todo \subseteq Awaited
  BY RolesType DEF ShillTypeOK
<1>f. \A s \in Stages : TaskFits(stage[s].at, stage[s].todo, dialogs) /\ stage[s].todo \in SUBSET Cues
  BY SlotType DEF StagesFit
<1>1. CASE StartShow \/ StopShow
  <2>1. UNCHANGED <<stage, cues, subs, voices, cast, recast>>
    BY <1>1 DEF StartShow, StopShow, waiting, history, speech, admin
  <2>2. Awaited' = Awaited
    BY <2>1 DEF Awaited
  <2> QED BY <1>n, <2>1, <2>2, PartsSame
<1>2. ASSUME NEW a \in Actors, Cast(a) \/ Uncast(a) PROVE PartsFit'
  <2>1. /\ UNCHANGED <<stage, cues, subs, voices, dialogs>>
        /\ recast' = IF Drawn THEN recast \cup {a} ELSE recast
        /\ \A b \in Actors : b # a => cast'[b] = cast[b]
    BY <1>2, CastFacts DEF waiting, history, speech
  <2>2. Awaited' = Awaited
    BY <2>1 DEF Awaited
  <2>3. CASE Drawn
    BY <1>n, <2>1, <2>2, <2>3, PartsSame
  <2>4. CASE ~Drawn
    <3>1. dialogs = 0 /\ \A s \in Stages : stage'[s].at # "resolve"
      BY <2>1, <2>4 DEF Drawn, ShillTypeOK, ShillingAssumption
    <3>2. \A v \in Roles : FALSE
      BY <3>1, RolesType
    <3>3. Roles' = Roles
      BY <2>1, <2>2 DEF Roles, Voice
    <3> QED BY <3>1, <3>2, <3>3 DEF PartsFit
  <2> QED BY <2>3, <2>4
<1>3. ASSUME NEW S \in SUBSET Stages, Falls(S) PROVE PartsFit'
  <2>1. /\ cues' \subseteq Awaited /\ UNCHANGED <<subs, voices, cast, recast>>
        /\ \A s \in Stages : stage'[s] = IF s \in S THEN Bare ELSE stage[s]
    BY <1>3, FallsFacts
  <2>2. Bare.todo = {} /\ Bare.at = "empty"
    BY DEF Bare
  <2>3. \A s \in Stages : /\ stage'[s].todo \subseteq stage[s].todo
                          /\ stage'[s].at # "resolve" => stage'[s].todo \subseteq Awaited
                          /\ stage'[s].at = "resolve" => stage'[s] = stage[s]
    <3> TAKE s \in Stages
    <3>1. CASE s \in S
      <4>1. stage'[s].todo = {} /\ stage'[s].at = "empty"
        BY <2>1, <2>2, <3>1
      <4> QED BY <4>1
    <3>2. CASE s \notin S
      <4>1. stage'[s] = stage[s]
        BY <2>1, <3>2
      <4> QED BY <1>n, <4>1
    <3> QED BY <3>1, <3>2
  <2>4. Awaited' \subseteq Awaited
    <3>1. \A q \in Awaited' : q \in cues' \/ q \in subs' \/ \E s \in Stages : stage'[s].at # "resolve" /\ q \in stage'[s].todo
      BY DEF Awaited
    <3> QED BY <1>n, <2>1, <2>3, <3>1
  <2> QED BY <1>n, <2>1, <2>3, <2>4, PartsSame
<1>4. ASSUME NEW s \in Stages, Plays(s) PROVE PartsFit'
  \* Lines go from hand to hand.
  <2>s. ASSUME NEW place, NEW todo, Goes(s, place, todo), place # "resolve", todo \subseteq Awaited,
               cues' \subseteq Awaited, subs' \subseteq Awaited, voices' \subseteq Roles, recast' = recast,
               \A a \in Actors : cast'[a].as = "reserve" => cast[a].as = "reserve"
        PROVE  PartsFit'
    <3>1. Awaited' \subseteq Awaited
      BY <2>s, HeldGoes
    <3>2. \A t \in Stages : stage'[t].at = "resolve" => stage[t].at = "resolve" /\ stage'[t].todo = stage[t].todo
      BY <2>s DEF Goes
    <3> QED BY <2>s, <3>1, <3>2, PartsSame
  <2>u. ASSUME stage' = stage, cues' \subseteq cues, subs' \subseteq subs, UNCHANGED <<voices, cast, recast>> PROVE PartsFit'
    <3>1. Awaited' \subseteq Awaited
      BY <2>u DEF Awaited
    <3> QED BY <1>n, <2>u, <3>1, PartsSame
  <2>0. {} \subseteq Awaited
    OBVIOUS
  <2>1. CASE UNCHANGED <<stage, cast, cues, subs, history, admin>>
    BY <2>1, <2>u DEF history, speech, admin
  <2>2. CASE Stumbles(s)
    <3>1. {s} \in SUBSET Stages /\ Falls({s})
      BY <2>2 DEF Stumbles
    <3> QED BY <1>3, <3>1
  <2>3. CASE /\ \/ (\E c \in SUBSET Chats : stage[s].at \in {"empty", "opening"} /\ Enters(s, "opening", {}, c))
                \/ Exits(s)
             /\ UNCHANGED <<cast, cues, subs, dialogs, speech, admin>>
    <3>1. ASSUME NEW c \in SUBSET Chats, Enters(s, "opening", {}, c) PROVE Goes(s, "opening", {})
      <4>1. {} \in SUBSET Cues
        OBVIOUS
      <4> QED BY <3>1, <4>1, SlotGoes
    <3>2. Goes(s, "opening", {}) \/ Goes(s, "empty", {})
      BY <2>3, <3>1, SlotEmptied
    <3>3. UNCHANGED <<cues, subs, voices, cast, recast>>
      BY <2>3 DEF speech, admin
    <3> QED BY <1>n, <2>0, <2>s, <3>2, <3>3
  <2>4. ASSUME NEW c \in Chats, Visits(s, c) PROVE PartsFit'
    <3>1. UNCHANGED <<cues, subs, voices, cast, recast>>
      BY <2>4 DEF Visits, history, speech, admin
    <3>2. ASSUME NEW f \in Lineups, Enters(s, "resolve", Plan(f, c), {c}) PROVE PartsFit'
      <4>1. /\ Plan(f, c) \in SUBSET Cues
            /\ \A p \in DOMAIN f : f[p] \in Primary
            /\ \A p, q \in DOMAIN f : f[p] = f[q] => p = q
            /\ \A q \in Plan(f, c) : PartOf[q.line] \in DOMAIN f /\ q.actor = f[PartOf[q.line]]
        BY LineupFacts
      <4>2. Goes(s, "resolve", Plan(f, c))
        BY <3>2, <4>1, SlotGoes
      <4>3. Awaited' \subseteq Awaited
        BY <1>n, <3>1, <4>2, HeldGoes
      <4>4. \A v \in Roles' : v \in Roles
        <5>1. \A v \in Roles' : v \in voices' \/ \E q \in Awaited' : v = Voice(q)
          BY DEF Roles, Voice
        <5> QED BY <3>1, <4>3, <5>1 DEF Roles
      <4>5. \A q \in Plan(f, c) : cast[q.actor].as # "reserve"
        BY <4>1 DEF Primary
      <4>6. \A q, r \in Plan(f, c) : q.actor = r.actor => PartOf[q.line] = PartOf[r.line]
        BY <4>1
      <4>7. \A t \in Stages : stage'[t].at = "resolve" =>
              /\ \A q, r \in stage'[t].todo : q.actor = r.actor => PartOf[q.line] = PartOf[r.line]
              /\ \A q \in stage'[t].todo : q.actor \notin recast => cast[q.actor].as # "reserve"
        <5> TAKE t \in Stages
        <5>1. CASE t = s
          BY <4>2, <4>5, <4>6, <5>1 DEF Goes
        <5>2. CASE t # s
          <6>1. stage'[t] = stage[t]
            BY <4>2, <5>2 DEF Goes
          <6> QED BY <6>1 DEF PartsFit
        <5> QED BY <5>1, <5>2
      <4> QED BY <3>1, <4>4, <4>7 DEF PartsFit
    <3>3. stage' = stage \/ \E f \in Lineups : Enters(s, "resolve", Plan(f, c), {c})
      BY <2>4 DEF Visits
    <3> QED BY <2>u, <3>1, <3>2, <3>3
  <2>5. CASE Resolves(s)
    <3> DEFINE todo == {[q EXCEPT !.dialog = dialogs + 1] : q \in stage[s].todo}
    <3>1. dialogs + 1 \in 0..MaxDialogs /\ stage[s].at = "resolve" /\ dialogs \in Nat
      BY <2>5 DEF Resolves, On, ShillTypeOK, ShillingAssumption
    <3>2. /\ todo \in SUBSET Cues
          /\ \A r \in todo : \E q \in stage[s].todo :
                r.dialog = dialogs + 1 /\ r.line = q.line /\ r.actor = q.actor
      BY <1>f, <3>1, NumberedFacts
    <3> HIDE DEF todo
    <3>3. Enters(s, "plan", todo, stage[s].chat)
      BY <2>5 DEF Resolves, todo
    <3>4. Goes(s, "plan", todo)
      BY <3>2, <3>3, SlotGoes, SlotType
    <3>5. UNCHANGED <<cues, subs, voices, cast, recast>>
      BY <2>5 DEF Resolves, waiting, speech, admin
    <3>6. \A q \in Awaited' : q \in Awaited \/ q \in todo
      <4>1. \A q \in Awaited' : q \in cues \/ q \in subs \/ \E t \in Stages : stage'[t].at # "resolve" /\ q \in stage'[t].todo
        BY <3>5 DEF Awaited
      <4>2. ASSUME NEW t \in Stages, stage'[t].at # "resolve" PROVE stage'[t].todo \subseteq Awaited \cup todo
        <5>1. CASE t = s
          BY <3>4, <5>1 DEF Goes
        <5>2. CASE t # s
          <6>1. stage'[t] = stage[t]
            BY <3>4, <5>2 DEF Goes
          <6> QED BY <1>n, <4>2, <6>1
        <5> QED BY <5>1, <5>2
      <4> QED BY <1>n, <4>1, <4>2
    <3>7. \A v \in Roles' : v \in Roles \/ \E q \in stage[s].todo : v.dialog = dialogs + 1 /\ v.actor = q.actor
                                                                 /\ v.part = PartOf[q.line]
      <4>1. \A v \in Roles' : v \in voices' \/ \E q \in Awaited' : v = Voice(q)
        BY DEF Roles, Voice
      <4>2. \A q \in todo : \E p \in stage[s].todo : Voice(q).dialog = dialogs + 1 /\ Voice(q).actor = p.actor
                                                     /\ Voice(q).part = PartOf[p.line]
        BY <3>2, RolesType
      <4> QED BY <3>5, <3>6, <4>1, <4>2 DEF Roles
    <3>8. \A v \in Roles : v.dialog # dialogs + 1
      BY <3>1, RolesType
    <3>9. /\ \A q, r \in stage[s].todo : q.actor = r.actor => PartOf[q.line] = PartOf[r.line]
          /\ \A q \in stage[s].todo : q.actor \notin recast => cast[q.actor].as # "reserve"
      BY <3>1 DEF PartsFit
    <3>10. /\ \A v, w \in Roles :
                 v.dialog = w.dialog /\ v.actor = w.actor /\ v.actor \notin recast => v.part = w.part
           /\ \A v \in Roles : v.actor \notin recast => cast[v.actor].as # "reserve"
      BY DEF PartsFit
    <3>11. \A v, w \in Roles' :
                 v.dialog = w.dialog /\ v.actor = w.actor /\ v.actor \notin recast => v.part = w.part
      BY <3>7, <3>8, <3>9, <3>10
    <3>12. \A v \in Roles' : v.actor \notin recast => cast[v.actor].as # "reserve"
      BY <3>7, <3>9, <3>10
    <3>13. \A t \in Stages : stage'[t].at = "resolve" => stage'[t] = stage[t]
      BY <3>4 DEF Goes
    <3> QED BY <3>5, <3>11, <3>12, <3>13 DEF PartsFit
  <2>6. CASE Schedules(s)
    <3> PICK q \in stage[s].todo :
          /\ cues' = cues \cup {q}
          /\ Exits(s) \/ Enters(s, "plan", stage[s].todo \ {q}, stage[s].chat)
      BY <2>6 DEF Schedules
    <3> DEFINE rest == stage[s].todo \ {q}
    <3>1. stage[s].at = "plan" /\ UNCHANGED <<subs, voices, cast, recast>>
      BY <2>6 DEF Schedules, On, history, speech, admin
    <3>2. rest \in SUBSET Cues /\ rest \subseteq Awaited /\ q \in Awaited
      BY <1>f, <1>n, <3>1
    <3>3. Goes(s, "empty", {}) \/ Goes(s, "plan", rest)
      BY <3>2, SlotEmptied, SlotGoes, SlotType
    <3> HIDE DEF rest
    <3> QED BY <1>n, <2>0, <2>s, <3>1, <3>2, <3>3
  <2>7. ASSUME NEW q \in cues, Enacts(s, q) PROVE PartsFit'
    <3>1. cues' \subseteq cues /\ UNCHANGED <<subs, voices, cast, recast>>
      BY <2>7 DEF Enacts, history, speech, admin
    <3>2. CASE Enters(s, "governor", {q}, {})
      <4>1. {q} \in SUBSET Cues /\ {} \in SUBSET Chats /\ {q} \subseteq Awaited
        BY <1>n
      <4>2. Goes(s, "governor", {q})
        BY <3>2, <4>1, SlotGoes
      <4> QED BY <1>n, <2>s, <3>1, <4>1, <4>2
    <3>3. stage' = stage \/ Enters(s, "governor", {q}, {})
      BY <2>7 DEF Enacts
    <3> QED BY <2>u, <3>1, <3>2, <3>3
  <2>8. CASE Defers(s) \/ Fluffs(s) \/ StepsIn(s) \/ HandsOver(s)
    <3>1. /\ Exits(s) /\ UNCHANGED <<voices, cast, recast>> /\ stage[s].at # "resolve"
          /\ cues' \subseteq cues \cup stage[s].todo /\ subs' \subseteq subs \cup stage[s].todo
      BY <2>8 DEF Defers, Fluffs, StepsIn, HandsOver, On, history, speech, admin
    <3>2. Goes(s, "empty", {}) /\ cues' \subseteq Awaited /\ subs' \subseteq Awaited
      BY <1>n, <3>1, SlotEmptied
    <3> QED BY <1>n, <2>0, <2>s, <3>1, <3>2
  <2>9. CASE Says(s)
    <3> PICK q \in stage[s].todo :
            /\ stage[s].at = "sending" /\ voices' = voices \cup {Voice(q)}
            /\ Goes(s, "log", {q})
            /\ UNCHANGED <<show, cast, unfit, waiting, flops, shunned, dialogs, admin>>
      BY <2>9, SaysFacts
    <3>1. {q} \subseteq Awaited /\ voices' \subseteq Roles
      BY <1>n, RolesType
    <3>2. UNCHANGED <<cues, subs, cast, recast>>
      BY DEF waiting, admin
    <3> QED BY <1>n, <2>s, <3>1, <3>2
  <2>10. ASSUME NEW q \in subs, Promotes(s, q) PROVE PartsFit'
    <3>1. subs' \subseteq subs /\ UNCHANGED <<cues, dialogs, voices, recast>>
      BY <2>10 DEF Promotes, speech, admin
    <3>2. ASSUME NEW r \in Actors, NEW p \in Cues, r # q.actor, cast[r].as = "reserve",
                 p.dialog = q.dialog, p.line = q.line, p.actor = r, Goes(s, "promote", {p}),
                 cast'[r].as = "primary", cast'[q.actor].as = "none",
                 \A a \in Actors : a # r /\ a # q.actor => cast'[a] = cast[a]
          PROVE  PartsFit'
      <4>1. \A x \in Awaited' : x \in Awaited \/ x = p
        <5>1. \A x \in Awaited' : x \in cues' \/ x \in subs' \/ \E t \in Stages : stage'[t].at # "resolve" /\ x \in stage'[t].todo
          BY DEF Awaited
        <5>2. ASSUME NEW t \in Stages, stage'[t].at # "resolve" PROVE stage'[t].todo \subseteq Awaited \cup {p}
          <6>1. CASE t = s
            BY <3>2, <6>1 DEF Goes
          <6>2. CASE t # s
            <7>1. stage'[t] = stage[t]
              BY <3>2, <6>2 DEF Goes
            <7> QED BY <1>n, <5>2, <7>1
          <6> QED BY <6>1, <6>2
        <5> QED BY <1>n, <3>1, <5>1, <5>2
      <4>2. \A v \in Roles' : v \in Roles \/ v = Voice(p)
        <5>1. \A v \in Roles' : v \in voices' \/ \E x \in Awaited' : v = Voice(x)
          BY DEF Roles, Voice
        <5> QED BY <3>1, <4>1, <5>1 DEF Roles
      <4>3. Voice(p).actor = r
        BY <3>2, RolesType
      \* Nobody heard the reserve before, unless his place was edited.
      <4>4. r \notin recast => \A v \in Roles : v.actor # r
        BY <3>2 DEF PartsFit
      <4>5. \A v, w \in Roles' :
                 v.dialog = w.dialog /\ v.actor = w.actor /\ v.actor \notin recast => v.part = w.part
        BY <4>2, <4>3, <4>4 DEF PartsFit
      <4>6. \A a \in Actors : cast'[a].as = "reserve" => cast[a].as = "reserve"
        <5> TAKE a \in Actors
        <5>1. CASE a = r
          BY <3>2, <5>1
        <5>2. CASE a = q.actor
          BY <3>2, <5>2
        <5>3. CASE a # r /\ a # q.actor
          BY <3>2, <5>3
        <5> QED BY <5>1, <5>2, <5>3
      <4>7. \A v \in Roles' : v.actor \notin recast => cast'[v.actor].as # "reserve"
        <5>1. \A v \in Roles : v.actor \notin recast => cast'[v.actor].as # "reserve"
          BY <4>6, RolesType DEF PartsFit
        <5> QED BY <3>2, <4>2, <4>3, <5>1
      <4>8. \A t \in Stages : stage'[t].at = "resolve" =>
              /\ \A x, y \in stage'[t].todo : x.actor = y.actor => PartOf[x.line] = PartOf[y.line]
              /\ \A x \in stage'[t].todo : x.actor \notin recast => cast'[x.actor].as # "reserve"
        <5> TAKE t \in Stages
        <5> HAVE stage'[t].at = "resolve"
        <5>1. stage'[t] = stage[t]
          BY <3>2 DEF Goes
        <5>2. \A x \in stage[t].todo : x.actor \in Actors
          BY <1>f, CueFields
        <5> QED BY <4>6, <5>1, <5>2 DEF PartsFit
      <4> QED BY <3>1, <4>5, <4>7, <4>8 DEF PartsFit
    <3>3. CASE UNCHANGED <<stage, cast>>
      BY <2>u, <3>1, <3>3
    <3>4. \/ UNCHANGED <<stage, cast>>
          \/ \E r \in Actors : \E p \in Cues :
                 /\ r # q.actor /\ cast[r].as = "reserve" /\ p = [q EXCEPT !.actor = r]
                 /\ p.dialog = q.dialog /\ p.line = q.line /\ p.actor = r
                 /\ Goes(s, "promote", {p})
                 /\ cast' \in [Actors -> [as: {"none", "primary", "reserve"}, part: Parts \cup {NoPart}]]
                 /\ cast'[r].as = "primary" /\ cast'[q.actor].as = "none"
                 /\ \A a \in Actors : a # r /\ a # q.actor => cast'[a] = cast[a]
      BY <2>10, PromotesFacts
    <3> QED BY <3>2, <3>3, <3>4
  <2>11. CASE Allowed(s) \/ Barred(s)
    <3>1. /\ UNCHANGED <<cues, subs, voices, cast, recast>> /\ stage[s].at # "resolve"
          /\ Enters(s, "sending", stage[s].todo, {}) \/ Enters(s, "handover", stage[s].todo, {})
      BY <2>11 DEF Allowed, Barred, On, waiting, history, speech, admin
    <3>2. stage[s].todo \subseteq Awaited
      BY <1>n, <3>1
    <3>3. Goes(s, "sending", stage[s].todo) \/ Goes(s, "handover", stage[s].todo)
      <4>1. stage[s].todo \in SUBSET Cues /\ {} \in SUBSET Chats
        BY <1>f
      <4> QED BY <3>1, <4>1, SlotGoes
    <3> QED BY <1>n, <2>s, <3>1, <3>2, <3>3
  <2> QED BY <1>4, <2>1, <2>2, <2>3, <2>4, <2>5, <2>6, <2>7, <2>8, <2>9, <2>10, <2>11, PlaysFacts
<1>5. CASE TheatreBurns
  <2>1. Stages \in SUBSET Stages /\ Falls(Stages)
    BY <1>5 DEF TheatreBurns
  <2> QED BY <1>3, <2>1
<1> QED BY <1>1, <1>2, <1>4, <1>5 DEF ShillNext
-----------------------------------------------------------------------------
LEMMA ShillBegins ==
  ASSUME ShillingAssumption, ShillInit PROVE ShillInv
<1>1. /\ stage = [s \in Stages |-> Bare] /\ cues = {} /\ subs = {} /\ dialogs = 0 /\ voices = {}
      /\ said = [d \in 1..MaxDialogs |-> [l \in Lines |-> 0]] /\ mishaps_ = 0 /\ edits_ = 0
  BY DEF ShillInit
<1>2. Bare \in Slots_ /\ Bare.at = "empty" /\ Bare.todo = {}
  BY DEF Bare, Slots_, StagePlaces
<1>3. stage \in [Stages -> Slots_] /\ \A s \in Stages : stage[s].at = "empty" /\ stage[s].todo = {} /\ ToDo(s) = {}
  BY <1>1, <1>2 DEF ToDo
<1>4. \A d \in 1..MaxDialogs, l \in Lines : said[d][l] = 0
  BY <1>1
<1>5. ShillTypeOK
  <2>1. cast \in [Actors -> [as: {"none", "primary", "reserve"}, part: Parts \cup {NoPart}]]
    <3>1. NotCast \in [as: {"none", "primary", "reserve"}, part: Parts \cup {NoPart}]
      BY DEF NotCast
    <3> QED BY <3>1 DEF ShillInit
  <2>2. said \in [1..MaxDialogs -> [Lines -> Nat]]
    BY <1>1
  <2>3. /\ show \in {"draft", "running", "paused", "error"} /\ unfit \subseteq Actors /\ recast \subseteq Actors
        /\ openings \in Nat /\ visits \in [Chats -> Nat] /\ flops \subseteq Chats \X Actors /\ shunned \subseteq Chats
    BY DEF ShillInit
  <2>4. dialogs \in 0..MaxDialogs
    BY <1>1 DEF ShillingAssumption
  <2> QED BY <1>1, <1>3, <2>1, <2>2, <2>3, <2>4 DEF ShillTypeOK, Slots_
<1>6. StagesFit
  BY <1>3, EmptyFitsStage DEF StagesFit
<1>7. QueuesFit
  BY <1>1, <1>4 DEF QueuesFit
<1>8. CopiesFit
  <2>1. OneCopy
    BY <1>1, <1>3 DEF OneCopy
  <2>2. SaidLeft
    BY <1>4 DEF SaidLeft
  <2> QED BY <2>1, <2>2 DEF CopiesFit
<1>9. PartsFit
  <2>1. Awaited = {}
    BY <1>1, <1>3 DEF Awaited
  <2>2. Roles = {}
    BY <1>1, <2>1 DEF Roles
  <2> QED BY <1>3, <2>2 DEF PartsFit
<1> QED BY <1>5, <1>6, <1>7, <1>8, <1>9 DEF ShillInv

LEMMA ShillStays ==
  ASSUME ShillInv, UNCHANGED shillVars PROVE ShillInv'
<1>1. /\ UNCHANGED <<show, cast, unfit, openings, visits, cues, subs, stage>>
      /\ UNCHANGED <<flops, shunned, dialogs, said, voices, recast, edits_, mishaps_>>
  BY DEF shillVars
<1>2. ShillTypeOK'
  BY <1>1 DEF ShillInv, ShillTypeOK
<1>3. StagesFit' /\ QueuesFit'
  BY <1>1 DEF ShillInv, StagesFit, QueuesFit
<1>4. \A s \in Stages : ToDo(s)' = ToDo(s)
  BY <1>1 DEF ToDo
<1>5. CopiesFit'
  <2>1. OneCopy /\ SaidLeft => OneCopy' /\ SaidLeft'
    BY <1>1, <1>4, CopiesShrink
  <2> QED BY <1>1, <2>1 DEF ShillInv, CopiesFit
<1>6. PartsFit'
  <2>1. Awaited' = Awaited
    BY <1>1 DEF Awaited
  <2>2. Roles' = Roles
    BY <1>1, <2>1 DEF Roles, Voice
  <2> QED BY <1>1, <2>2 DEF ShillInv, PartsFit
<1> QED BY <1>2, <1>3, <1>5, <1>6 DEF ShillInv

LEMMA ShillKeeps ==
  ASSUME ShillingAssumption
  PROVE  ShillInv /\ [ShillNext]_shillVars => ShillInv'
<1>1. ASSUME ShillInv, ShillNext PROVE ShillInv'
  BY <1>1, ShillTypeKeeps, FitsKeep, CopiesKeep, PartsKeep DEF ShillInv
<1> QED BY <1>1, ShillStays

LEMMA ShillImplies ==
  ASSUME ShillingAssumption, ShillInv
  PROVE  SaidOnce /\ OnePartPerActor
<1>1. SaidOnce
  <2>1. SUFFICES ASSUME mishaps_ = 0, NEW d \in 1..dialogs, NEW l \in Lines
                 PROVE  said[d][l] + Cardinality({q \in ToSay : q.dialog = d /\ q.line = l}) <= 1
    BY DEF SaidOnce
  <2>2. OneCopy /\ SaidLeft
    BY <2>1 DEF ShillInv, CopiesFit
  <2>3. d \in 1..MaxDialogs /\ said[d][l] \in Nat
    <3>1. dialogs \in 0..MaxDialogs /\ MaxDialogs \in Nat
      BY DEF ShillInv, ShillTypeOK, ShillingAssumption
    <3>2. d \in 1..MaxDialogs
      BY <3>1
    <3>3. said \in [1..MaxDialogs -> [Lines -> Nat]]
      BY DEF ShillInv, ShillTypeOK
    <3>4. said[d] \in [Lines -> Nat]
      BY <3>2, <3>3
    <3> QED BY <3>2, <3>4
  <2> DEFINE them == {q \in ToSay : q.dialog = d /\ q.line = l}
  <2>4. \A q \in them : q \in cues \/ q \in subs \/ \E s \in Stages : q \in ToDo(s)
    <3> TAKE q \in them
    <3>1. q \in cues \/ q \in subs \/ \E s \in Stages : stage[s].at # "log" /\ q \in stage[s].todo
      BY DEF ToSay
    <3>2. ASSUME NEW s \in Stages, stage[s].at # "log", q \in stage[s].todo PROVE q \in ToDo(s)
      <4>1. q.dialog # 0
        OBVIOUS
      <4>2. stage[s].at # "resolve"
        BY <3>2, <4>1 DEF ShillInv, StagesFit, TaskFits
      <4> QED BY <3>2, <4>2 DEF ToDo
    <3> QED BY <3>1, <3>2
  <2>5. \A q, r \in them : q = r
    <3> TAKE q, r \in them
    <3>1. SameLine(q, r) /\ SameLine(r, q)
      BY DEF SameLine
    <3> QED BY <2>2, <2>4, <3>1 DEF OneCopy
  <2>6. said[d][l] > 0 => them = {}
    <3>1. said[d][l] > 0 => \A q \in them : FALSE
      <4>1. \A q \in them : q.dialog = d /\ q.line = l
        OBVIOUS
      <4> HIDE DEF them
      <4> QED BY <2>2, <2>3, <2>4, <4>1 DEF SaidLeft
    <3> QED BY <3>1
  <2>7. said[d][l] <= 1
    BY <2>2, <2>3 DEF SaidLeft
  <2>8. Cardinality(them) = 0 \/ (Cardinality(them) = 1 /\ them # {})
    <3>1. CASE them = {}
      BY <3>1, FS_EmptySet
    <3>2. CASE them # {}
      <4>1. PICK q : q \in them
        BY <3>2
      <4> HIDE DEF them
      <4>2. them = {q}
        BY <2>5, <4>1
      <4>3. Cardinality({q}) = 1
        BY FS_Singleton
      <4> QED BY <3>2, <4>2, <4>3
    <3> QED BY <3>1, <3>2
  <2>9. Cardinality({}) = 0
    BY FS_EmptySet
  <2> HIDE DEF them
  <2>10. said[d][l] + Cardinality(them) <= 1
    BY <2>3, <2>6, <2>7, <2>8, <2>9
  <2> QED BY <2>10 DEF them
<1>2. OnePartPerActor
  <2>1. /\ \A v, w \in Roles :
             v.dialog = w.dialog /\ v.actor = w.actor /\ v.actor \notin recast => v.part = w.part
    BY DEF ShillInv, PartsFit
  <2>2. \A q \in ToSay : q.dialog > 0 => q \in Awaited
    <3> TAKE q \in ToSay
    <3> HAVE q.dialog > 0
    <3>1. q \in cues \/ q \in subs \/ \E s \in Stages : stage[s].at # "log" /\ q \in stage[s].todo
      BY DEF ToSay
    <3>2. ASSUME NEW s \in Stages, q \in stage[s].todo PROVE q \in Awaited
      <4>1. stage[s].at # "resolve"
        BY <3>2 DEF ShillInv, StagesFit, TaskFits
      <4> QED BY <3>2, <4>1 DEF Awaited
    <3> QED BY <3>1, <3>2 DEF Awaited
  <2> DEFINE heard_ == voices \cup {[dialog |-> q.dialog, actor |-> q.actor, part |-> PartOf[q.line]] :
                                  q \in {r \in ToSay : r.dialog > 0}}
  <2>3. heard_ \subseteq Roles
    BY <2>2 DEF Roles, Voice
  <2> HIDE DEF heard_
  <2>4. \A v, w \in heard_ :
            v.dialog = w.dialog /\ v.actor = w.actor /\ v.actor \notin recast => v.part = w.part
    BY <2>1, <2>3
  <2> QED BY <2>4 DEF OnePartPerActor, heard_
<1> QED BY <1>1, <1>2

LEMMA ShillHolds ==
  ASSUME ShillingAssumption
  PROVE  ShillInv => ShillTypeOK /\ DialogKept
BY ShillImplies DEF ShillInv, DialogKept

\* A dialog is played as it was planned: unless a task stops half-way no line is said twice or
\* waits twice; and whoever's place in the cast is left alone plays one part in it, whatever
\* is put off, handed on to a reserve, or run again after the worker died.  For any cast,
\* scenario and number of tasks that run at once.
THEOREM DialogsAreKept ==
  ASSUME ShillingAssumption
  PROVE  ShillSpec => [](ShillTypeOK /\ DialogKept)
<1>1. ShillInit => ShillInv
  BY ShillBegins
<1>2. ShillInv /\ [ShillNext]_shillVars => ShillInv'
  BY ShillKeeps
<1>3. ShillInv => ShillTypeOK /\ DialogKept
  BY ShillHolds
<1> QED BY <1>1, <1>2, <1>3, PTL DEF ShillSpec
=============================================================================

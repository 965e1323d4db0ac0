----------------------------- MODULE ClientPool -----------------------------
(***************************************************************************)
(* worker/client_pool/pool.py: Telegram clients shared by everything the   *)
(* worker does for an account (tasks, listeners), with a reference count   *)
(* under one asyncio.Lock.  A step is what runs between two awaits; the    *)
(* lock is held across the connect of `get` and the disconnect of          *)
(* `release`.                                                              *)
(***************************************************************************)
EXTENDS Integers, FiniteSets

CONSTANTS
    Accounts,   \* accounts the worker has clients for
    Users,      \* tasks and listeners that use a client
    Clients,    \* TelegramClient instances (a disconnected one nobody has is reused)
    MaxMishaps, \* bound on cancellations, forgotten clients and double releases
    NULL

PoolAssumption == /\ IsFiniteSet(Users)
                  /\ NULL \notin Accounts \cup Users \cup Clients
                  /\ MaxMishaps \in Nat

VARIABLES
    managed,  \* _clients: the instance of each account and its count of references
    conn,     \* is the instance connected
    lock,     \* who holds the pool's lock
    user,     \* where each user is, for which account, with which instance
    lost,     \* references nobody will release, by account
    twice,    \* users that are about to release for a second time
    overdrawn, \* accounts of which more was released than was taken
    mishaps,  \* how many cancellations, forgotten clients and double releases there were
    closed    \* close_all has run

poolVars == <<managed, conn, lock, user, lost, twice, overdrawn, mishaps, closed>>
doubles == <<twice, overdrawn>>
-----------------------------------------------------------------------------
Absent == [client |-> NULL, refs |-> 0]
Out == [at |-> "out", acct |-> NULL, client |-> NULL]
PoolPlaces == {"out", "get", "connecting", "using", "release", "closing", "again"}

PoolInit ==
    /\ managed = [a \in Accounts |-> Absent]
    /\ conn = [c \in Clients |-> "off"]
    /\ lock = NULL
    /\ user = [u \in Users |-> Out]
    /\ lost = [a \in Accounts |-> 0]
    /\ twice = {} /\ overdrawn = {}
    /\ mishaps = 0
    /\ closed = FALSE

\* An instance the factory may return: nothing refers to it.
Unused(c) == /\ conn[c] = "off"
             /\ \A a \in Accounts : managed[a].client # c
             /\ \A u \in Users : user[u].client # c

At(u, place) == user[u].at = place
Moved(u, place) == [user EXCEPT ![u].at = place]

\* Done with a release; or with the first of two.
Left(u) == [user EXCEPT ![u] = IF u \in twice THEN [@ EXCEPT !.at = "again", !.client = NULL]
                               ELSE Out]
-----------------------------------------------------------------------------
CallGet(u, a) ==
    /\ At(u, "out") /\ ~closed
    /\ user' = [user EXCEPT ![u] = [at |-> "get", acct |-> a, client |-> NULL]]
    /\ UNCHANGED <<managed, conn, lock, lost, doubles, mishaps, closed>>

\* An entry there is gets one more reference, and is connected first if the network
\* dropped it.
GetShared(u) ==
    LET a == user[u].acct
        c == managed[a].client
    IN  /\ At(u, "get") /\ lock = NULL
        /\ c # NULL
        /\ managed' = [managed EXCEPT ![a].refs = @ + 1]
        /\ IF conn[c] = "on"
           THEN user' = [user EXCEPT ![u].at = "using", ![u].client = c] /\ UNCHANGED lock
           ELSE user' = [user EXCEPT ![u].at = "connecting", ![u].client = c] /\ lock' = u
        /\ UNCHANGED <<conn, lost, doubles, mishaps, closed>>

\* A new instance is put into the pool before it is connected.
GetNew(u) ==
    LET a == user[u].acct IN
    /\ At(u, "get") /\ lock = NULL
    /\ managed[a] = Absent
    /\ \E c \in Clients :
          /\ Unused(c)
          /\ managed' = [managed EXCEPT ![a] = [client |-> c, refs |-> 1]]
          /\ user' = [user EXCEPT ![u].at = "connecting", ![u].client = c]
    /\ lock' = u
    /\ UNCHANGED <<conn, lost, doubles, mishaps, closed>>

\* _create_client refuses: account missing, banned or retired, or without a proxy.
GetRefused(u) ==
    /\ At(u, "get") /\ lock = NULL
    /\ managed[user[u].acct] = Absent
    /\ user' = [user EXCEPT ![u] = Out]
    /\ UNCHANGED <<managed, conn, lock, lost, doubles, mishaps, closed>>

Connect(u) ==
    /\ At(u, "connecting")
    /\ conn' = [conn EXCEPT ![user[u].client] = "on"]
    /\ user' = Moved(u, "using")
    /\ lock' = NULL
    /\ UNCHANGED <<managed, lost, doubles, mishaps, closed>>

\* A reference is given back; the last one takes the entry out of the pool and goes on
\* to disconnect, with the lock.
DropReference(u) ==
    LET a == user[u].acct IN
    IF managed[a].refs - 1 <= 0
    THEN /\ managed' = [managed EXCEPT ![a] = Absent]
         /\ user' = [user EXCEPT ![u].at = "closing", ![u].client = managed[a].client]
         /\ lock' = u
    ELSE /\ managed' = [managed EXCEPT ![a].refs = @ - 1]
         /\ user' = Left(u)
         /\ lock' = NULL

\* Mutant: the entry of a client that did not connect is left in the pool.
KeepFailed(u) ==
    /\ At(u, "connecting")
    /\ user' = [user EXCEPT ![u] = Out]
    /\ lock' = NULL
    /\ UNCHANGED <<managed, conn, lost, doubles, mishaps, closed>>

\* The connect fails, takes longer than 30 s or is cancelled.
ConnectFails(u) ==
    /\ At(u, "connecting")
    /\ DropReference(u)
    /\ UNCHANGED <<conn, lost, doubles, mishaps, closed>>

CallRelease(u) ==
    /\ At(u, "using")
    /\ user' = Moved(u, "release")
    /\ UNCHANGED <<managed, conn, lock, lost, doubles, mishaps, closed>>

\* Mutant: a release disconnects whoever else uses the client.
ReleaseAnyway(u) ==
    /\ At(u, "release") /\ lock = NULL
    /\ managed' = [managed EXCEPT ![user[u].acct] = Absent]
    /\ user' = Moved(u, "closing")
    /\ lock' = u
    /\ UNCHANGED <<conn, lost, doubles, mishaps, closed>>

Release(u) ==
    /\ At(u, "release") /\ lock = NULL
    /\ IF managed[user[u].acct] = Absent
       THEN user' = Left(u) /\ UNCHANGED <<managed, lock>>
       ELSE DropReference(u)
    /\ twice' = IF user'[u].at = "closing" THEN twice ELSE twice \ {u}
    /\ UNCHANGED <<conn, lost, overdrawn, mishaps, closed>>

\* The second release gives back what the user does not have: the entry, if there is one
\* (again), belongs to somebody else.
ReleaseAgain(u) ==
    /\ At(u, "again") /\ lock = NULL
    /\ IF managed[user[u].acct] = Absent
       THEN user' = [user EXCEPT ![u] = Out] /\ UNCHANGED <<managed, lock, overdrawn>>
       ELSE DropReference(u) /\ overdrawn' = overdrawn \cup {user[u].acct}
    /\ UNCHANGED <<conn, lost, twice, mishaps, closed>>

\* The disconnect of the last reference returns.
Disconnect(u) ==
    /\ At(u, "closing")
    /\ conn' = [conn EXCEPT ![user[u].client] = "off"]
    /\ user' = Left(u)
    /\ twice' = twice \ {u}
    /\ lock' = NULL
    /\ UNCHANGED <<managed, lost, overdrawn, mishaps, closed>>

\* The task is cancelled (arq's job timeout, shutdown) while it waits for the lock: in
\* `get` nothing has happened yet, in `release` the reference stays, unless the second
\* release makes up for it.
Cancel(u) ==
    /\ user[u].at \in {"get", "release", "again"} /\ lock # NULL
    /\ IF u \in twice
       THEN twice' = twice \ {u} /\ UNCHANGED <<lost, user>>
       ELSE /\ lost' = IF At(u, "release") THEN [lost EXCEPT ![user[u].acct] = @ + 1] ELSE lost
            /\ user' = [user EXCEPT ![u] = Out]
            /\ UNCHANGED twice
    /\ mishaps < MaxMishaps /\ mishaps' = mishaps + 1
    /\ UNCHANGED <<managed, conn, lock, overdrawn, closed>>

\* ListenerRegistry.attach returns without a release when get_entity fails.
Forget(u) ==
    /\ At(u, "using")
    /\ lost' = [lost EXCEPT ![user[u].acct] = @ + 1]
    /\ user' = [user EXCEPT ![u] = Out]
    /\ mishaps < MaxMishaps /\ mishaps' = mishaps + 1
    /\ UNCHANGED <<managed, conn, lock, doubles, closed>>

\* Shilling's process_target, _reconcile_monitor_all and poll_channel_monitors release in
\* `except` and again in `finally`, if what they use the client for fails.
UseFails(u) ==
    /\ At(u, "using")
    /\ user' = Moved(u, "release")
    /\ twice' = twice \cup {u}
    /\ mishaps < MaxMishaps /\ mishaps' = mishaps + 1
    /\ UNCHANGED <<managed, conn, lock, lost, overdrawn, closed>>

NetworkDrops(c) ==
    /\ conn[c] = "on"
    /\ conn' = [conn EXCEPT ![c] = "off"]
    /\ UNCHANGED <<managed, lock, user, lost, doubles, mishaps, closed>>

\* on_shutdown, after arq has waited for the tasks and the registries have detached.
CloseAll ==
    /\ ~closed /\ closed' = TRUE
    /\ \A u \in Users : At(u, "out")
    /\ conn' = [c \in Clients |-> IF \E a \in Accounts : managed[a].client = c
                                  THEN "off" ELSE conn[c]]
    /\ managed' = [a \in Accounts |-> Absent]
    /\ lost' = [a \in Accounts |-> 0]
    /\ overdrawn' = {}
    /\ UNCHANGED <<lock, user, twice, mishaps>>
-----------------------------------------------------------------------------
Get(u) == GetShared(u) \/ GetNew(u) \/ GetRefused(u)
Locked(u) == Connect(u) \/ ConnectFails(u) \/ Disconnect(u)

PoolNext ==
    \/ \E u \in Users : \/ Get(u) \/ Locked(u) \/ CallRelease(u) \/ Release(u)
                        \/ ReleaseAgain(u) \/ Cancel(u) \/ Forget(u) \/ UseFails(u)
                        \/ \E a \in Accounts : CallGet(u, a)
    \/ \E c \in Clients : NetworkDrops(c)
    \/ CloseAll

PoolSpec == PoolInit /\ [][PoolNext]_poolVars
-----------------------------------------------------------------------------
(* Properties *)

Holding == {"connecting", "using", "release"}
Holders(a) == {u \in Users : user[u].acct = a /\ user[u].at \in Holding}

\* Entries, instances and users are well formed.
PoolTypeOK ==
    /\ managed \in [Accounts -> [client: Clients \cup {NULL}, refs: Nat]]
    /\ conn \in [Clients -> {"on", "off"}]
    /\ lock \in Users \cup {NULL}
    /\ user \in [Users -> [at: PoolPlaces, acct: Accounts \cup {NULL},
                           client: Clients \cup {NULL}]]
    /\ lost \in [Accounts -> Nat]
    /\ twice \subseteq Users /\ overdrawn \subseteq Accounts
    /\ mishaps \in Nat /\ closed \in BOOLEAN

\* The count of an account is the number of those who hold its client, waiting for their
\* connect or their release included, and of the references that were lost: a failed or
\* cancelled connect gives its reference back (worker/client_pool/pool.py:113-137).  After
\* a double release it is too small for ever (modules/shilling/worker/dry_run.py:142-144).
RefsExact ==
    \A a \in Accounts \ overdrawn : managed[a].refs = Cardinality(Holders(a)) + lost[a]

\* The pool implements the client that is open as long as somebody holds it: what counts,
\* locks and disconnects do in several steps is one step of SharedClient.
Shared == INSTANCE SharedClient WITH
            holders <- [a \in Accounts |-> IF a \in overdrawn THEN {} ELSE Holders(a)],
            abandoned <- {a \in Accounts \ overdrawn : lost[a] > 0},
            spoilt <- overdrawn,
            open <- {a \in Accounts \ overdrawn : managed[a] # Absent}

PoolIsShared == Shared!SharedSpec
=============================================================================

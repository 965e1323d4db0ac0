------------------------------ MODULE EventHub ------------------------------
(***************************************************************************)
(* What happens to an account, on its way to the browser: the worker       *)
(* publishes to Redis, the hub of the API process keeps one subscription,  *)
(* started by the first stream that is opened, and hands every event to    *)
(* the queues of the streams that want it (api/services/login.py,          *)
(* api/services/events.py); a stream is an HTTP response that takes its    *)
(* queue empty (api/routers/login.py, api/routers/monitoring.py).          *)
(*                                                                         *)
(* A stream of the login hub wants one account, of the dashboard all; the  *)
(* cache is the login hub's.  A step is what the event loop does between   *)
(* two awaits.                                                             *)
(***************************************************************************)
EXTENDS Naturals, Sequences

CONSTANTS
    Accounts,
    Wants,     \* what a stream can ask for: sets of accounts
    Streams,
    MaxEvents, \* bound: events published
    MaxFalls,  \* bound: losses of Redis and restarts of the process
    NoOne

\* What the module assumes of its constants.
EventHubAssumption ==
    /\ Wants \subseteq SUBSET Accounts
    /\ MaxEvents \in Nat /\ MaxFalls \in Nat
    /\ NoOne \notin Streams

VARIABLES
    news,    \* the events published, in order: [about, kind]
    started, \* _started
    gate,    \* who is inside the lock of ensure_started
    tap,     \* listener tasks by the stream that made them: events received, not handled
    heard,   \* events gone by when the last one was handled
    began,   \* events gone by when the subscription was made
    stream,  \* [stage, want, since, queue, got]: since is heard when the queue was made
    subs,    \* _subscribers: whose queues the hub fills
    cache,   \* _cache: the number of the account's last login event, 0 for none
    falls

hubVars == <<news, started, gate, tap, heard, began, stream, subs, cache, falls>>
-----------------------------------------------------------------------------
NewsKinds == {"login", "account_status"}
Deaf == <<0>>    \* there is no such task

Closed == [stage |-> "closed", want |-> {}, since |-> 0, queue |-> <<>>, got |-> <<>>]
Tapped == {s \in Streams : tap[s] # Deaf}

HubInit ==
    /\ news = <<>> /\ heard = 0 /\ began = 0 /\ falls = 0
    /\ started = FALSE /\ gate = NoOne
    /\ tap = [s \in Streams |-> Deaf]
    /\ stream = [s \in Streams |-> Closed]
    /\ subs = {}
    /\ cache = [a \in Accounts |-> 0]
-----------------------------------------------------------------------------
(* The way to a stream *)

\* hub.subscribe: the queue gets what is handled from now on.
JoinHub(s, want) ==
    /\ stream' = [stream EXCEPT ![s] = [Closed EXCEPT !.stage = "joined", !.want = want,
                                                      !.since = heard]]
    /\ subs' = subs \cup {s}

\* Inside the lock: a subscription is asked of Redis.
Enter(s, want) ==
    /\ gate' = s
    /\ stream' = [stream EXCEPT ![s] = [Closed EXCEPT !.stage = "starting", !.want = want]]
    /\ UNCHANGED subs

\* login_stream, monitoring_stream: ensure_started as far as it gets without waiting.
Open(s, want) ==
    /\ stream[s].stage = "closed"
    /\ \/ started /\ JoinHub(s, want) /\ UNCHANGED gate
       \/ ~started /\ gate = NoOne /\ Enter(s, want)
       \/ /\ ~started /\ gate # NoOne
          /\ stream' = [stream EXCEPT ![s] = [Closed EXCEPT !.stage = "waiting", !.want = want]]
          /\ UNCHANGED <<gate, subs>>
    /\ UNCHANGED <<news, started, tap, heard, began, cache, falls>>

\* Mutant: inside the lock nobody asks again.
EnterUnasked(s) ==
    /\ stream[s].stage = "waiting" /\ gate = NoOne
    /\ Enter(s, stream[s].want)
    /\ UNCHANGED <<news, started, tap, heard, began, cache, falls>>

\* The lock is free: somebody has started the hub meanwhile or this stream does.
PassGate(s) ==
    /\ stream[s].stage = "waiting" /\ gate = NoOne
    /\ IF started THEN JoinHub(s, stream[s].want) /\ UNCHANGED gate
       ELSE Enter(s, stream[s].want)
    /\ UNCHANGED <<news, started, tap, heard, began, cache, falls>>

\* Subscribed; the listener is a task of its own.
Start(s) ==
    /\ stream[s].stage = "starting"
    /\ tap' = [tap EXCEPT ![s] = <<>>]
    /\ started' = TRUE
    /\ gate' = NoOne
    /\ heard' = IF started THEN heard ELSE Len(news)
    /\ began' = IF started THEN began ELSE Len(news)
    /\ stream' = [stream EXCEPT ![s].stage = "joined", ![s].since = heard']
    /\ subs' = subs \cup {s}
    /\ UNCHANGED <<news, cache, falls>>

\* Mutant: a start that fails leaves the lock taken.
FailInside(s) ==
    /\ stream[s].stage \in {"starting", "waiting"}
    /\ stream' = [stream EXCEPT ![s] = Closed]
    /\ UNCHANGED <<news, started, gate, tap, heard, began, subs, cache, falls>>

\* Redis refuses, or the client is gone while it is asked.
StartFails(s) ==
    /\ stream[s].stage \in {"starting", "waiting"}
    /\ gate' = IF gate = s THEN NoOne ELSE gate
    /\ stream' = [stream EXCEPT ![s] = Closed]
    /\ UNCHANGED <<news, started, tap, heard, began, subs, cache, falls>>
-----------------------------------------------------------------------------
(* Events *)

\* The worker publishes; Redis keeps nothing for those who do not listen.
PublishNews(a, k) ==
    /\ Len(news) < MaxEvents
    /\ news' = Append(news, [about |-> a, kind |-> k])
    /\ tap' = [s \in Streams |-> IF s \in Tapped THEN Append(tap[s], Len(news) + 1) ELSE Deaf]
    /\ UNCHANGED <<started, gate, heard, began, stream, subs, cache, falls>>

\* Mutant: whatever happens to the account is its login state.
KeepAny(n) == [cache EXCEPT ![news[n].about] = n]

\* Only an event of the channel login is kept for GET /login/state.
Cached(n) == IF news[n].kind = "login" THEN [cache EXCEPT ![news[n].about] = n] ELSE cache

\* _listen, _handle and _fanout: no await between the cache and the last queue.
Handle(l) ==
    /\ l \in Tapped /\ tap[l] # <<>>
    /\ LET n == Head(tap[l])
       IN  /\ tap' = [tap EXCEPT ![l] = Tail(@)]
           /\ cache' = Cached(n)
           /\ heard' = n
           /\ stream' = [s \in Streams |->
                            IF s \in subs /\ news[n].about \in stream[s].want
                            THEN [stream[s] EXCEPT !.queue = Append(@, n)] ELSE stream[s]]
    /\ UNCHANGED <<news, started, gate, began, subs, falls>>

\* Redis is gone for longer than the client tries again: the task ends with an exception
\* nobody reads.
Fall(l) ==
    /\ falls < MaxFalls /\ l \in Tapped
    /\ tap' = [tap EXCEPT ![l] = Deaf]
    /\ falls' = falls + 1
    /\ UNCHANGED <<news, started, gate, heard, began, stream, subs, cache>>
-----------------------------------------------------------------------------
(* The stream *)

\* The response is sent: the generator runs, and with it its finally.
BeginStream(s) ==
    /\ stream[s].stage = "joined"
    /\ stream' = [stream EXCEPT ![s].stage = "served"]
    /\ UNCHANGED <<news, started, gate, tap, heard, began, subs, cache, falls>>

\* The client is gone before the first byte: the generator never ran.
CutOff(s) ==
    /\ stream[s].stage = "joined"
    /\ stream' = [stream EXCEPT ![s].stage = "cut"]
    /\ UNCHANGED <<news, started, gate, tap, heard, began, subs, cache, falls>>

Serve(s) ==
    /\ stream[s].stage = "served" /\ stream[s].queue # <<>>
    /\ stream' = [stream EXCEPT ![s].got = Append(@, Head(stream[s].queue)),
                                ![s].queue = Tail(@)]
    /\ UNCHANGED <<news, started, gate, tap, heard, began, subs, cache, falls>>

\* Mutant: the end of the stream leaves its queue with the hub.
LeaveQueue(s) ==
    /\ stream[s].stage = "served"
    /\ stream' = [stream EXCEPT ![s] = Closed]
    /\ UNCHANGED <<news, started, gate, tap, heard, began, subs, cache, falls>>

\* finally: hub.unsubscribe.
Leave(s) ==
    /\ stream[s].stage = "served"
    /\ stream' = [stream EXCEPT ![s] = Closed]
    /\ subs' = subs \ {s}
    /\ UNCHANGED <<news, started, gate, tap, heard, began, cache, falls>>

\* The process ends, with stop() or without, and another one begins.
Restart ==
    /\ falls < MaxFalls
    /\ falls' = falls + 1
    /\ heard' = Len(news) /\ began' = Len(news)
    /\ started' = FALSE /\ gate' = NoOne /\ subs' = {}
    /\ tap' = [s \in Streams |-> Deaf]
    /\ stream' = [s \in Streams |-> Closed]
    /\ cache' = [a \in Accounts |-> 0]
    /\ UNCHANGED news
-----------------------------------------------------------------------------
HubNext ==
    \/ \E s \in Streams : \/ \E want \in Wants : Open(s, want)
                          \/ PassGate(s) \/ Start(s) \/ StartFails(s)
                          \/ Handle(s) \/ Fall(s)
                          \/ BeginStream(s) \/ CutOff(s) \/ Serve(s) \/ Leave(s)
    \/ \E a \in Accounts, k \in NewsKinds : PublishNews(a, k)
    \/ Restart

HubSpec == HubInit /\ [][HubNext]_hubVars
-----------------------------------------------------------------------------
(* Properties *)

HubTypeOK ==
    /\ news \in Seq([about: Accounts, kind: NewsKinds]) /\ Len(news) <= MaxEvents
    /\ started \in BOOLEAN /\ gate \in Streams \cup {NoOne} /\ subs \subseteq Streams
    /\ gate # NoOne => stream[gate].stage = "starting"
    /\ heard \in 0..Len(news) /\ began \in 0..Len(news) /\ falls \in 0..MaxFalls
    /\ \A s \in Streams :
          /\ tap[s] = Deaf \/ tap[s] \in Seq(1..Len(news))
          /\ stream[s].stage \in {"closed", "waiting", "starting", "joined", "served", "cut"}
          /\ stream[s].want \in Wants \cup {{}} /\ stream[s].since \in 0..heard
    /\ \A a \in Accounts : cache[a] \in 0..heard

\* The events a stream wants, of those handled since it joined.
WantedOf(s) == {n \in stream[s].since + 1 .. heard : news[n].about \in stream[s].want}

\* However many streams are opened while the hub starts, and whenever they are: a stream is
\* given what was handled since it joined and what it wants of it, each event once, in the
\* order of publication, none left out (api/services/login.py:51-62, 105-107).
StreamsInStep ==
    \A s \in subs :
        LET given == stream[s].got \o stream[s].queue
        IN  /\ {given[i] : i \in 1..Len(given)} = WantedOf(s)
            /\ \A i, j \in 1..Len(given) : i < j => given[i] < given[j]

\* The state GET /login/state answers with is the last login event the hub has handled: no
\* event of the account's status, nor one of another account, replaces it, and none is missed
\* (api/services/login.py:94-104, 109-110).
CacheIsLastLogin ==
    \A a \in Accounts :
        LET own == {n \in began + 1 .. heard : news[n].about = a /\ news[n].kind = "login"}
        IN  /\ own = {} => cache[a] = 0
            /\ own # {} => cache[a] \in own /\ \A n \in own : n <= cache[a]

\* The hub fills no queue for ever that nobody reads, but those of the clients that left
\* before the first byte of their stream.
QueuesAreRead == \A s \in subs : stream[s].stage \in {"joined", "served", "cut"}

\* Streams and cache tell what happened, and the hub forgets who has left.
StreamsKept == StreamsInStep /\ CacheIsLastLogin /\ QueuesAreRead
=============================================================================

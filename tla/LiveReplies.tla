----------------------------- MODULE LiveReplies -----------------------------
(***************************************************************************)
(* modules/shilling/worker/live_interception.py: while a campaign runs,    *)
(* each of its accounts has a handler that answers people who reply to it. *)
(* The API starts and stops the campaign and says so on Redis pub/sub; an  *)
(* edit of the status and a start the worker refuses are said to nobody.   *)
(* The lifecycle task of the worker attaches and detaches handlers, one    *)
(* event after the other; at startup they are attached from the table, and *)
(* only then the task subscribes.  Answers to one person are counted in    *)
(* Redis.                                                                  *)
(***************************************************************************)
EXTENDS Integers, Sequences

CONSTANTS
    Bots,       \* accounts of the campaign
    Replies,    \* replies people may write
    MaxReplies, \* _MAX_REPLIES
    MaxTurns,   \* bound on requests to the API
    MaxUpsets   \* bound on deaths, failed clients and failures of Redis

LiveAssumption == MaxReplies \in Nat \ {0} /\ {MaxTurns, MaxUpsets} \subseteq Nat

VARIABLES
    status,    \* of the campaign: idle (draft, paused, error), running or gone
    answers,   \* enabled, and auto_responder # "off"
    linked,    \* accounts attached to the campaign
    tasks,     \* start_campaign tasks queued
    telling,   \* events of requests that have committed and are still to publish
    events,    \* published and not taken
    phase,     \* of the worker: down, loading (before it subscribes) or up
    attaching, \* accounts the attach under way has still to connect
    heard,     \* handlers of each account
    talk,      \* runs of handlers: a reply, which handler, and how far it is
    answered,  \* how often each reply was answered
    counter,   \* the person's counter in Redis, and
    expires,   \* whether it has a TTL
    passed,    \* answers let through since the counter began
    astray,    \* why the handlers are out of step with the campaign: its events went wrong, or
               \* its status changed and nobody was told (see StoppedIsSilent)
    missing,   \* and so are the accounts of the running campaign
    turns, upsets

liveVars == <<status, answers, linked, tasks, telling, events, phase, attaching, heard, talk,
              answered, counter, expires, passed, astray, missing, turns, upsets>>
campaign == <<status, answers, linked>>
registry == <<phase, attaching, heard>>
ghosts == <<astray, missing, turns, upsets>>
talking == <<talk, answered, counter, expires, passed>>

Runs == [msg: Replies, by: Bots, nth: 1..2, at: {"gate", "expire", "reply"}]

LiveInit ==
    /\ status = "idle" /\ answers = TRUE /\ linked = Bots /\ tasks = 0
    /\ telling = <<>> /\ events = <<>>
    /\ phase = "up" /\ attaching = {} /\ heard = [b \in Bots |-> 0]
    /\ talk = {} /\ answered = [m \in Replies |-> -1]
    /\ counter = 0 /\ expires = FALSE /\ passed = 0
    /\ astray = {} /\ missing = FALSE /\ turns = 0 /\ upsets = 0
-----------------------------------------------------------------------------
(* The API *)

Turn == turns < MaxTurns /\ turns' = turns + 1
Upset == upsets < MaxUpsets /\ upsets' = upsets + 1

\* A request says on pub/sub what it has done, but by then the next one may have committed:
\* start awaits the queue first.  What an earlier change of the status left behind, the event
\* of this one puts right.
Start ==
    /\ Turn /\ status = "idle" /\ linked # {}
    /\ status' = "running" /\ tasks' = tasks + 1
    /\ telling' = Append(telling, "attach")
    /\ astray' = astray \ {"status"}
    /\ UNCHANGED <<answers, linked, events, registry, talking, missing, upsets>>

Stop ==
    /\ Turn /\ status # "gone"
    /\ status' = "idle"
    /\ telling' = Append(telling, "detach")
    /\ astray' = astray \ {"status"}
    /\ UNCHANGED <<answers, linked, tasks, events, registry, talking, missing, upsets>>

\* Nothing is published when the campaign is deleted or edited, or an account attached
\* or detached.
Quiet == status = "idle" /\ "status" \notin astray /\ telling \o events = <<>> /\ attaching = {}

Delete ==
    /\ Turn /\ status = "idle" /\ status' = "gone"
    /\ UNCHANGED <<answers, linked, tasks, telling, events, registry, talking, astray, missing,
                   upsets>>

Edit(b) ==
    /\ Turn /\ status # "gone"
    /\ \/ answers' = ~answers /\ UNCHANGED linked
       \/ b \in linked /\ linked' = linked \ {b} /\ UNCHANGED answers
       \/ b \notin linked /\ linked' = linked \cup {b} /\ UNCHANGED answers
    /\ missing' = (missing \/ ~Quiet)
    /\ UNCHANGED <<status, tasks, telling, events, registry, talking, astray, upsets>>

\* PATCH of a campaign takes a status too: one set running has no handlers, ...
EditRunning ==
    /\ Turn /\ status = "idle" /\ status' = "running"
    /\ missing' = TRUE
    /\ UNCHANGED <<answers, linked, tasks, telling, events, registry, talking, astray, upsets>>

\* ... one taken out of running keeps them.
StopsUntold == status = "running" /\ status' = "idle" /\ astray' = astray \cup {"status"}

EditStopped ==
    /\ Turn /\ StopsUntold
    /\ UNCHANGED <<answers, linked, tasks, telling, events, registry, talking, missing, upsets>>

\* So does one whose start_campaign task finds that it is not ready any more.
StartTask ==
    /\ tasks > 0 /\ tasks' = tasks - 1
    /\ phase = "up" \/ (phase = "loading" /\ attaching = {})
    /\ StopsUntold \/ UNCHANGED <<status, astray>>
    /\ UNCHANGED <<answers, linked, telling, events, registry, talking, missing, turns, upsets>>

Without(i) == SubSeq(telling, 1, i - 1) \o SubSeq(telling, i + 1, Len(telling))

\* The queue raises: the campaign runs, without its task, and nobody is told.
Untold(i) ==
    /\ Upset /\ i \in DOMAIN telling /\ telling[i] = "attach" /\ telling' = Without(i)
    /\ tasks > 0 /\ tasks' = tasks - 1
    /\ missing' = TRUE
    /\ UNCHANGED <<campaign, events, registry, talking, astray, turns>>

\* At most once, and not necessarily in the order of the commits.
Publish(i) ==
    /\ i \in DOMAIN telling /\ telling' = Without(i)
    /\ events' = IF phase = "up" THEN Append(events, telling[i]) ELSE events
    /\ astray' = IF phase = "loading" \/ i # 1 THEN astray \cup {"events"} ELSE astray
    /\ UNCHANGED <<campaign, tasks, registry, talking, missing, turns, upsets>>
-----------------------------------------------------------------------------
(* The registry *)

Free == phase = "up" /\ attaching = {} /\ events # <<>>

\* attach looks at the responder, not at the status.
TakeAttach ==
    /\ Free /\ Head(events) = "attach" /\ events' = Tail(events)
    /\ attaching' = IF answers /\ status # "gone" THEN linked ELSE {}
    /\ UNCHANGED <<campaign, tasks, telling, phase, heard, talking, ghosts>>

\* Mutant: an account that has a handler gets another.
ConnectAgain(b) ==
    /\ b \in attaching /\ attaching' = attaching \ {b}
    /\ heard' = [heard EXCEPT ![b] = IF @ < 2 THEN @ + 1 ELSE @]
    /\ UNCHANGED <<campaign, tasks, telling, events, phase, talking, ghosts>>

\* The client is waited for; an account that has its handler is left alone.
Connect(b) ==
    /\ b \in attaching /\ attaching' = attaching \ {b}
    /\ heard' = [heard EXCEPT ![b] = 1]
    /\ UNCHANGED <<campaign, tasks, telling, events, phase, talking, ghosts>>

NoClient(b) ==
    /\ Upset /\ b \in attaching /\ attaching' = attaching \ {b}
    /\ missing' = TRUE
    /\ UNCHANGED <<campaign, tasks, telling, events, phase, heard, talking, astray, turns>>

\* Mutant: only the accounts attached to the campaign now are looked at.
TakeDetachLinked ==
    /\ Free /\ Head(events) = "detach" /\ events' = Tail(events)
    /\ heard' = [b \in Bots |-> IF b \in linked THEN 0 ELSE heard[b]]
    /\ UNCHANGED <<campaign, tasks, telling, phase, attaching, talking, ghosts>>

\* detach_campaign takes off every handler of the campaign, of accounts that have left too.
TakeDetach ==
    /\ Free /\ Head(events) = "detach" /\ events' = Tail(events)
    /\ heard' = [b \in Bots |-> 0]
    /\ UNCHANGED <<campaign, tasks, telling, phase, attaching, talking, ghosts>>

\* The worker dies: handlers, runs and events it has not taken are gone.
WorkerDies ==
    /\ Upset /\ phase # "down" /\ phase' = "down"
    /\ attaching' = {} /\ heard' = [b \in Bots |-> 0]
    /\ events' = <<>> /\ talk' = {}
    /\ UNCHANGED <<campaign, tasks, telling, answered, counter, expires, passed, astray, missing,
                   turns>>

\* startup: the table is read, the accounts are connected, ...
Load ==
    /\ phase = "down" /\ phase' = "loading"
    /\ attaching' = IF status = "running" /\ answers THEN linked ELSE {}
    /\ astray' = IF telling = <<>> THEN {} ELSE astray
    /\ missing' = (missing /\ telling # <<>>)
    /\ UNCHANGED <<campaign, tasks, telling, events, heard, talking, turns, upsets>>

\* ... and then the task subscribes.
Subscribe ==
    /\ phase = "loading" /\ attaching = {} /\ phase' = "up"
    /\ UNCHANGED <<campaign, tasks, telling, events, attaching, heard, talking, ghosts>>
-----------------------------------------------------------------------------
(* _handle_message *)

\* Somebody replies to a line of an account: every handler of that account is run.
Reply(m, b) ==
    /\ answered[m] = -1
    /\ answered' = [answered EXCEPT ![m] = 0]
    /\ talk' = talk \cup {[msg |-> m, by |-> b, nth |-> n, at |-> "gate"] : n \in 1..heard[b]}
    /\ UNCHANGED <<campaign, tasks, telling, events, registry, counter, expires, passed, ghosts>>

Goes(r, place) == talk' = (talk \ {r}) \cup {[r EXCEPT !.at = place]}
Falls(r) == talk' = talk \ {r}
LetThrough == passed' = passed + 1

\* Mutant: the counter is read and written back.
GateUnguarded(r) ==
    /\ r \in talk /\ r.at = "gate"
    /\ counter' = counter + 1
    /\ IF counter = 0 THEN Goes(r, "expire") /\ UNCHANGED passed
       ELSE Goes(r, "reply") /\ LetThrough
    /\ UNCHANGED <<campaign, tasks, telling, events, registry, answered, expires, ghosts>>

\* INCR, then, for the first, EXPIRE: two calls.
Gate(r) ==
    /\ r \in talk /\ r.at = "gate"
    /\ counter' = counter + 1
    /\ \/ counter = 0 /\ Goes(r, "expire") /\ UNCHANGED passed
       \/ counter \in 1..MaxReplies - 1 /\ Goes(r, "reply") /\ LetThrough
       \/ counter > 0 /\ counter >= MaxReplies /\ Falls(r) /\ UNCHANGED passed
    /\ UNCHANGED <<campaign, tasks, telling, events, registry, answered, expires, ghosts>>

Expire(r) ==
    /\ r \in talk /\ r.at = "expire"
    /\ expires' = TRUE
    /\ Goes(r, "reply") /\ LetThrough
    /\ UNCHANGED <<campaign, tasks, telling, events, registry, answered, counter, ghosts>>

\* Redis fails in one of the two: the answer is let through.
GateFails(r) ==
    /\ Upset /\ r \in talk /\ r.at \in {"gate", "expire"}
    /\ Goes(r, "reply")
    /\ UNCHANGED <<campaign, tasks, telling, events, registry, answered, counter, expires, passed,
                   astray, missing, turns>>

WindowEnds ==
    /\ expires
    /\ counter' = 0 /\ expires' = FALSE /\ passed' = 0
    /\ UNCHANGED <<campaign, tasks, telling, events, registry, talk, answered, ghosts>>

\* After the model's answer and a pause; the campaign is not looked at again.
Answer(r) ==
    /\ r \in talk /\ r.at = "reply"
    /\ Falls(r)
    /\ answered' = [answered EXCEPT ![r.msg] = @ + 1]
    /\ UNCHANGED <<campaign, tasks, telling, events, registry, counter, expires, passed, ghosts>>

\* The model or Telegram fails.
NoAnswer(r) ==
    /\ Upset /\ r \in talk /\ r.at = "reply"
    /\ Falls(r)
    /\ UNCHANGED <<campaign, tasks, telling, events, registry, answered, counter, expires, passed,
                   astray, missing, turns>>
-----------------------------------------------------------------------------
LiveNext ==
    \/ Start \/ Stop \/ Delete \/ EditRunning \/ EditStopped \/ StartTask
    \/ \E i \in DOMAIN telling : Publish(i) \/ Untold(i)
    \/ TakeAttach \/ TakeDetach \/ WorkerDies \/ Load \/ Subscribe \/ WindowEnds
    \/ \E b \in Bots : Edit(b) \/ Connect(b) \/ NoClient(b) \/ \E m \in Replies : Reply(m, b)
    \/ \E r \in talk : Gate(r) \/ Expire(r) \/ GateFails(r) \/ Answer(r) \/ NoAnswer(r)

LiveSpec == LiveInit /\ [][LiveNext]_liveVars
-----------------------------------------------------------------------------
(* Properties *)

\* The campaign, the registry and the runs are well formed.
LiveTypeOK ==
    /\ status \in {"idle", "running", "gone"} /\ answers \in BOOLEAN /\ linked \subseteq Bots
    /\ tasks \in Nat /\ telling \in Seq({"attach", "detach"}) /\ events \in Seq({"attach", "detach"})
    /\ phase \in {"down", "loading", "up"} /\ attaching \subseteq Bots
    /\ heard \in [Bots -> 0..2]
    /\ talk \subseteq Runs /\ answered \in [Replies -> Int]
    /\ counter \in Nat /\ expires \in BOOLEAN /\ passed \in Nat
    /\ astray \subseteq {"events", "status"} /\ missing \in BOOLEAN
    /\ turns \in 0..MaxTurns /\ upsets \in 0..MaxUpsets

\* When all is said and done a stopped campaign has no handler and a running one has all of
\* them, through starts, stops, refused starts and restarts at any moment.  Until an event
\* overtakes another or goes out while the worker loads; or, up to the next start or stop, an
\* edit or a refused start has stopped the campaign and published nothing.  Of a running
\* campaign this is said only as long as nobody edits it or sets it running by hand, every
\* client connects and the queue takes its start; a stop takes care of those too
\* (live_interception.py:92-172, 433-463, worker/main.py:86-123, orchestrator.py:81-86).
StoppedIsSilent ==
    astray = {} /\ phase = "up" /\ attaching = {} /\ telling \o events = <<>> =>
        /\ status # "running" => \A b \in Bots : heard[b] = 0
        /\ status = "running" /\ ~missing =>
              \A b \in Bots : heard[b] = IF answers /\ b \in linked THEN 1 ELSE 0

\* A reply is answered once, and nobody gets more than _MAX_REPLIES answers through the gate
\* before the counter begins anew, whatever is attached, restarted or answered at the same
\* time; only what passes while Redis fails is not counted (live_interception.py:107-109,
\* 241-253).
RepliesBounded ==
    /\ \A m \in Replies : answered[m] <= 1
    /\ passed <= MaxReplies
=============================================================================

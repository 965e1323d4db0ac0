-------------------------- MODULE ChannelListeners --------------------------
(***************************************************************************)
(* modules/commenting/worker/registry.py: one Telethon handler for every   *)
(* working row of monitored_channels.  Whoever commits a change of a row   *)
(* publishes attach or detach on Redis pub/sub, before or after that       *)
(* commit; the worker's lifecycle task takes the events one by one.        *)
(* Events published while nobody is subscribed are lost; at startup        *)
(* load_all attaches the working rows and only then the task subscribes.   *)
(* The worker is one process: what it does without an await is only        *)
(* interleaved with the API.                                               *)
(***************************************************************************)
EXTENDS Integers, Sequences

CONSTANTS
    Channels,     \* rows of monitored_channels
    MaxChanges,   \* bound on requests, resolves and refused comments
    MaxIncidents, \* bound on deaths, lost subscriptions and failed attaches
    NoChannel

ListenersAssumption == /\ NoChannel \notin Channels
                       /\ {MaxChanges, MaxIncidents} \subseteq Nat

VARIABLES
    status,     \* of each row: new (not created), pending, working, failed or gone
    tries,      \* resolve_channel tasks of the row, queued or running
    planning,   \* comments planned for the channel and not sent
    rejoining,  \* rows made pending by a refused comment, whose detach is still to be published
    telling,    \* the row a resolve has committed as working and not published yet
    refused,    \* rows whose resolve is about to learn that Redis refuses its backfill task
    removing,   \* how far a request of the API is in deleting the row (see below)
    events,     \* published and not taken
    attaching,  \* the row whose attach waits for its client and its join
    heard,      \* rows with a handler
    eligible,   \* the account is assigned to an enabled campaign: load_all looks at it
    phase,      \* of the worker
    changes, incidents,
    astray      \* rows some incident has put out of step with their handler (see below)

lisVars == <<status, tries, planning, rejoining, telling, refused, removing, events, attaching, heard,
             eligible, phase, changes, incidents, astray>>
ofResolve == <<telling, refused>>

ListenersInit ==
    /\ status = [c \in Channels |-> "new"]
    /\ tries = [c \in Channels |-> 0]
    /\ planning = [c \in Channels |-> FALSE]
    /\ telling = NoChannel /\ refused = {}
    /\ removing = [c \in Channels |-> "no"]
    /\ rejoining = {} /\ events = <<>> /\ attaching = NoChannel /\ heard = {}
    /\ eligible = TRUE /\ phase = "up"
    /\ changes = 0 /\ incidents = 0 /\ astray = {}
-----------------------------------------------------------------------------
Exists(c) == status[c] \in {"pending", "working", "failed"}
MarkedAs(c, st) == IF Exists(c) THEN [status EXCEPT ![c] = st] ELSE status
Change == changes < MaxChanges /\ changes' = changes + 1
Incident == incidents < MaxIncidents /\ incidents' = incidents + 1

\* The worker runs, and is not between a commit and its event.
Running == phase \in {"up", "deaf"} /\ telling = NoChannel

\* The DELETE of a request that has not committed makes every UPDATE of the row wait.
RowHeld(c) == removing[c] = "locked"

\* At most once: nobody subscribed, nobody told.
Publish(action, c) ==
    IF phase = "up" THEN events' = Append(events, <<action, c>>) /\ UNCHANGED astray
    ELSE astray' = astray \cup {c} /\ UNCHANGED events
Silent == UNCHANGED <<events, astray>>
-----------------------------------------------------------------------------
(* Rows *)

AddChannel(c) ==
    /\ status[c] = "new" /\ status' = [status EXCEPT ![c] = "pending"]
    /\ tries' = [tries EXCEPT ![c] = @ + 1]
    /\ Change /\ Silent
    /\ UNCHANGED <<planning, rejoining, ofResolve, removing, attaching, heard, eligible, phase,
                   incidents>>

\* A sync tries a failed row again.
RetryFailed(c) ==
    /\ Running /\ ~RowHeld(c)
    /\ status[c] = "failed" /\ status' = [status EXCEPT ![c] = "pending"]
    /\ tries' = [tries EXCEPT ![c] = @ + 1]
    /\ Change /\ Silent
    /\ UNCHANGED <<planning, rejoining, ofResolve, removing, attaching, heard, eligible, phase,
                   incidents>>

\* _drop_rows, in the worker: only a working row is known to have a handler.
DropRow(c) ==
    /\ Running /\ ~RowHeld(c)
    /\ Exists(c) /\ status' = [status EXCEPT ![c] = "gone"]
    /\ IF status[c] = "working" THEN Publish("detach", c) ELSE Silent
    /\ Change
    /\ UNCHANGED <<tries, planning, rejoining, ofResolve, removing, attaching, heard, eligible,
                   phase, incidents>>

\* remove_channel and _drop_campaign_monitoring, in the API, first read whether the row works.
ReadRow(c) ==
    /\ Exists(c) /\ removing[c] = "no"
    /\ removing' = [removing EXCEPT ![c] = IF status[c] = "working" THEN "working" ELSE "idle"]
    /\ Change /\ Silent
    /\ UNCHANGED <<status, tries, planning, rejoining, ofResolve, attaching, heard, eligible, phase,
                   incidents>>

\* A resolve that commits after the read goes unnoticed.
Overtaken(c) == removing[c] = "idle" /\ status[c] = "working"
Named(c) == astray' = IF Overtaken(c) THEN astray \cup {c} ELSE astray

\* Mutant: the detach of a deleted row is left out.
CommitsSilently(c) ==
    /\ removing[c] \in {"idle", "working"} /\ removing' = [removing EXCEPT ![c] = "no"]
    /\ status' = MarkedAs(c, "gone")
    /\ Named(c)
    /\ UNCHANGED <<tries, planning, rejoining, ofResolve, events, attaching, heard, eligible, phase,
                   changes, incidents>>

\* remove_channel commits, and publishes the detach of a row it has seen working.
CommitsFirst(c) ==
    /\ removing[c] \in {"idle", "working"}
    /\ removing' = [removing EXCEPT ![c] = IF @ = "working" THEN "untold" ELSE "no"]
    /\ status' = MarkedAs(c, "gone")
    /\ Named(c)
    /\ UNCHANGED <<tries, planning, rejoining, ofResolve, events, attaching, heard, eligible, phase,
                   changes, incidents>>

PublishesDetach(c) ==
    /\ removing[c] = "untold" /\ removing' = [removing EXCEPT ![c] = "no"]
    /\ Publish("detach", c)
    /\ UNCHANGED <<status, tries, planning, rejoining, ofResolve, attaching, heard, eligible, phase,
                   changes, incidents>>

\* _drop_campaign_monitoring deletes and publishes; its caller commits afterwards.
PublishesFirst(c) ==
    /\ removing[c] \in {"idle", "working"} /\ Exists(c)
    /\ removing' = [removing EXCEPT ![c] = "locked"]
    /\ IF removing[c] = "working" THEN Publish("detach", c) ELSE Named(c) /\ UNCHANGED events
    /\ UNCHANGED <<status, tries, planning, rejoining, ofResolve, attaching, heard, eligible, phase,
                   changes, incidents>>

CommitsDelete(c) ==
    /\ RowHeld(c) /\ removing' = [removing EXCEPT ![c] = "no"]
    /\ status' = MarkedAs(c, "gone")
    /\ Silent
    /\ UNCHANGED <<tries, planning, rejoining, ofResolve, attaching, heard, eligible, phase, changes,
                   incidents>>

\* The API dies, or the database refuses: a detach is not published, or one published is of a
\* row that stays.
RemovalFails(c) ==
    /\ removing[c] \in {"untold", "locked"} /\ removing' = [removing EXCEPT ![c] = "no"]
    /\ astray' = astray \cup {c}
    /\ Incident
    /\ UNCHANGED <<status, tries, planning, rejoining, ofResolve, events, attaching, heard, eligible,
                   phase, changes>>

\* mark_working finds no row if it was deleted meanwhile; the event is published anyway.
ResolveWorks(c) ==
    /\ Running /\ ~RowHeld(c) /\ tries[c] > 0
    /\ status' = MarkedAs(c, "working") /\ telling' = c
    /\ Silent
    /\ UNCHANGED <<tries, planning, rejoining, refused, removing, attaching, heard, eligible, phase,
                   changes, incidents>>

\* A delete that has published its detach by now and not committed leaves the row to attach to.
\* The backfill that is enqueued next may be refused.
PublishesAttach(c) ==
    /\ phase \in {"up", "deaf"} /\ telling = c /\ telling' = NoChannel
    /\ astray' = IF phase # "up" \/ RowHeld(c) THEN astray \cup {c} ELSE astray
    /\ events' = IF phase = "up" THEN Append(events, <<"attach", c>>) ELSE events
    /\ tries' = [tries EXCEPT ![c] = @ - 1]
    /\ \/ UNCHANGED <<refused, incidents>>
       \/ refused' = refused \cup {c} /\ Incident
    /\ UNCHANGED <<status, planning, rejoining, removing, attaching, heard, eligible, phase, changes>>

\* Then the error handler of the resolve marks the row failed, and its handler stays.
BackfillRefused(c) ==
    /\ Running /\ ~RowHeld(c) /\ c \in refused /\ refused' = refused \ {c}
    /\ status' = MarkedAs(c, "failed")
    /\ astray' = IF status[c] = "working" THEN astray \cup {c} ELSE astray
    /\ UNCHANGED <<tries, planning, rejoining, telling, removing, events, attaching, heard, eligible,
                   phase, changes, incidents>>

\* Published by nobody: a second resolve of a row that works by now leaves its handler on.
ResolveFails(c) ==
    /\ Running /\ ~RowHeld(c) /\ tries[c] > 0 /\ tries' = [tries EXCEPT ![c] = @ - 1]
    /\ status' = MarkedAs(c, "failed")
    /\ astray' = IF status[c] = "working" THEN astray \cup {c} ELSE astray
    /\ UNCHANGED <<planning, rejoining, ofResolve, removing, events, attaching, heard, eligible,
                   phase, changes, incidents>>

\* A post in a channel that is listened to plans a comment.
PlanComment(c) ==
    /\ Running /\ c \in heard /\ status[c] = "working" /\ ~planning[c]
    /\ planning' = [planning EXCEPT ![c] = TRUE]
    /\ Change /\ Silent
    /\ UNCHANGED <<status, tries, rejoining, ofResolve, removing, attaching, heard, eligible, phase,
                   incidents>>

\* _handle_access_error: no access any more, whatever the row is by now.
AccessLost(c) ==
    /\ Running /\ ~RowHeld(c) /\ planning[c] /\ planning' = [planning EXCEPT ![c] = FALSE]
    /\ status' = MarkedAs(c, "failed")
    /\ Publish("detach", c)
    /\ UNCHANGED <<tries, rejoining, ofResolve, removing, attaching, heard, eligible, phase, changes,
                   incidents>>

\* Or not a member: the row is resolved again, and the detach follows one await later.
Rejoin(c) ==
    /\ Running /\ ~RowHeld(c) /\ planning[c] /\ planning' = [planning EXCEPT ![c] = FALSE]
    /\ status' = MarkedAs(c, "pending")
    /\ tries' = [tries EXCEPT ![c] = @ + 1]
    /\ rejoining' = rejoining \cup {c}
    /\ Silent
    /\ UNCHANGED <<ofResolve, removing, attaching, heard, eligible, phase, changes, incidents>>

\* If the resolve was faster, its attach is undone.
RejoinDetach(c) ==
    /\ Running /\ c \in rejoining /\ rejoining' = rejoining \ {c}
    /\ IF status[c] = "working"
       THEN /\ astray' = astray \cup {c}
            /\ IF phase = "up" THEN events' = Append(events, <<"detach", c>>) ELSE UNCHANGED events
       ELSE Publish("detach", c)
    /\ UNCHANGED <<status, tries, planning, ofResolve, removing, attaching, heard, eligible, phase,
                   changes, incidents>>
-----------------------------------------------------------------------------
(* The lifecycle task *)

Free == phase = "up" /\ telling = NoChannel /\ attaching = NoChannel /\ events # <<>>
Took == events' = Tail(events)

\* attach reads the row, under the registry's lock.
TakeAttach ==
    LET c == Head(events)[2] IN
    /\ Free /\ Head(events)[1] = "attach" /\ Took
    /\ attaching' = IF c \notin heard /\ status[c] = "working" THEN c ELSE NoChannel
    /\ UNCHANGED <<status, tries, planning, rejoining, ofResolve, removing, heard, eligible, phase, changes, incidents,
                   astray>>

Attached ==
    /\ attaching # NoChannel /\ telling = NoChannel /\ attaching' = NoChannel
    /\ heard' = heard \cup {attaching}
    /\ UNCHANGED <<status, tries, planning, rejoining, ofResolve, removing, events, eligible, phase, changes, incidents,
                   astray>>

\* No client: the task logs it and goes on to the next event.
AttachFails ==
    /\ attaching # NoChannel /\ telling = NoChannel /\ attaching' = NoChannel
    /\ astray' = astray \cup {attaching}
    /\ Incident
    /\ UNCHANGED <<status, tries, planning, rejoining, ofResolve, removing, events, heard, eligible, phase, changes>>

TakeDetach ==
    /\ Free /\ Head(events)[1] = "detach" /\ Took
    /\ heard' = heard \ {Head(events)[2]}
    /\ UNCHANGED <<status, tries, planning, rejoining, ofResolve, removing, attaching, eligible, phase, changes,
                   incidents, astray>>
-----------------------------------------------------------------------------
(* The worker *)

\* A redelivered task does its work again; what was published is lost.
WorkerDies ==
    /\ phase # "down" /\ phase' = "down"
    /\ events' = <<>> /\ attaching' = NoChannel /\ heard' = {} /\ rejoining' = {}
    /\ telling' = NoChannel /\ refused' = {}
    /\ planning' = [c \in Channels |-> planning[c] \/ c \in rejoining]
    /\ tries' = [c \in Channels |-> IF c \in refused THEN tries[c] + 1 ELSE tries[c]]
    /\ Incident
    /\ UNCHANGED <<status, removing, eligible, changes, astray>>

\* load_all takes the working rows of accounts that may comment now; the others get no
\* handler later either, unless their row is resolved again.  A row whose delete has not
\* committed is loaded, and its detach has been published already.
LoadAll ==
    LET working == {c \in Channels : status[c] = "working"} IN
    /\ phase = "down" /\ phase' = "loaded"
    /\ heard' = IF eligible THEN working ELSE {}
    /\ astray' = (working \ heard') \cup {c \in heard' : RowHeld(c)}
    /\ UNCHANGED <<status, tries, planning, rejoining, ofResolve, removing, events, attaching, eligible, changes,
                   incidents>>

Subscribe ==
    /\ phase = "loaded" /\ phase' = "up"
    /\ UNCHANGED <<status, tries, planning, rejoining, ofResolve, removing, events, attaching, heard, eligible, changes,
                   incidents, astray>>

\* The connection to Redis breaks: the task ends, and nobody starts it again.
TurnsDeaf ==
    /\ phase = "up" /\ telling = NoChannel /\ phase' = "deaf"
    /\ astray' = astray \cup {events[n][2] : n \in DOMAIN events}
                        \cup (IF attaching = NoChannel THEN {} ELSE {attaching})
    /\ events' = <<>> /\ attaching' = NoChannel
    /\ Incident
    /\ UNCHANGED <<status, tries, planning, rejoining, ofResolve, removing, heard, eligible, changes>>

\* The account joins or leaves, or its campaign is switched.  Nobody tells the registry of
\* the account's own rows.
SwitchEligible ==
    /\ eligible' = ~eligible
    /\ Change /\ Silent
    /\ UNCHANGED <<status, tries, planning, rejoining, ofResolve, removing, attaching, heard, phase, incidents>>
-----------------------------------------------------------------------------
RowStep(c) ==
    \/ AddChannel(c) \/ RetryFailed(c) \/ DropRow(c)
    \/ ReadRow(c) \/ CommitsFirst(c) \/ PublishesDetach(c)
    \/ PublishesFirst(c) \/ CommitsDelete(c) \/ RemovalFails(c)
    \/ ResolveWorks(c) \/ PublishesAttach(c) \/ BackfillRefused(c) \/ ResolveFails(c) \/ PlanComment(c)
    \/ AccessLost(c) \/ Rejoin(c) \/ RejoinDetach(c)
Lifecycle == TakeAttach \/ Attached \/ AttachFails \/ TakeDetach

ListenersNext ==
    \/ \E c \in Channels : RowStep(c)
    \/ Lifecycle
    \/ WorkerDies \/ LoadAll \/ Subscribe \/ TurnsDeaf \/ SwitchEligible

ListenersSpec == ListenersInit /\ [][ListenersNext]_lisVars
-----------------------------------------------------------------------------
(* Properties *)

\* Rows, events and handlers are well formed.
ListenersTypeOK ==
    /\ status \in [Channels -> {"new", "pending", "working", "failed", "gone"}]
    /\ tries \in [Channels -> Nat]
    /\ planning \in [Channels -> BOOLEAN]
    /\ rejoining \cup refused \cup heard \cup astray \subseteq Channels
    /\ telling \in Channels \cup {NoChannel}
    /\ removing \in [Channels -> {"no", "idle", "working", "untold", "locked"}]
    /\ events \in Seq({"attach", "detach"} \X Channels)
    /\ attaching \in Channels \cup {NoChannel}
    /\ eligible \in BOOLEAN /\ phase \in {"up", "down", "loaded", "deaf"}
    /\ changes \in Nat /\ incidents \in Nat

\* The handler of the row is there, or an attach is under way.
HasHandler(c) == c \in heard \/ attaching = c
Queued(action, c) == \E n \in DOMAIN events : events[n] = <<action, c>>
\* The last event for the row is an attach.
AttachLast(c) == \E n \in DOMAIN events :
    events[n] = <<"attach", c>> /\ \A m \in DOMAIN events : m > n => events[m][2] # c

\* Whatever the order of resolves, refusals, deletions and events, the handlers follow the
\* rows: a working row has its handler or will get it, any other, and one whose delete is about
\* to commit, has none or will lose it.  Only the incidents that astray names break this: an
\* event nobody heard, a failed attach, a delete that broke off half-way, a row that load_all
\* passed over, a resolve overtaken by another one, by its own detach or by its refused backfill,
\* and a resolve that commits between the read and the delete of a request, or publishes between
\* the delete and its commit.
HandlersFollowRows ==
    phase = "up" => \A c \in Channels \ astray :
        /\ status[c] = "working" /\ ~RowHeld(c) =>
              telling = c \/ AttachLast(c) \/ (HasHandler(c) /\ ~Queued("detach", c))
        /\ (status[c] # "working" \/ RowHeld(c)) /\ HasHandler(c) =>
              Queued("detach", c) \/ c \in rejoining \/ removing[c] = "untold"
=============================================================================

---------------------------- MODULE PostListener ----------------------------
(***************************************************************************)
(* modules/commenting/worker/registry.py, ListenerRegistry: the handler    *)
(* the worker keeps for a campaign that comments in one discussion group,  *)
(* hosted by one of its accounts, and the events by which the API          *)
(* (modules/commenting/api/router.py) has it attached and detached.  An    *)
(* account that leaves or regains the status assigned tells nobody.  One   *)
(* campaign.                                                               *)
(*                                                                         *)
(* Requests run in several API processes: what one has read, committed and *)
(* published are steps of their own.  The worker loads, then subscribes;   *)
(* what is published while it does not listen nobody hears.                *)
(***************************************************************************)
EXTENDS Integers, Sequences, FiniteSets

CONSTANTS
    Hosts,       \* accounts of the campaign
    Requests,    \* requests of the API under way at once
    Nobody,      \* no account
    MaxEdits,    \* bound on requests and changes of status
    MaxTroubles  \* bound on restarts and failing attachments

PostListenerAssumption == Nobody \notin Hosts /\ MaxEdits \in Nat /\ MaxTroubles \in Nat

VARIABLES
    enabled,   \* campaigns.enabled, or "gone"
    suited,    \* explicit_links, with target_channel and discussion_group_id
    links,     \* campaign_accounts
    able,      \* of them, those whose account is assigned
    request,   \* what each request of the API has still to do
    bus,       \* events on campaign_lifecycle the worker has not handled
    worker,    \* "down", "loading" or "listening"
    joining,   \* the account an attach is waiting for
    host,      \* the account of the handler
    held,      \* references the registry has on clients
    leaked,    \* of them, those nothing releases
    astray,    \* why the handler need not fit the campaign
    edits, troubles

postVars == <<enabled, suited, links, able, request, bus, worker, joining, host, held, leaked,
              astray, edits, troubles>>

NoRequest == [op |-> "none", to |-> "on", was |-> "on", who |-> Nobody]
Edit == edits < MaxEdits /\ edits' = edits + 1

PostInit ==
    /\ enabled \in {"on", "off"} /\ suited \in BOOLEAN
    /\ links = {} /\ able = {}
    /\ request = [r \in Requests |-> NoRequest]
    /\ bus = <<>> /\ worker = "listening"
    /\ joining = Nobody /\ host = Nobody
    /\ held = [a \in Hosts |-> 0] /\ leaked = [a \in Hosts |-> 0]
    /\ astray = {}
    /\ edits = 0 /\ troubles = 0

\* publish_campaign_lifecycle: the subscriber gets it, or nobody does.
Publish(action) ==
    IF worker = "listening" THEN bus' = Append(bus, action) /\ UNCHANGED astray
    ELSE bus' = bus /\ astray' = astray \cup {"unheard"}
Answered(r) == request' = [request EXCEPT ![r] = NoRequest]
Opens(r, op, to, who) ==
    /\ request[r].op = "none" /\ enabled # "gone" /\ Edit
    /\ request' = [request EXCEPT ![r] = [op |-> op, to |-> to, was |-> enabled, who |-> who]]
\* Requests that overlap can publish in another order than they commit in.
Overlap(r) == IF \E s \in Requests \ {r} : request[s].op # "none" THEN {"overtaken"} ELSE {}
\* The campaign has an account that could host its handler again, and no event will say so.
Untold ==
    IF able = {} /\ enabled = "on" /\ host = Nobody /\ joining = Nobody THEN {"untold"} ELSE {}
-----------------------------------------------------------------------------
(* The API *)

\* PATCH reads the row ...
Patch(r, to) ==
    /\ Opens(r, "write", to, Nobody)
    /\ astray' = astray \cup Overlap(r)
    /\ UNCHANGED <<enabled, suited, links, able, bus, worker, joining, host, held, leaked,
                   troubles>>

\* ... writes enabled if that differs from what it read, and commits.  A row gone meanwhile
\* fails the request (StaleDataError).
CommitPatch(r) ==
    LET q == request[r] IN
    /\ q.op = "write"
    /\ IF enabled = "gone"
       THEN Answered(r) /\ UNCHANGED enabled
       ELSE /\ enabled' = IF q.to # q.was THEN q.to ELSE enabled
            /\ request' = [request EXCEPT ![r].op = "tell"]
    /\ UNCHANGED <<suited, links, able, bus, worker, joining, host, held, leaked, astray, edits,
                   troubles>>

\* Mutant: the event says what the campaign was.
TellBefore(r) ==
    /\ request[r].op = "tell"
    /\ Publish(request[r].was)
    /\ Answered(r)
    /\ UNCHANGED <<enabled, suited, links, able, worker, joining, host, held, leaked, edits,
                   troubles>>

\* The event follows the commit.
TellWorker(r) ==
    /\ request[r].op = "tell"
    /\ Publish(request[r].to)
    /\ Answered(r)
    /\ UNCHANGED <<enabled, suited, links, able, worker, joining, host, held, leaked, edits,
                   troubles>>

\* PATCH of the mode, the channel or the group: no event.
Retarget ==
    /\ enabled # "gone" /\ Edit
    /\ suited' = ~suited
    /\ astray' = astray \cup {"retargeted"}
    /\ UNCHANGED <<enabled, links, able, request, bus, worker, joining, host, held, leaked,
                   troubles>>

\* DELETE publishes first ...
Delete(r) ==
    /\ Opens(r, "told", "off", Nobody)
    /\ IF worker = "listening" THEN bus' = Append(bus, "off") ELSE UNCHANGED bus
    /\ astray' = astray \cup Overlap(r) \cup (IF worker = "listening" THEN {} ELSE {"unheard"})
    /\ UNCHANGED <<enabled, suited, links, able, worker, joining, host, held, leaked, troubles>>

\* ... and then takes the accounts off and the row away.
CommitDelete(r) ==
    /\ request[r].op = "told"
    /\ enabled' = "gone" /\ links' = {} /\ able' = {}
    /\ Answered(r)
    /\ UNCHANGED <<suited, bus, worker, joining, host, held, leaked, astray, edits, troubles>>

\* POST of an account, which is assigned then, commits the link ...
Attach(r, a) ==
    /\ a \notin links /\ Opens(r, "count", "on", a)
    /\ links' = links \cup {a} /\ able' = able \cup {a}
    /\ astray' = astray \cup Overlap(r) \cup (IF links = {} THEN {} ELSE Untold)
    /\ UNCHANGED <<enabled, suited, bus, worker, joining, host, held, leaked, troubles>>

\* Mutant: every account asks for a handler but the first.
CountLater(r) ==
    /\ request[r].op = "count"
    /\ IF Cardinality(links) > 1 /\ enabled = "on"
       THEN Publish("on") ELSE UNCHANGED <<bus, astray>>
    /\ Answered(r)
    /\ UNCHANGED <<enabled, suited, links, able, worker, joining, host, held, leaked, edits,
                   troubles>>

\* ... counts the links, and asks for a handler if its own is the only one (two first ones
\* that overlap both count two).
Count(r) ==
    /\ request[r].op = "count"
    /\ IF Cardinality(links) = 1 /\ enabled = "on"
       THEN Publish("on") ELSE UNCHANGED <<bus, astray>>
    /\ Answered(r)
    /\ UNCHANGED <<enabled, suited, links, able, worker, joining, host, held, leaked, edits,
                   troubles>>

\* An account is detached, or leaves for another reason; the handler stays with it.
Detach(a) ==
    /\ a \in links /\ Edit
    /\ links' = links \ {a} /\ able' = able \ {a}
    /\ UNCHANGED <<enabled, suited, request, bus, worker, joining, host, held, leaked, astray,
                   troubles>>
-----------------------------------------------------------------------------
(* The status of an account *)

\* An incident, a ban or a retirement; the link stays, and so does the handler.
Lapse(a) ==
    /\ a \in able /\ Edit
    /\ able' = able \ {a}
    /\ UNCHANGED <<enabled, suited, links, request, bus, worker, joining, host, held, leaked,
                   astray,
                   troubles>>

\* The cooldown is over, or another campaign takes the account.
Return(a) ==
    /\ a \in links \ able /\ Edit
    /\ able' = able \cup {a}
    /\ astray' = astray \cup Untold
    /\ UNCHANGED <<enabled, suited, links, request, bus, worker, joining, host, held, leaked,
                   troubles>>
-----------------------------------------------------------------------------
(* The registry *)

Wanted == enabled = "on" /\ suited /\ able # {}

\* attach: nothing to do if there is a handler, nothing to be done unless the campaign is on,
\* has an assigned account, a channel and a group; else the client is asked for, an await.
AttachHandler ==
    IF host = Nobody /\ Wanted
    THEN \E a \in able : joining' = a
    ELSE UNCHANGED joining

\* The next event, once the last is done with.
HearAttach ==
    /\ worker = "listening" /\ joining = Nobody /\ bus # <<>> /\ Head(bus) = "on"
    /\ bus' = Tail(bus)
    /\ AttachHandler
    /\ UNCHANGED <<enabled, suited, links, able, request, worker, host, held, leaked, astray,
                   edits, troubles>>

\* detach: the handler is removed and its client released.
HearDetach ==
    /\ worker = "listening" /\ joining = Nobody /\ bus # <<>> /\ Head(bus) = "off"
    /\ bus' = Tail(bus)
    /\ host' = Nobody
    /\ held' = [a \in Hosts |-> held[a] - (IF a = host THEN 1 ELSE 0)]
    /\ UNCHANGED <<enabled, suited, links, able, request, worker, joining, leaked, astray, edits,
                   troubles>>

\* Mutant: the handler is added and the client not kept.
JoinUnheld ==
    /\ joining # Nobody
    /\ host' = joining /\ joining' = Nobody
    /\ UNCHANGED <<enabled, suited, links, able, request, bus, worker, held, leaked, astray, edits,
                   troubles>>

\* The client is there and knows the channel.
Join ==
    /\ joining # Nobody
    /\ host' = joining /\ joining' = Nobody
    /\ held' = [held EXCEPT ![joining] = @ + 1]
    /\ UNCHANGED <<enabled, suited, links, able, request, bus, worker, leaked, astray, edits,
                   troubles>>

\* No client; or a client that does not find the channel, and is not released.
JoinFails ==
    /\ joining # Nobody /\ troubles < MaxTroubles /\ troubles' = troubles + 1
    /\ joining' = Nobody
    /\ \/ UNCHANGED <<held, leaked>>
       \/ /\ held' = [held EXCEPT ![joining] = @ + 1]
          /\ leaked' = [leaked EXCEPT ![joining] = @ + 1]
    /\ astray' = astray \cup {"failed"}
    /\ UNCHANGED <<enabled, suited, links, able, request, bus, worker, host, edits>>

\* The worker goes, with its handlers and whatever it had not handled yet.
Stop ==
    /\ worker # "down" /\ troubles < MaxTroubles /\ troubles' = troubles + 1
    /\ worker' = "down" /\ bus' = <<>> /\ joining' = Nobody /\ host' = Nobody
    /\ held' = [a \in Hosts |-> 0] /\ leaked' = [a \in Hosts |-> 0]
    /\ UNCHANGED <<enabled, suited, links, able, request, astray, edits>>

\* load_all reads what is enabled; what went astray before is behind it.
Load ==
    /\ worker = "down"
    /\ worker' = "loading"
    /\ AttachHandler
    /\ astray' = IF \E r \in Requests : request[r].op # "none" THEN {"unheard"} ELSE {}
    /\ UNCHANGED <<enabled, suited, links, able, request, bus, host, held, leaked, edits, troubles>>

Subscribe ==
    /\ worker = "loading" /\ joining = Nobody
    /\ worker' = "listening"
    /\ astray' = IF \E r \in Requests : request[r].op # "none"
                 THEN astray \cup {"unheard"} ELSE astray
    /\ UNCHANGED <<enabled, suited, links, able, request, bus, joining, host, held, leaked, edits,
                   troubles>>
-----------------------------------------------------------------------------
PostNext ==
    \/ \E r \in Requests : \/ \E to \in {"on", "off"} : Patch(r, to)
                           \/ CommitPatch(r) \/ TellWorker(r) \/ Delete(r) \/ CommitDelete(r)
                           \/ \E a \in Hosts : Attach(r, a)
                           \/ Count(r)
    \/ \E a \in Hosts : Detach(a) \/ Lapse(a) \/ Return(a)
    \/ Retarget \/ HearAttach \/ HearDetach \/ Join \/ JoinFails \/ Stop \/ Load \/ Subscribe

PostSpec == PostInit /\ [][PostNext]_postVars
-----------------------------------------------------------------------------
(* Properties *)

\* Rows, events and references are well formed.
PostTypeOK ==
    /\ enabled \in {"on", "off", "gone"} /\ suited \in BOOLEAN /\ links \subseteq Hosts
    /\ able \subseteq links
    /\ request \in [Requests -> [op: {"none", "write", "tell", "told", "count"}, to: {"on", "off"},
                                 was: {"on", "off"}, who: Hosts \cup {Nobody}]]
    /\ \A i \in DOMAIN bus : bus[i] \in {"on", "off"}
    /\ worker \in {"down", "loading", "listening"}
    /\ joining \in Hosts \cup {Nobody} /\ host \in Hosts \cup {Nobody}
    /\ held \in [Hosts -> Nat] /\ leaked \in [Hosts -> Nat]
    /\ astray \subseteq {"unheard", "overtaken", "retargeted", "failed", "untold"}
    /\ edits \in 0..MaxEdits /\ troubles \in 0..MaxTroubles

Settled == /\ worker = "listening" /\ joining = Nobody /\ bus = <<>>
           /\ \A r \in Requests : request[r].op = "none"

\* Once all events are handled a campaign that is off has no handler, and one that is on, with
\* an assigned account and a group, has one - unless an event was not heard or came out of
\* order, the campaign was retargeted, an attachment failed, or its last assigned account went
\* and one came back while there was no handler, which publishes nothing: nothing but a restart
\* or the next switch repairs that (modules/commenting/worker/registry.py:225-381,
\* modules/commenting/api/router.py:181-295, worker/tasks/handlers.py:107-120).
HandlerFits ==
    Settled /\ astray = {} =>
        /\ host # Nobody => enabled = "on"
        /\ Wanted => host # Nobody

\* The registry holds one reference for its handler, and those it leaked.
HostHeld == \A a \in Hosts : held[a] = leaked[a] + (IF host = a THEN 1 ELSE 0)

ListenerFollows == HandlerFits /\ HostHeld
=============================================================================

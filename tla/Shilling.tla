------------------------------ MODULE Shilling ------------------------------
(***************************************************************************)
(* modules/shilling: a scenario played in chats by the accounts of one     *)
(* campaign.  start_campaign schedules a process_target per chat, which    *)
(* gives the parts to accounts, finds where to write and schedules an      *)
(* execute_step per line; a line that meets a ban is handed to failover,   *)
(* which promotes a reserve.  Stop and start at any moment; a step is what *)
(* runs between two awaits; a task that dies with the worker, or raises, is *)
(* run again (failover is not).                                            *)
(***************************************************************************)
EXTENDS Integers, FiniteSets

CONSTANTS
    Actors,      \* accounts
    Parts,       \* scenario_roles
    Lines,       \* scenario_steps with a message or a reaction, numbered in their order
    PartOf,      \* the role of each step
    Chats,       \* targets that are not monitors
    Stages,      \* tasks the worker may run at once
    MaxDialogs,  \* bound on dialogs
    MaxEdits_,   \* bound on edits of the cast, starts included
    MaxMishaps_, \* bound on deaths of the worker and tasks that raise half-way
    NoPart

ShillingAssumption == /\ IsFiniteSet(Lines) /\ Lines \subseteq Nat /\ IsFiniteSet(Stages)
                      /\ PartOf \in [Lines -> Parts] /\ NoPart \notin Parts
                      /\ {MaxDialogs, MaxEdits_, MaxMishaps_} \subseteq Nat

VARIABLES
    show,      \* campaign.status, as far as it is looked at: running or not
    cast,      \* campaign_accounts: role and is_reserve
    unfit,     \* accounts that are neither in the pool nor assigned
    openings,  \* start_campaign tasks in the queue
    visits,    \* process_target tasks in the queue
    cues,      \* execute_step tasks in the queue
    subs,      \* failover tasks in the queue
    stage,     \* what each slot of the worker does
    flops,     \* execution_log rows with status failed: chat and account
    shunned,   \* chats on the campaign's blacklist
    dialogs,   \* dialogs that were scheduled, or begun to be
    said,      \* how often each line of a dialog was sent
    voices,    \* who was heard in a dialog, in which part
    recast,    \* accounts whose place in the cast was edited
    edits_, mishaps_

shillVars == <<show, cast, unfit, openings, visits, cues, subs, stage, flops, shunned,
               dialogs, said, voices, recast, edits_, mishaps_>>
waiting == <<openings, visits, cues, subs>>
speech == <<said, voices>>
history == <<flops, shunned, dialogs, speech>>
admin == <<recast, edits_, mishaps_>>

NotCast == [as |-> "none", part |-> NoPart]
Cues == [dialog: 0..MaxDialogs, chat: Chats, line: Lines, actor: Actors]
Bare == [at |-> "empty", todo |-> {}, chat |-> {}]
StagePlaces == {"empty", "opening", "resolve", "plan", "governor", "sending", "log",
                "handover", "promote"}

ShillInit ==
    /\ show = "draft"
    /\ cast = [a \in Actors |-> NotCast]
    /\ unfit = {} /\ openings = 0 /\ visits = [c \in Chats |-> 0]
    /\ cues = {} /\ subs = {}
    /\ stage = [s \in Stages |-> Bare]
    /\ flops = {} /\ shunned = {} /\ dialogs = 0
    /\ said = [d \in 1..MaxDialogs |-> [l \in Lines |-> 0]] /\ voices = {}
    /\ recast = {} /\ edits_ = 0 /\ mishaps_ = 0
-----------------------------------------------------------------------------
(* The API *)

Primary == {a \in Actors : cast[a].as = "primary"}
Pinned(p) == {a \in Primary : cast[a].part = p}
Edited == edits_ < MaxEdits_ /\ edits_' = edits_ + 1
\* A lineup was drawn before.
Drawn == dialogs > 0 \/ \E s \in Stages : stage[s].at = "resolve"

\* The status is committed and start_campaign enqueued; without the latter nothing plays.
StartShow ==
    /\ show # "running" /\ Edited
    /\ Cardinality(Primary) >= Cardinality(Parts)
    /\ show' = "running"
    /\ openings' = openings + 1
    /\ UNCHANGED <<cast, unfit, visits, cues, subs, stage, history, recast, mishaps_>>

StopShow ==
    /\ show = "running" /\ show' = "paused"
    /\ UNCHANGED <<cast, unfit, waiting, stage, history, admin>>

\* attach, and PATCH of role and reserve.
Cast(a) ==
    /\ a \notin unfit \/ cast[a] # NotCast
    /\ Edited
    /\ \E as \in {"primary", "reserve"}, p \in Parts \cup {NoPart} :
          cast' = [cast EXCEPT ![a] = [as |-> as, part |-> p]]
    /\ cast' # cast
    /\ recast' = IF Drawn THEN recast \cup {a} ELSE recast
    /\ UNCHANGED <<show, unfit, waiting, stage, history, mishaps_>>

Uncast(a) ==
    /\ cast[a] # NotCast /\ Edited
    /\ cast' = [cast EXCEPT ![a] = NotCast]
    /\ recast' = IF Drawn THEN recast \cup {a} ELSE recast
    /\ UNCHANGED <<show, unfit, waiting, stage, history, mishaps_>>
-----------------------------------------------------------------------------
(* start_campaign and process_target *)

On(s, place) == stage[s].at = place
Enters(s, place, todo, chat) ==
    stage' = [stage EXCEPT ![s] = [at |-> place, todo |-> todo, chat |-> chat]]
Exits(s) == stage' = [stage EXCEPT ![s] = Bare]

\* start_campaign: not ready any more is an error, and nothing is scheduled.
Opens(s) ==
    /\ On(s, "empty") /\ openings > 0
    /\ openings' = openings - 1
    /\ \/ show # "running" /\ UNCHANGED <<show, stage>>
       \/ /\ show = "running" /\ Cardinality(Primary) < Cardinality(Parts)
          /\ show' = "error" /\ UNCHANGED stage
       \/ /\ show = "running" /\ Cardinality(Primary) >= Cardinality(Parts)
          /\ Enters(s, "opening", {}, Chats) /\ UNCHANGED show
    /\ UNCHANGED <<cast, unfit, visits, cues, subs, history, admin>>

SendsTo(s, c) ==
    /\ On(s, "opening") /\ c \in stage[s].chat
    /\ visits' = [visits EXCEPT ![c] = @ + 1]
    /\ IF stage[s].chat = {c} THEN Exits(s) ELSE Enters(s, "opening", {}, stage[s].chat \ {c})
    /\ UNCHANGED <<show, cast, unfit, openings, cues, subs, history, admin>>

\* Mutant: an account that is left over may get several parts.
LineupsShared ==
    {f \in [Parts -> Primary] : \A p \in Parts : Pinned(p) # {} => f[p] \in Pinned(p)}

\* _assign_lineup: a pinned part goes to one of its accounts, the others to accounts that
\* are left, as far as they go.
Lineups ==
    {f \in UNION {[P -> Primary] : P \in SUBSET Parts} :
        /\ \A p, q \in DOMAIN f : p # q => f[p] # f[q]
        /\ \A p \in Parts : Pinned(p) # {} => p \in DOMAIN f /\ f[p] \in Pinned(p)
        /\ DOMAIN f = Parts \/ {f[p] : p \in DOMAIN f} = Primary}

\* Lines get the number of their dialog when they are scheduled.
Plan(f, c) == {[dialog |-> 0, chat |-> c, line |-> l, actor |-> f[PartOf[l]]] :
                    l \in {k \in Lines : PartOf[k] \in DOMAIN f}}

\* process_target up to its first await; a campaign that does not run, a chat on the
\* blacklist or an empty plan ends it.
Visits(s, c) ==
    /\ On(s, "empty") /\ visits[c] > 0
    /\ visits' = [visits EXCEPT ![c] = @ - 1]
    /\ IF show # "running" \/ c \in shunned \/ Primary = {}
       THEN UNCHANGED stage
       ELSE \E f \in Lineups : Enters(s, "resolve", Plan(f, c), {c})
    /\ UNCHANGED <<show, cast, unfit, openings, cues, subs, history, admin>>

Resolves(s) ==
    /\ On(s, "resolve")
    /\ dialogs < MaxDialogs /\ dialogs' = dialogs + 1
    /\ Enters(s, "plan", {[q EXCEPT !.dialog = dialogs + 1] : q \in stage[s].todo}, stage[s].chat)
    /\ UNCHANGED <<show, cast, unfit, waiting, flops, shunned, speech, admin>>

\* No client: the task is tried again, once.
ResolveRaises(s) ==
    /\ On(s, "resolve")
    /\ \/ visits' = [c \in Chats |-> visits[c] + Cardinality(stage[s].chat \cap {c})]
       \/ UNCHANGED visits
    /\ Exits(s)
    /\ UNCHANGED <<show, cast, unfit, openings, cues, subs, history, admin>>

\* The chat cannot be resolved, or nobody may write there: it goes on the blacklist,
\* unless there is nothing to name it by or it was found automatically.
ResolveRefused(s) ==
    /\ On(s, "resolve")
    /\ \/ shunned' = shunned \cup stage[s].chat
       \/ UNCHANGED shunned
    /\ Exits(s)
    /\ UNCHANGED <<show, cast, unfit, waiting, flops, dialogs, speech, admin>>

\* The lines are scheduled one by one, with growing delays.
Schedules(s) ==
    /\ On(s, "plan")
    /\ \E q \in stage[s].todo :
          /\ \A r \in stage[s].todo : q.line <= r.line
          /\ cues' = cues \cup {q}
          /\ IF stage[s].todo = {q} THEN Exits(s)
             ELSE Enters(s, "plan", stage[s].todo \ {q}, stage[s].chat)
    /\ UNCHANGED <<show, cast, unfit, openings, visits, subs, history, admin>>
-----------------------------------------------------------------------------
(* execute_step *)

\* Neither the blacklist nor the cast is looked at again: only the campaign's status and
\* the account's.  Delays are not kept either, the governor and slow mode move a line.
Enacts(s, q) ==
    /\ On(s, "empty") /\ q \in cues
    /\ cues' = cues \ {q}
    /\ IF show = "running" /\ q.actor \notin unfit THEN Enters(s, "governor", {q}, {})
       ELSE UNCHANGED stage
    /\ UNCHANGED <<show, cast, unfit, openings, visits, subs, history, admin>>

\* Mutant: a line put off because of slow mode is sent all the same.
SaysAnyway(s) ==
    /\ On(s, "governor") \/ On(s, "sending")
    /\ \E q \in stage[s].todo :
          /\ said' = IF On(s, "sending") THEN [said EXCEPT ![q.dialog][q.line] = @ + 1] ELSE said
          /\ cues' = cues \cup {q}
    /\ Exits(s)
    /\ UNCHANGED <<show, cast, unfit, openings, visits, subs, flops, shunned, dialogs, voices,
                   admin>>

Defers(s) ==
    /\ On(s, "governor") \/ On(s, "sending")
    /\ cues' = cues \cup stage[s].todo
    /\ Exits(s)
    /\ UNCHANGED <<show, cast, unfit, openings, visits, subs, history, admin>>

Allowed(s) ==
    /\ On(s, "governor")
    /\ Enters(s, "sending", stage[s].todo, {})
    /\ UNCHANGED <<show, cast, unfit, waiting, history, admin>>

Says(s) ==
    /\ On(s, "sending")
    /\ \E q \in stage[s].todo :
          /\ said' = [said EXCEPT ![q.dialog][q.line] = @ + 1]
          /\ voices' = voices \cup {[dialog |-> q.dialog, actor |-> q.actor, part |-> PartOf[q.line]]}
    /\ Enters(s, "log", stage[s].todo, {})
    /\ UNCHANGED <<show, cast, unfit, waiting, flops, shunned, dialogs, admin>>

Logs(s) ==
    /\ On(s, "log") /\ Exits(s)
    /\ UNCHANGED <<show, cast, unfit, waiting, history, admin>>

\* Any other error - no client, no new wording, Telegram - is logged, at most, and raised: the
\* step is run again, or was run three times; a slow mode that is too long is the end of it.
Fluffs(s) ==
    /\ On(s, "sending")
    /\ \/ flops' = flops \cup {<<q.chat, q.actor>> : q \in stage[s].todo}
       \/ UNCHANGED flops
    /\ cues' = cues \cup stage[s].todo \/ UNCHANGED cues
    /\ Exits(s)
    /\ UNCHANGED <<show, cast, unfit, openings, visits, subs, shunned, dialogs, speech, admin>>

\* A ban, or a flood wait of five minutes or more; the account itself may be out of use.
Barred(s) ==
    /\ On(s, "sending")
    /\ flops' = flops \cup {<<q.chat, q.actor>> : q \in stage[s].todo}
    /\ \/ UNCHANGED unfit
       \/ unfit' = unfit \cup {q.actor : q \in stage[s].todo}
    /\ Enters(s, "handover", stage[s].todo, {})
    /\ UNCHANGED <<show, cast, waiting, shunned, dialogs, speech, admin>>

HandsOver(s) ==
    /\ On(s, "handover")
    /\ subs' = subs \cup stage[s].todo
    /\ Exits(s)
    /\ UNCHANGED <<show, cast, unfit, openings, visits, cues, history, admin>>
-----------------------------------------------------------------------------
(* failover *)

Reserves(q) ==
    {r \in Actors : /\ cast[r].as = "reserve" /\ cast[r].part \in {NoPart, cast[q.actor].part}
                    /\ r # q.actor /\ <<q.chat, r>> \notin flops /\ r \notin unfit}

\* The reserve gets the part of the account that drops out - none, if a failover before
\* this one has taken that account out already.  Where there is none, or reserve_enabled is off
\* (it may be edited at any time), the target is blacklisted.
Promotes(s, q) ==
    /\ On(s, "empty") /\ q \in subs
    /\ subs' = subs \ {q}
    /\ \/ show # "running" /\ UNCHANGED <<stage, cast, shunned>>
       \/ /\ show = "running"
          /\ shunned' = shunned \cup {q.chat}
          /\ UNCHANGED <<stage, cast>>
       \/ /\ show = "running"
          /\ \E r \in Reserves(q) :
                /\ cast' = [cast EXCEPT ![r] = [as |-> "primary", part |-> cast[q.actor].part],
                                        ![q.actor] = NotCast]
                /\ Enters(s, "promote", {[q EXCEPT !.actor = r]}, {})
          /\ UNCHANGED shunned
    /\ UNCHANGED <<show, unfit, openings, visits, cues, flops, dialogs, speech, admin>>

StepsIn(s) ==
    /\ On(s, "promote")
    /\ cues' = cues \cup stage[s].todo
    /\ Exits(s)
    /\ UNCHANGED <<show, cast, unfit, openings, visits, subs, history, admin>>
-----------------------------------------------------------------------------
\* Tasks that did not return are run again, from their beginning; failover (max_tries=1) is
\* not.
Falls(S) ==
    LET doing(places) == {s \in S : stage[s].at \in places} IN
    /\ mishaps_ < MaxMishaps_ /\ mishaps_' = mishaps_ + 1
    /\ openings' = openings + Cardinality(doing({"opening"}))
    /\ visits' = [c \in Chats |-> visits[c] +
                    Cardinality({s \in doing({"resolve", "plan"}) : c \in stage[s].chat})]
    /\ cues' = cues \cup UNION {stage[s].todo : s \in doing({"governor", "sending", "log", "handover"})}
    /\ stage' = [s \in Stages |-> IF s \in S THEN Bare ELSE stage[s]]
    /\ UNCHANGED <<show, cast, unfit, subs, history, recast, edits_>>

\* Redis or the database refuses half-way, or the answer to a line that was sent is lost: the
\* dispatcher turns the exception into a Retry.
Stumbles(s) == stage[s].at # "empty" /\ Falls({s})

\* The worker dies.
TheatreBurns == Falls(Stages)

Plays(s) ==
    \/ Opens(s) \/ Resolves(s) \/ ResolveRefused(s) \/ ResolveRaises(s) \/ Schedules(s)
    \/ Defers(s) \/ Allowed(s) \/ Says(s) \/ Logs(s) \/ Fluffs(s) \/ Barred(s)
    \/ HandsOver(s) \/ StepsIn(s) \/ Stumbles(s)
    \/ \E c \in Chats : SendsTo(s, c) \/ Visits(s, c)
    \/ \E q \in cues : Enacts(s, q)
    \/ \E q \in subs : Promotes(s, q)

ShillNext ==
    \/ StartShow \/ StopShow \/ TheatreBurns
    \/ \E a \in Actors : Cast(a) \/ Uncast(a)
    \/ \E s \in Stages : Plays(s)

ShillSpec == ShillInit /\ [][ShillNext]_shillVars
-----------------------------------------------------------------------------
(* Properties *)

\* Tables, queues and slots are well formed.
ShillTypeOK ==
    /\ show \in {"draft", "running", "paused", "error"}
    /\ cast \in [Actors -> [as: {"none", "primary", "reserve"}, part: Parts \cup {NoPart}]]
    /\ unfit \subseteq Actors /\ recast \subseteq Actors
    /\ openings \in Nat /\ visits \in [Chats -> Nat]
    /\ cues \subseteq Cues /\ subs \subseteq Cues
    /\ stage \in [Stages -> [at: StagePlaces, todo: SUBSET Cues, chat: SUBSET Chats]]
    /\ flops \subseteq Chats \X Actors /\ shunned \subseteq Chats
    /\ dialogs \in 0..MaxDialogs
    /\ said \in [1..MaxDialogs -> [Lines -> Nat]]
    /\ voices \subseteq [dialog: 1..MaxDialogs, actor: Actors, part: Parts]
    /\ edits_ \in Nat /\ mishaps_ \in Nat

\* Lines still to be said, wherever they wait.
ToSay == cues \cup subs
           \cup UNION {stage[s].todo : s \in {t \in Stages : stage[t].at # "log"}}

\* A planned line is said at most once, and by one account: put off by the governor or by
\* slow mode, handed to a reserve, stopped and started in between, raised and run again, there
\* is never a second copy of it - unless a task stopped half-way
\* (modules/shilling/worker/executor.py:154-167, 205-265).
SaidOnce ==
    mishaps_ = 0 => \A d \in 1..dialogs, l \in Lines :
        said[d][l] + Cardinality({q \in ToSay : q.dialog = d /\ q.line = l}) <= 1

\* In one dialog nobody answers himself from two parts, failovers included, as long as the
\* cast is left alone meanwhile (modules/shilling/worker/orchestrator.py:410-425).
OnePartPerActor ==
    LET heard_ == voices \cup {[dialog |-> q.dialog, actor |-> q.actor, part |-> PartOf[q.line]] :
                                  q \in {r \in ToSay : r.dialog > 0}}
    IN  \A v, w \in heard_ :
            v.dialog = w.dialog /\ v.actor = w.actor /\ v.actor \notin recast => v.part = w.part

\* A dialog is played as it was planned: no line twice, no actor in two parts, whatever is put
\* off, handed on or run again (modules/shilling/worker/executor.py:154-265).
DialogKept == SaidOnce /\ OnePartPerActor
=============================================================================

------------------------------ MODULE Priming ------------------------------
(***************************************************************************)
(* modules/priming: one campaign.  The API starts, pauses, resumes and     *)
(* stops it; each start enqueues an orchestrator_tick, which pairs idle    *)
(* accounts with pending targets, enqueues an execute_prime per pair and   *)
(* schedules the next tick; the executor runs the trigger and stores the   *)
(* outcome.  API and worker are processes of their own: a step is what     *)
(* happens in one transaction or between two awaits.  A task of this       *)
(* module that was running when the worker died is not run again           *)
(* (max_tries=1), a queued one stays in Redis.                             *)
(***************************************************************************)
EXTENDS Integers, FiniteSets

CONSTANTS
    Primers,    \* accounts that may be attached
    Goals,      \* targets, numbered in the order of their import
    Loops,      \* orchestrator ticks that may run at once
    DailyLimit, \* campaign.daily_limit_per_account
    RampLimit,  \* effective_daily_limit of the warm-up profile
    MaxFloods,  \* campaign.max_flood_waits_per_account
    MaxLinks,   \* bound on attachments
    MaxTicks,   \* bound on ticks in the queue
    MaxFaults,  \* bound on deaths, crashes and failed clients
    NoOne

PrimingAssumption == /\ IsFiniteSet(Goals) /\ Goals \subseteq Nat
                     /\ NoOne \notin Primers
                     /\ DailyLimit \in Nat /\ RampLimit \in 1..DailyLimit
                     /\ {MaxFloods, MaxLinks, MaxTicks, MaxFaults} \subseteq Nat

VARIABLES
    campaign, \* its status
    link,     \* campaign_accounts; id 0: not attached
    goal,     \* status of the targets
    ticks,    \* orchestrator_tick tasks in the queue
    loop,     \* ticks that are running
    primes,   \* execute_prime tasks in the queue, and
    running,  \* those that are running
    api,      \* the request being served
    hung,     \* the account whose ramp limit the worker's only thread spins on
    runs,     \* how often the executor started on a target
    left,     \* targets left `assigned`: flood wait, or the account detached meanwhile
    jammed,   \* attachments left `working` by a result that could not be stored
    linked_,  \* attachments made so far
    faults

primeVars == <<campaign, link, goal, ticks, loop, primes, running, api, hung, runs, left,
               jammed, linked_, faults>>
tables == <<campaign, link, goal>>
queue == <<ticks, primes>>
worker == <<loop, running, hung>>
ghosts == <<runs, left, jammed, linked_, faults>>

Detached == [id |-> 0, state |-> "none", today |-> 0, floods |-> 0]
LinkStates == {"none", "idle", "working", "cooldown", "quarantined"}
\* `failed` stands for `skipped` too: they are left for nothing else than `blacklisted`.
GoalStates == {"absent", "pending", "assigned", "primed", "failed", "blacklisted"}
CampaignStates == {"draft", "running", "paused", "stopped"}
AtRest == [at |-> "idle", pair |-> {}]
LoopPlaces == {"idle", "autopause", "pair", "enqueue", "next"}
Pairs == [acct: Primers, id: 1..MaxLinks, goal: Goals]

PrimeInit ==
    /\ campaign = "draft"
    /\ link = [a \in Primers |-> Detached]
    /\ goal = [t \in Goals |-> "absent"]
    /\ ticks = 0 /\ primes = {} /\ running = {}
    /\ loop = [l \in Loops |-> AtRest]
    /\ api = "none"
    /\ hung = NoOne
    /\ runs = [t \in Goals |-> 0]
    /\ left = {} /\ jammed = {}
    /\ linked_ = 0 /\ faults = 0
-----------------------------------------------------------------------------
(* The API *)

Startable == /\ \E a \in Primers : link[a].id # 0
             /\ \E t \in Goals : goal[t] = "pending"

\* The status is read; the write comes later, and is unconditional.
Call(request) ==
    /\ api = "none" /\ api' = request
    /\ \/ request = "start" /\ campaign \in {"draft", "paused", "stopped"} /\ Startable
       \/ request = "pause" /\ campaign = "running"
       \/ request = "resume" /\ campaign = "paused"
       \/ request = "stop" /\ campaign \in {"running", "paused"}
    /\ UNCHANGED <<tables, queue, worker, ghosts>>

CommitCall ==
    /\ \/ api \in {"start", "resume"} /\ campaign' = "running" /\ api' = "enqueue"
       \/ api = "pause" /\ campaign' = "paused" /\ api' = "none"
       \/ api = "stop" /\ campaign' = "stopped" /\ api' = "none"
    /\ UNCHANGED <<link, goal, queue, worker, ghosts>>

FirstTick ==
    /\ api = "enqueue" /\ ticks < MaxTicks
    /\ ticks' = ticks + 1
    /\ api' = "none"
    /\ UNCHANGED <<tables, primes, worker, ghosts>>

\* The API dies, or Redis refuses, after the commit.
CallLost ==
    /\ api = "enqueue" /\ api' = "none"
    /\ faults < MaxFaults /\ faults' = faults + 1
    /\ UNCHANGED <<tables, queue, worker, runs, left, jammed, linked_>>

Attach(a) ==
    /\ link[a].id = 0 /\ linked_ < MaxLinks
    /\ linked_' = linked_ + 1
    /\ link' = [link EXCEPT ![a] = [Detached EXCEPT !.id = linked_ + 1, !.state = "idle"]]
    /\ UNCHANGED <<campaign, goal, queue, worker, api, runs, left, jammed, faults>>

Detach(a) ==
    /\ link[a].id # 0
    /\ link' = [link EXCEPT ![a] = Detached]
    /\ UNCHANGED <<campaign, goal, queue, worker, api, ghosts>>

Import(t) ==
    /\ goal[t] = "absent" /\ \A u \in Goals : u < t => goal[u] # "absent"
    /\ goal' = [goal EXCEPT ![t] = "pending"]
    /\ UNCHANGED <<campaign, link, queue, worker, api, ghosts>>

\* bulk_blacklist_targets sets the status whatever it was.
Blacklist(t) ==
    /\ goal[t] \notin {"absent", "blacklisted"}
    /\ goal' = [goal EXCEPT ![t] = "blacklisted"]
    /\ UNCHANGED <<campaign, link, queue, worker, api, ghosts>>
-----------------------------------------------------------------------------
(* orchestrator_tick *)

Moves(l, place) == loop' = [loop EXCEPT ![l] = [at |-> place, pair |-> {}]]

\* The tick looks at the campaign once; the rates of its log may ask for a pause.
TickStarts(l) ==
    /\ hung = NoOne /\ ticks > 0 /\ loop[l].at = "idle"
    /\ ticks' = ticks - 1
    /\ IF campaign = "running"
       THEN Moves(l, "autopause") \/ Moves(l, "pair")
       ELSE UNCHANGED loop
    /\ UNCHANGED <<tables, primes, running, api, hung, ghosts>>

AutoPause(l) ==
    /\ hung = NoOne /\ loop[l].at = "autopause"
    /\ campaign' = "paused"
    /\ Moves(l, "idle")
    /\ UNCHANGED <<link, goal, queue, running, api, hung, ghosts>>

\* Mutant: the account is taken without looking at its state.
AvailableAnyway == {a \in Primers : link[a].id # 0 /\ link[a].today < DailyLimit}

\* What acquire_next can find; it marks the row `working` under FOR UPDATE SKIP LOCKED.
Available == {a \in Primers : link[a].state = "idle" /\ link[a].today < DailyLimit}
PendingGoals == {t \in Goals : goal[t] = "pending"}
FirstGoal == CHOOSE t \in PendingGoals : \A u \in PendingGoals : t <= u

\* No account: the loop is over.
NoAccount(l) ==
    /\ hung = NoOne /\ loop[l].at = "pair"
    /\ Available = {}
    /\ Moves(l, "next")
    /\ UNCHANGED <<tables, queue, running, api, hung, ghosts>>

\* The account has reached its ramp limit and not the campaign's: it goes back to idle
\* and is the first one acquire_next finds again.  There is no await in between, the
\* worker does nothing else any more.
Spins(l) ==
    /\ hung = NoOne /\ loop[l].at = "pair"
    /\ \E a \in Available : link[a].today >= RampLimit /\ hung' = a
    /\ UNCHANGED <<tables, queue, loop, running, api, ghosts>>

\* ... until the API detaches the account.
SpinEnds ==
    /\ hung # NoOne /\ hung \notin Available
    /\ hung' = NoOne
    /\ UNCHANGED <<tables, queue, loop, running, api, ghosts>>

\* An account without a target is given back in the same transaction.
NoGoal(l) ==
    /\ hung = NoOne /\ loop[l].at = "pair"
    /\ \E a \in Available : link[a].today < RampLimit
    /\ PendingGoals = {}
    /\ Moves(l, "next")
    /\ UNCHANGED <<tables, queue, running, api, hung, ghosts>>

Pair(l) ==
    /\ hung = NoOne /\ loop[l].at = "pair"
    /\ PendingGoals # {}
    /\ \E a \in Available :
          /\ link[a].today < RampLimit
          /\ link' = [link EXCEPT ![a].state = "working"]
          /\ loop' = [loop EXCEPT ![l] = [at |-> "enqueue",
                        pair |-> {[acct |-> a, id |-> link[a].id, goal |-> FirstGoal]}]]
    /\ goal' = [goal EXCEPT ![FirstGoal] = "assigned"]
    /\ UNCHANGED <<campaign, queue, running, api, hung, ghosts>>

\* The pair is committed; then execute_prime, and perhaps a humanizer beat, is enqueued.
EnqueuePrime(l) ==
    /\ hung = NoOne /\ loop[l].at = "enqueue"
    /\ primes' = primes \cup loop[l].pair
    /\ Moves(l, "pair")
    /\ UNCHANGED <<tables, ticks, running, api, hung, ghosts>>

\* Mutant: a tick that scheduled nothing has no successor.
NextTickIfBusy(l) ==
    /\ hung = NoOne /\ loop[l].at = "next" /\ ticks < MaxTicks
    /\ ticks' = IF primes = {} THEN ticks ELSE ticks + 1
    /\ Moves(l, "idle")
    /\ UNCHANGED <<tables, primes, running, api, hung, ghosts>>

NextTick(l) ==
    /\ hung = NoOne /\ loop[l].at = "next" /\ ticks < MaxTicks
    /\ ticks' = ticks + 1
    /\ Moves(l, "idle")
    /\ UNCHANGED <<tables, primes, running, api, hung, ghosts>>
-----------------------------------------------------------------------------
(* execute_prime *)

\* The rows are read; if the account was detached the task is over, and the target stays.
\* Whether the campaign is still running is not looked at.
PrimeStarts(p) ==
    /\ hung = NoOne /\ p \in primes
    /\ primes' = primes \ {p}
    /\ IF link[p.acct].id = p.id
       THEN /\ running' = running \cup {p}
            /\ runs' = [runs EXCEPT ![p.goal] = @ + 1]
            /\ UNCHANGED left
       ELSE left' = left \cup {p.goal} /\ UNCHANGED <<running, runs>>
    /\ UNCHANGED <<tables, ticks, loop, api, hung, jammed, linked_, faults>>

\* release_after_prime and quarantine, if the attachment is still there.
Released(p, next) ==
    link' = IF link[p.acct].id = p.id THEN [link EXCEPT ![p.acct] = next] ELSE link

\* Mutant: a flood wait puts the target back into the queue.
FloodedAgain(p) ==
    LET old == link[p.acct] IN
    /\ hung = NoOne /\ p \in running
    /\ running' = running \ {p}
    /\ Released(p, [old EXCEPT !.floods = @ + 1,
                      !.state = IF old.floods + 1 >= MaxFloods THEN "quarantined" ELSE "cooldown"])
    /\ goal' = IF goal[p.goal] = "assigned" THEN [goal EXCEPT ![p.goal] = "pending"] ELSE goal
    /\ UNCHANGED <<campaign, queue, loop, api, hung, runs, left, jammed, linked_, faults>>

\* FLOOD_WAIT: the account cools down, or is put into quarantine; nothing brings it back.
Flooded(p) ==
    LET old == link[p.acct] IN
    /\ hung = NoOne /\ p \in running
    /\ running' = running \ {p}
    /\ Released(p, [old EXCEPT !.floods = @ + 1,
                      !.state = IF old.floods + 1 >= MaxFloods THEN "quarantined" ELSE "cooldown"])
    /\ left' = left \cup {p.goal}
    /\ UNCHANGED <<campaign, goal, queue, loop, api, hung, runs, jammed, linked_, faults>>

\* Mutant: an outcome other than success leaves the account as it is.
StoreKeeping(p, result) ==
    LET old == link[p.acct] IN
    /\ hung = NoOne /\ p \in running
    /\ running' = running \ {p}
    /\ IF goal[p.goal] = "assigned"
       THEN /\ \/ /\ result = "primed"
                  /\ Released(p, [old EXCEPT !.today = @ + 1, !.floods = 0, !.state = "idle"])
               \/ result # "primed" /\ UNCHANGED link
            /\ goal' = [goal EXCEPT ![p.goal] = result]
            /\ UNCHANGED jammed
       ELSE jammed' = jammed \cup {p.id} /\ UNCHANGED <<link, goal>>
    /\ UNCHANGED <<campaign, queue, loop, api, hung, runs, left, linked_, faults>>

\* Any other outcome is one transaction for the account and the target.  mark_result
\* refuses a target that was blacklisted meanwhile, and all of it is rolled back.
\* ALREADY_APPLIED primes the target without counting for the account.
Store(p, result) ==
    LET old == link[p.acct] IN
    /\ hung = NoOne /\ p \in running
    /\ running' = running \ {p}
    /\ IF goal[p.goal] = "assigned"
       THEN /\ \/ /\ result = "primed"
                  /\ Released(p, [old EXCEPT !.today = @ + 1, !.floods = 0, !.state = "idle"])
               \/ Released(p, [old EXCEPT !.state = "idle"])
            /\ goal' = [goal EXCEPT ![p.goal] = result]
            /\ UNCHANGED jammed
       ELSE jammed' = jammed \cup {p.id} /\ UNCHANGED <<link, goal>>
    /\ UNCHANGED <<campaign, queue, loop, api, hung, runs, left, linked_, faults>>

\* The pool has no client for the account, or the trigger raises: nothing is stored.
PrimeRaises(p) ==
    /\ hung = NoOne /\ p \in running
    /\ running' = running \ {p}
    /\ faults < MaxFaults /\ faults' = faults + 1
    /\ UNCHANGED <<tables, queue, loop, api, hung, runs, left, jammed, linked_>>

\* The worker dies or is restarted: running tasks are over, a tick that was running has
\* no successor.
PrimerDies ==
    /\ loop' = [l \in Loops |-> AtRest]
    /\ running' = {}
    /\ hung' = NoOne
    /\ faults < MaxFaults /\ faults' = faults + 1
    /\ UNCHANGED <<tables, queue, api, runs, left, jammed, linked_>>
-----------------------------------------------------------------------------
Tick_(l) == \/ TickStarts(l) \/ AutoPause(l) \/ NoAccount(l) \/ Spins(l) \/ NoGoal(l)
            \/ Pair(l) \/ EnqueuePrime(l) \/ NextTick(l)

Execute(p) == \/ PrimeStarts(p) \/ Flooded(p) \/ PrimeRaises(p)
              \/ \E result \in {"primed", "failed"} : Store(p, result)

PrimeNext ==
    \/ \E request \in {"start", "pause", "resume", "stop"} : Call(request)
    \/ CommitCall \/ FirstTick \/ CallLost
    \/ \E a \in Primers : Attach(a) \/ Detach(a)
    \/ \E t \in Goals : Import(t) \/ Blacklist(t)
    \/ \E l \in Loops : Tick_(l)
    \/ \E p \in primes \cup running : Execute(p)
    \/ SpinEnds \/ PrimerDies

PrimeSpec == PrimeInit /\ [][PrimeNext]_primeVars
-----------------------------------------------------------------------------
(* Properties *)

\* Tables, queues and tasks are well formed.
PrimeTypeOK ==
    /\ campaign \in CampaignStates
    /\ link \in [Primers -> [id: 0..MaxLinks, state: LinkStates, today: 0..DailyLimit,
                             floods: Nat]]
    /\ goal \in [Goals -> GoalStates]
    /\ ticks \in 0..MaxTicks
    /\ loop \in [Loops -> [at: LoopPlaces, pair: SUBSET Pairs]]
    /\ primes \subseteq Pairs /\ running \subseteq Pairs
    /\ api \in {"none", "start", "pause", "resume", "stop", "enqueue"}
    /\ hung \in Primers \cup {NoOne}
    /\ runs \in [Goals -> Nat]
    /\ left \subseteq Goals /\ jammed \subseteq 1..MaxLinks
    /\ linked_ \in 0..MaxLinks /\ faults \in Nat

\* Pairs that are enqueued, running or about to be enqueued.
Given == primes \cup running \cup UNION {loop[l].pair : l \in Loops}

\* Whatever is paused, resumed, detached or killed in between, and however many ticks
\* run at once, a person is contacted once: a target never leaves `assigned` for `pending`
\* (modules/priming/repositories/campaign_target.py:128-157, worker/orchestrator.py:200).
PrimedOnce == \A t \in Goals : runs[t] <= 1

\* An attachment has at most one task, and only while it is `working`: two ticks do not
\* give one account two targets, and the daily limit is not exceeded by tasks still
\* running (modules/priming/repositories/campaign_account.py:64-101).
OnePrimeAtATime ==
    \A a \in Primers :
        LET mine == {p \in Given : p.acct = a /\ p.id = link[a].id} IN
        /\ Cardinality(mine) <= 1
        /\ mine # {} => link[a].state = "working" /\ link[a].today < RampLimit

\* Without a fault a running campaign always has a tick: queued, running, or about to be
\* enqueued by the request that started it - through every race of pause, resume, stop and
\* the automatic pause (modules/priming/worker/orchestrator.py:235-243).
RunningHasTick ==
    faults = 0 /\ campaign = "running" =>
        ticks > 0 \/ api = "enqueue" \/ \E l \in Loops : loop[l].at # "idle"

\* What is taken out of circulation is there again or accounted for: a working account has
\* a task or a result that could not be stored, an assigned target has a task or is one of
\* those nothing picks up again (modules/priming/worker/executor.py:91-109, 238-290).
TakenHasTask ==
    faults = 0 =>
        /\ \A a \in Primers : link[a].state = "working" =>
              link[a].id \in jammed \/ \E p \in Given : p.acct = a /\ p.id = link[a].id
        /\ \A t \in Goals : goal[t] = "assigned" =>
              t \in left \/ \E p \in Given : p.goal = t

\* A person is contacted once and by one task: neither two ticks nor a tick and an executor
\* make two attempts of one (modules/priming/worker/orchestrator.py:150-235).
ContactedOnce == OnePrimeAtATime /\ PrimedOnce

\* Nothing is left behind without a fault: a running campaign has a tick to come, and what a
\* tick took has a task that lets it go (orchestrator.py:235-243, executor.py:238-290).
NothingStranded == RunningHasTick /\ TakenHasTask
=============================================================================

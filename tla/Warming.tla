------------------------------ MODULE Warming ------------------------------
(***************************************************************************)
(* Warming of one account (worker/tasks/warming.py, worker/warming): after *)
(* its login a batch of ticks is put off for some hours, a cron job        *)
(* enqueues a tick whenever the account's last activity is long enough     *)
(* ago, a tick does one action of the account's scenario and writes a row, *)
(* and the rows or the days make a warming account one of the pool.        *)
(*                                                                         *)
(* Accounts share nothing here, so one is enough; its own tasks run side   *)
(* by side.  Weights matter by their sign alone: persona, health and risk  *)
(* multiply them by positive numbers.                                      *)
(***************************************************************************)
EXTENDS Integers, Sequences, FiniteSets

CONSTANTS
    Workers,       \* tasks of the worker that may run at once
    Day,           \* units of time in a day
    WindowStart, WindowEnd,   \* active hours, through midnight if the end is smaller
    MaxNow,        \* bound on time
    IdleHours,     \* warming_initial_idle_hours
    Batch,         \* size of the first batch
    Interval,      \* due_interval, lengthened by nobody
    ReadyActions, ReadyDays, AgedReadyDays,
    Keep,          \* DEFAULT_KEEP
    MaxTicks,      \* bound on the ticks waiting
    MaxWarmingDamage  \* bound on deaths, incidents and edits

WarmingAssumption ==
    /\ {WindowStart, WindowEnd} \subseteq 0..(Day - 1)
    /\ {MaxNow, IdleHours, MaxWarmingDamage} \subseteq Nat
    /\ {Day, Batch, Interval, ReadyActions, ReadyDays, AgedReadyDays, Keep, MaxTicks}
           \subseteq Nat \ {0}
    /\ IsFiniteSet(Workers)

VARIABLES
    now,
    acct,       \* status, whether it is aged or has a scenario of its own, open incidents,
                \* score of zero
    ticks,      \* warming.tick in the queue: ready, and the first batch with its time
    busy,       \* what each running task does
    rows,       \* warming_activities, the newest first
    latest,     \* time of the newest
    good,       \* actions done by ticks that found the account warming, up to ReadyActions
    cron,       \* maintenance_scheduler ran at this time
    early,      \* warming.completed came although the account was not ready
    crowded,    \* the latest tick was enqueued while another waited or ran
    hurried,    \* an action of the pool came too early after the row before it
    unasked,    \* joined or changed its profile although nobody wanted it to
    shaken,     \* the score changed, or a tick was given up, at this time
    harm

warmVars == <<now, acct, ticks, busy, rows, latest, good, cron, early, crowded, hurried,
              unasked, shaken, harm>>

Actions == {"read", "subscribe_channel", "join_group", "update_profile"}
Joins == {"subscribe_channel", "join_group"}
Kinds == {"initial", "maintenance"}
Outcomes == {"done", "failed"}   \* or skipped, which is as good as failed
NoScenario == [x \in {} |-> 0]
Never == -1
Resting == [at |-> "free", kind |-> "initial", result |-> "failed"]

\* put_warming_scenario and WarmingScenario.from_meta: weights below zero are refused, and
\* nothing set is no scenario.  A tick reads whichever of them the account has by then.
Scenarios == {NoScenario,
              [x \in {"read"} |-> 1],
              [x \in {"read", "join_group"} |-> 1],
              [x \in {"read"} |-> 0],
              [x \in {"update_profile"} |-> 2]}
-----------------------------------------------------------------------------
(* The planner *)

\* A list of weights is a white list; one of zeros alone is as good as none.
Listed(sc) == IF \E x \in DOMAIN sc : sc[x] > 0 THEN {x \in DOMAIN sc : sc[x] > 0} ELSE Actions

\* The action's weight in the scenario is given and positive.
Explicit(sc, x) == x \in DOMAIN sc /\ sc[x] > 0

\* Mutant: the joins are left in when no weight is given.
ChoosableByTags(sc, auto) ==
    Listed(sc) \ (IF Explicit(sc, "update_profile") THEN {} ELSE {"update_profile"})

\* Joins and profile changes only if asked for, by a weight of either join or of the change;
\* WARMING_AUTO_SUBSCRIBE asks for joins.
Choosable(sc, auto) ==
    LET off == (IF auto \/ \E x \in Joins : Explicit(sc, x) THEN {} ELSE Joins)
               \cup (IF Explicit(sc, "update_profile") THEN {} ELSE {"update_profile"})
    IN IF Listed(sc) \subseteq off THEN Actions ELSE Listed(sc) \ off

\* A join or a change of the profile that no weight asks for, nor the setting.
Unasked(sc, auto, x) ==
    \/ x \in Joins /\ ~auto /\ \A y \in Joins : ~Explicit(sc, y)
    \/ x = "update_profile" /\ ~Explicit(sc, x)

\* A window may go through midnight; both ends count.
Awake(t) == LET h == t % Day IN
            IF WindowStart <= WindowEnd THEN WindowStart <= h /\ h <= WindowEnd
            ELSE h >= WindowStart \/ h <= WindowEnd
-----------------------------------------------------------------------------
WarmInit ==
    /\ now = 0
    /\ acct \in [status: {"warming"}, kind: {"young", "aged", "own"}, open: {0}, zero: {FALSE}]
    /\ ticks = [ready |-> 0, batch |-> 0, at |-> Never]
    /\ busy = [w \in Workers |-> Resting]
    /\ rows = <<>> /\ latest = Never /\ good = 0 /\ cron = FALSE /\ early = FALSE
    /\ crowded = FALSE
    /\ hurried = FALSE /\ unasked = FALSE /\ shaken = FALSE /\ harm = 0

Running(w) == busy[w].at # "free"
Outstanding == ticks.ready + ticks.batch > 0 \/ \E w \in Workers : Running(w)
Enqueue(n) == ticks' = [ticks EXCEPT !.ready = @ + n]
Rests(w) == busy' = [busy EXCEPT ![w] = Resting]

\* Time goes on; only waiting ticks and the cron job are late if nobody runs them.
Later ==
    /\ now < MaxNow
    /\ now' = now + 1
    /\ cron' = FALSE /\ shaken' = FALSE
    /\ UNCHANGED <<acct, ticks, busy, rows, latest, good, early, crowded, hurried, unasked, harm>>

\* initial_start: the first batch, put off by the same random pause.
InitialStart ==
    /\ ticks.at = Never
    /\ ticks' = [ticks EXCEPT !.batch = Batch, !.at = now + IdleHours]
    /\ crowded' = TRUE
    /\ UNCHANGED <<now, acct, busy, rows, latest, good, cron, early, hurried, unasked, shaken, harm>>

\* The account has had no row for an interval, or never one.
Due == latest = Never \/ now - latest >= Interval

\* Mutant: accounts of the pool alone, as it was before the bug was fixed.
SchedulePool ==
    /\ ~cron /\ cron' = TRUE
    /\ IF acct.status = "pool" /\ Due
       THEN ticks.ready < MaxTicks /\ Enqueue(1) /\ crowded' = Outstanding
       ELSE UNCHANGED <<ticks, crowded>>
    /\ UNCHANGED <<now, acct, busy, rows, latest, good, early, hurried, unasked, shaken, harm>>

\* maintenance_scheduler: accounts of the pool and those that warm, whose row is old.
MaintenanceScheduler ==
    /\ ~cron /\ cron' = TRUE
    /\ IF acct.status \in {"pool", "warming"} /\ Due
       THEN ticks.ready < MaxTicks /\ Enqueue(1) /\ crowded' = Outstanding
       ELSE UNCHANGED <<ticks, crowded>>
    /\ UNCHANGED <<now, acct, busy, rows, latest, good, early, hurried, unasked, shaken, harm>>

\* Up to the first await of warming_tick: status, a score of zero and the window end it
\* without a trace; or an action is chosen, of the kind the status says.
TakeTick(w) ==
    /\ busy[w].at = "free"
    /\ \/ ticks.ready > 0 /\ Enqueue(-1)
       \/ /\ ticks.batch > 0 /\ ticks.at <= now
          /\ ticks' = [ticks EXCEPT !.batch = @ - 1]
    /\ IF acct.status \in {"pool", "warming"} /\ ~acct.zero /\ Awake(now)
       THEN /\ busy' = [busy EXCEPT ![w] =
                   [Resting EXCEPT !.at = "client",
                        !.kind = IF acct.status = "warming" THEN @ ELSE "maintenance"]]
            /\ \E sc \in Scenarios, auto \in BOOLEAN : \E x \in Choosable(sc, auto) :
                  /\ (sc = NoScenario) = (acct.kind # "own")
                  /\ unasked' = (unasked \/ Unasked(sc, auto, x))
       ELSE UNCHANGED <<busy, unasked>>
    /\ UNCHANGED <<now, acct, rows, latest, good, cron, early, crowded, hurried, shaken, harm>>

\* No client: the exception leaves the tick to the dispatcher, which runs it again ...
NoClient(w) ==
    /\ busy[w].at = "client" /\ harm < MaxWarmingDamage /\ harm' = harm + 1
    /\ Enqueue(1) /\ crowded' = TRUE
    /\ Rests(w)
    /\ UNCHANGED <<now, acct, rows, latest, good, cron, early, hurried, unasked, shaken>>

\* ... or gives it up: that was its third try.  Tries are not counted, each may be the last.
GivesUp(w) ==
    /\ busy[w].at = "client" /\ harm < MaxWarmingDamage /\ harm' = harm + 1
    /\ Rests(w) /\ shaken' = TRUE
    /\ UNCHANGED <<now, acct, ticks, rows, latest, good, cron, early, crowded, hurried, unasked>>

\* execute_action: no slot, done, or an exception that is caught.
Act(w, result) ==
    /\ busy[w].at = "client"
    /\ busy' = [busy EXCEPT ![w].at = "row", ![w].result = result]
    /\ UNCHANGED <<now, acct, ticks, rows, latest, good, cron, early, crowded, hurried, unasked,
                   shaken, harm>>

\* around_telethon_call: the incident is written at once; an account of the pool cools down,
\* one that warms does not; a ban takes both.
ActBadly(w, banned) ==
    /\ busy[w].at = "client" /\ harm < MaxWarmingDamage /\ harm' = harm + 1
    /\ busy' = [busy EXCEPT ![w].at = "row", ![w].result = "failed"]
    /\ acct' = [acct EXCEPT !.open = 1,
                            !.status = IF banned THEN "banned"
                                       ELSE IF @ = "pool" THEN "cooldown" ELSE @]
    /\ UNCHANGED <<now, ticks, rows, latest, good, cron, early, crowded, hurried, unasked, shaken>>

\* Mutant: the row at the offset stays.
TrimLess(s) == SubSeq(s, 1, IF Len(s) <= Keep THEN Len(s) ELSE Keep + 1)

\* trim_account keeps the newest.
Trim(s) == SubSeq(s, 1, IF Len(s) < Keep THEN Len(s) ELSE Keep)

Done(s) == Cardinality({i \in DOMAIN s : s[i] = <<"initial", "done">>})
Days == IF acct.kind = "aged" /\ AgedReadyDays < ReadyDays
        THEN AgedReadyDays ELSE ReadyDays

\* Mutant: open incidents do not matter.
ReadyAnyway(s) ==
    acct.status = "warming" /\ (Done(s) >= ReadyActions \/ now >= Days * Day)

\* The criterion of _maybe_complete_warming; the warming began at 0.
Ready(s) ==
    /\ acct.open = 0 /\ acct.status = "warming"
    /\ Done(s) >= ReadyActions \/ now >= Days * Day

\* The row, the trimming, and the pool if the account is ready: the session is committed in
\* between but nothing else of the worker runs.
WriteRow(w) ==
    /\ busy[w].at = "row"
    /\ LET initial == busy[w].kind = "initial"
           g == IF initial /\ busy[w].result = "done" /\ good < ReadyActions
                THEN good + 1 ELSE good
           s == Trim(<<<<busy[w].kind, busy[w].result>>>> \o rows)
       IN /\ rows' = s /\ latest' = now /\ good' = g
          /\ hurried' = (hurried \/ (~initial /\ ~crowded /\ ~Due))
          /\ IF initial /\ Ready(s)
             THEN /\ acct' = [acct EXCEPT !.status = "pool"]
                  /\ early' = (early \/ acct.open > 0 \/ (g < ReadyActions /\ now < Days * Day))
             ELSE UNCHANGED <<acct, early>>
    /\ Rests(w)
    /\ UNCHANGED <<now, ticks, cron, crowded, unasked, shaken, harm>>

\* The worker dies, and with it every task in progress: arq runs those again that have a try
\* left.
WarmingDies ==
    /\ harm < MaxWarmingDamage /\ harm' = harm + 1
    /\ \E w \in Workers : Running(w)
    /\ \E again \in SUBSET {w \in Workers : Running(w)} :
          /\ Enqueue(Cardinality(again))
          /\ shaken' = (shaken \/ again # {w \in Workers : Running(w)})
    /\ busy' = [w \in Workers |-> Resting]
    /\ crowded' = TRUE
    /\ UNCHANGED <<now, acct, rows, latest, good, cron, early, hurried, unasked>>

\* Meanwhile: the score falls to zero or recovers, incidents are acknowledged, the account is
\* given to a campaign and handed back, which makes it one of the pool.
Elsewhere ==
    /\ harm < MaxWarmingDamage /\ harm' = harm + 1
    /\ \/ acct' = [acct EXCEPT !.zero = ~@] /\ shaken' = TRUE
       \/ /\ UNCHANGED shaken
          /\ \/ acct.open > 0 /\ acct' = [acct EXCEPT !.open = 0]
             \/ acct.status \in {"pool", "warming", "cooldown"}
                /\ acct' = [acct EXCEPT !.status = "assigned"]
             \/ acct.status = "assigned" /\ acct' = [acct EXCEPT !.status = "pool"]
    /\ UNCHANGED <<now, ticks, busy, rows, latest, good, cron, early, crowded, hurried,
                   unasked>>

WarmNext ==
    \/ Later \/ InitialStart \/ MaintenanceScheduler \/ WarmingDies \/ Elsewhere
    \/ \E w \in Workers :
          \/ TakeTick(w) \/ NoClient(w) \/ GivesUp(w) \/ WriteRow(w)
          \/ \E x \in Outcomes : Act(w, x)
          \/ \E x \in BOOLEAN : ActBadly(w, x)

WarmSpec == WarmInit /\ [][WarmNext]_warmVars
-----------------------------------------------------------------------------
WarmTypeOK ==
    /\ now \in 0..MaxNow /\ harm \in 0..MaxWarmingDamage
    /\ acct.status \in {"warming", "pool", "assigned", "cooldown", "banned"}
    /\ ticks.ready \in Nat /\ ticks.batch \in 0..Batch
    /\ \A w \in Workers : busy[w].at \in {"free", "client", "row"}
    /\ rows \in Seq(Kinds \X Outcomes) /\ Len(rows) <= Keep

\* The account goes to the pool with the actions done or the days passed, and with no
\* incident open.
Graduated == ~early

\* A warming account is not forgotten, however often the worker died and ticks were given up:
\* each time the cron job has been by, a tick waits or runs if the account's row is old, unless
\* the score has changed or a tick was given up since; then the next round of the cron job sees
\* to it.
NobodyStuck ==
    (cron /\ acct.status = "warming" /\ Due /\ Awake(now) /\ ~acct.zero /\ ~shaken)
        => Outstanding

\* An account of the pool whose tick was enqueued with no other under way rests for an
\* interval between two actions.
Rested == ~hurried

\* Warming neither joins nor changes the profile unless the scenario asks for it, or for joins
\* WARMING_AUTO_SUBSCRIBE does.
AskedOnly == ~unasked

WarmingKept == Graduated /\ NobodyStuck /\ Rested /\ AskedOnly
=============================================================================

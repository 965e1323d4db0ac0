------------------------------ MODULE Autopilot ------------------------------
(***************************************************************************)
(* The autopilot: autopilot_tick reads the goals of all users and the      *)
(* whole fleet, plans (core/autopilot/planner.py) and applies the plan one *)
(* action after the other.  The tick never awaits, but the API and the     *)
(* other worker commit in between.  transition() commits by itself, and    *)
(* with it whatever the tick's session holds; the journal row is added     *)
(* after it and waits for the next commit.                                 *)
(***************************************************************************)
EXTENDS Integers, FiniteSets, FiniteSetsExt

CONSTANTS
    Fleet,      \* account ids
    GoalRows,   \* autopilot_goals: owner, type and params of each
    MaxActions, \* _MAX_ACTIONS_PER_GOAL
    MaxTouches, \* bound on what others change meanwhile
    MaxBreaks   \* bound on deaths of the worker

AutopilotAssumption ==
    /\ IsFiniteSet(Fleet) /\ Fleet \subseteq Nat
    /\ \A g \in DOMAIN GoalRows : GoalRows[g].target \in Int
    /\ MaxActions \in Nat /\ MaxTouches \in Nat /\ MaxBreaks \in Nat

VARIABLES
    status,   \* of the accounts; "gone": the row was deleted
    risk,     \* ban_risk in tenths, as the predictor stored it
    slow,     \* accounts with the minimal warming profile
    enabled,  \* goals that are enabled, and
    dropped,  \* those that were deleted
    todo,     \* planned actions of the tick that are left
    acting,   \* the action being applied
    open,     \* journal rows of the tick's open transaction
    busy,     \* the tick is running
    quota,    \* the largest deficit a goal had in the tick's snapshot
    started,  \* accounts the tick has sent into warming
    made,     \* transitions made, and
    booked,   \* those with a committed journal row
    touches, breaks

autopilotVars == <<status, risk, slow, enabled, dropped, todo, acting, open, busy, quota,
                   started, made, booked, touches, breaks>>
rows == <<status, risk, enabled, dropped>>

Goals_ == DOMAIN GoalRows
Statuses == {"created", "warming", "pool", "assigned", "retired", "gone"}
InUse == {"pool", "assigned", "warming"}
Kinds == {"start_warming", "retire_risky", "throttle"}
Actions == [goal: Goals_, acct: Fleet, kind: Kinds]
CriticalRisk == 8
HighRisk == 6

AutopilotInit ==
    /\ status \in [Fleet -> {"created", "pool"}]
    /\ risk = [a \in Fleet |-> 0]
    /\ slow = {}
    /\ enabled = Goals_ /\ dropped = {}
    /\ todo = {} /\ acting = {} /\ open = {}
    /\ busy = FALSE
    /\ quota = 0 /\ started = {}
    /\ made = 0 /\ booked = 0
    /\ touches = 0 /\ breaks = 0
-----------------------------------------------------------------------------
(* plan() *)

In(s) == {a \in Fleet : status[a] = s}
Do(g, A, kind) == {[goal |-> g, acct |-> a, kind |-> kind] : a \in A}

\* The n first in the order of their ids.
Lowest(A, n) == {a \in A : Cardinality({b \in A : b < a}) < n}
Some(A, n) == {S \in SUBSET A : Cardinality(S) = Min({n, Cardinality(A)})}

Deficit(g) ==
    GoalRows[g].target - Cardinality(IF GoalRows[g].type = "warmup_pipeline"
                                     THEN In("warming") ELSE In("pool") \cup In("warming"))

Need(g) == IF GoalRows[g].type = "keep_low_risk" \/ Deficit(g) <= 0
           THEN 0
           ELSE Min({Deficit(g), Cardinality(In("created")), MaxActions})

\* Mutant: the pipeline takes the newest accounts.
StartsOfNewest(g) ==
    IF GoalRows[g].type = "warmup_pipeline"
    THEN {a \in In("created") : Cardinality({b \in In("created") : b > a}) < Need(g)}
    ELSE Lowest(In("created"), Need(g))

\* created accounts, in the order of their ids: two goals that are short of accounts
\* take the same ones.
Starts(g) == Lowest(In("created"), Need(g))

\* average_risk of the working accounts is above the limit.
TooRisky(g) ==
    LET active == {a \in Fleet : status[a] \in InUse} IN
    MapThenSumSet(LAMBDA a : risk[a], active) > GoalRows[g].target * Cardinality(active)

\* The critical ones first, whatever their status; what is left of MaxActions goes to
\* the high ones.  Which of equal risk come first is the database's choice.
RiskPlans(g) ==
    LET critical == {a \in Fleet : status[a] # "gone" /\ risk[a] >= CriticalRisk}
        high == {a \in Fleet : status[a] # "gone" /\ risk[a] \in HighRisk..CriticalRisk - 1
                               /\ a \notin slow}
    IN UNION {{Do(g, C, "retire_risky") \cup Do(g, H, "throttle") :
                  H \in Some(high, MaxActions - Cardinality(C))} :
              C \in Some(critical, MaxActions)}

GoalPlans(g) ==
    IF GoalRows[g].type # "keep_low_risk" THEN {Do(g, Starts(g), "start_warming")}
    ELSE IF TooRisky(g) THEN RiskPlans(g) ELSE {{}}

\* Per user and account one action is left: a retire if there is one, otherwise that of
\* the goal that came first, in the order the database returned the goals.
OnePerAccount(raw) ==
    {P \in SUBSET raw : \A x \in raw :
        LET same == {y \in raw : y.acct = x.acct
                                 /\ GoalRows[y.goal].owner = GoalRows[x.goal].owner}
            first == {y \in same : y.kind = "retire_risky"}
        IN \E y \in same : P \cap same = {y} /\ (first # {} => y \in first)}

\* The goals and one snapshot of the fleet; every user's goals are planned on the same
\* snapshot, and one user does not know of the other's actions.
TickStarts ==
    /\ ~busy /\ enabled # {}
    /\ busy' = TRUE
    /\ \E pick \in [enabled -> UNION {GoalPlans(g) : g \in enabled}] :
          /\ \A g \in enabled : pick[g] \in GoalPlans(g)
          /\ todo' \in OnePerAccount(UNION {pick[g] : g \in enabled})
    /\ quota' = Max({0} \cup {Need(g) : g \in enabled})
    /\ started' = {}
    /\ UNCHANGED <<rows, slow, acting, open, made, booked, touches, breaks>>
-----------------------------------------------------------------------------
(* _apply_action and the journal *)

From(kind) == IF kind = "start_warming" THEN {"created"}
              ELSE {"created", "warming", "pool", "assigned"}
Becomes(kind) == IF kind = "start_warming" THEN "warming" ELSE "retired"

\* The row is read; a transition that is not allowed is a failed action.  A throttle
\* writes the profile and waits for the commit.
Look(x) ==
    /\ busy /\ acting = {} /\ x \in todo
    /\ todo' = todo \ {x}
    /\ acting' = {[act |-> x, at |->
          IF x.kind = "throttle" THEN IF status[x.acct] = "gone" THEN "refused" ELSE "made"
          ELSE IF status[x.acct] \in From(x.kind) THEN "found" ELSE "refused"]}
    /\ UNCHANGED <<rows, slow, open, busy, quota, started, made, booked, touches, breaks>>

\* The tick is over in the middle: its open transaction is rolled back.
Breaks_ ==
    /\ busy' = FALSE /\ todo' = {} /\ acting' = {} /\ open' = {}
    /\ breaks' = breaks + 1
    /\ UNCHANGED <<slow, made, booked>>

Transitions(R) == {r \in R : r.at = "made" /\ r.act.kind # "throttle"}
Throttled(R) == {r.act.acct : r \in {q \in R : q.at = "made" /\ q.act.kind = "throttle"}}

Commit ==
    /\ open' = {}
    /\ booked' = booked + Cardinality(Transitions(open))
    /\ slow' = slow \cup Throttled(open)

\* Mutant: the transition is not committed with what the tick has written before it.
MakeApart(x) ==
    /\ busy /\ [act |-> x, at |-> "found"] \in acting
    /\ IF status[x.acct] = "gone" THEN Breaks_ /\ UNCHANGED <<status, started>>
       ELSE /\ status' = [status EXCEPT ![x.acct] = Becomes(x.kind)]
            /\ started' = IF x.kind = "start_warming" THEN started \cup {x.acct} ELSE started
            /\ made' = made + 1
            /\ acting' = {[act |-> x, at |-> "made"]}
            /\ UNCHANGED <<todo, busy, breaks, open, booked, slow>>
    /\ UNCHANGED <<risk, enabled, dropped, quota, touches>>

\* The status is written over whatever it has become, and the transaction committed, with
\* the rows of the actions before.  A deleted row is a failed flush.
Make(x) ==
    /\ busy /\ [act |-> x, at |-> "found"] \in acting
    /\ IF status[x.acct] = "gone" THEN Breaks_ /\ UNCHANGED <<status, started>>
       ELSE /\ status' = [status EXCEPT ![x.acct] = Becomes(x.kind)]
            /\ started' = IF x.kind = "start_warming" THEN started \cup {x.acct} ELSE started
            /\ made' = made + 1
            /\ acting' = {[act |-> x, at |-> "made"]}
            /\ Commit
            /\ UNCHANGED <<todo, busy, breaks>>
    /\ UNCHANGED <<risk, enabled, dropped, quota, touches>>

\* The journal row refers to the goal and the account: one that was deleted meanwhile
\* is an IntegrityError nobody catches.
Log(r) ==
    /\ busy /\ r \in acting /\ r.at \in {"made", "refused"}
    /\ IF r.act.goal \in dropped \/ status[r.act.acct] = "gone"
       THEN Breaks_
       ELSE /\ open' = open \cup {r}
            /\ acting' = {}
            /\ UNCHANGED <<todo, busy, breaks, slow, made, booked>>
    /\ UNCHANGED <<rows, quota, started, touches>>

\* The last commit.  The tick has no task queue: nothing is enqueued after it.
TickEnds ==
    /\ busy /\ todo = {} /\ acting = {}
    /\ busy' = FALSE
    /\ Commit
    /\ UNCHANGED <<rows, todo, acting, quota, started, made, touches, breaks>>

TickDies ==
    /\ busy /\ breaks < MaxBreaks
    /\ Breaks_
    /\ UNCHANGED <<rows, quota, started, touches>>
-----------------------------------------------------------------------------
(* The API and the rest of the worker *)

\* Rows the tick's open transaction has written or refers to cannot be changed by others.
Held == {r.act.acct : r \in open \cup {q \in acting : q.act.kind = "throttle"}}
HeldGoals == {r.act.goal : r \in open}

Touch == touches < MaxTouches /\ touches' = touches + 1

\* The transitions of AccountLifecycle, as far as the planner tells their ends apart.
Elsewhere(a, to) ==
    /\ Touch
    /\ \/ status[a] = "created" /\ to \in {"warming", "assigned", "retired"}
       \/ status[a] = "warming" /\ to \in {"pool", "assigned", "retired"}
       \/ status[a] = "pool" /\ to \in {"assigned", "retired"}
       \/ status[a] = "assigned" /\ to \in {"pool", "retired"}
       \/ status[a] = "retired" /\ to = "pool"
       \/ status[a] # "gone" /\ to = "gone" /\ a \notin Held
    /\ a \notin Throttled(open \cup acting)
    /\ status' = [status EXCEPT ![a] = to]
    /\ UNCHANGED <<risk, slow, enabled, dropped, todo, acting, open, busy, quota, started,
                   made, booked, breaks>>

\* The predictor's batch lists working accounts only: a retired one keeps its score, but for
\* the task that was queued before.  It is a task of the same worker, and never in the
\* middle of a tick.
Predict(a, r) ==
    /\ ~busy /\ status[a] \in InUse \cup {"retired"} /\ risk[a] # r
    /\ Touch
    /\ risk' = [risk EXCEPT ![a] = r]
    /\ UNCHANGED <<status, slow, enabled, dropped, todo, acting, open, busy, quota, started,
                   made, booked, breaks>>

\* update_goal and delete_goal.
ChangeGoal(g) ==
    /\ Touch
    /\ \/ g \notin dropped /\ dropped' = dropped /\ enabled' = SymDiff(enabled, {g})
       \/ /\ g \notin dropped \cup HeldGoals
          /\ dropped' = dropped \cup {g} /\ enabled' = enabled \ {g}
    /\ UNCHANGED <<status, risk, slow, todo, acting, open, busy, quota, started, made,
                   booked, breaks>>
-----------------------------------------------------------------------------
AutopilotNext ==
    \/ TickStarts \/ TickEnds \/ TickDies
    \/ \E x \in todo \cup {r.act : r \in acting} : Look(x) \/ Make(x)
    \/ \E r \in acting : Log(r)
    \/ /\ touches < MaxTouches
       /\ \E a \in Fleet : \/ \E to \in Statuses : Elsewhere(a, to)
                           \/ \E r \in {0, HighRisk, CriticalRisk} : Predict(a, r)
    \/ \E g \in Goals_ : ChangeGoal(g)

AutopilotSpec == AutopilotInit /\ [][AutopilotNext]_autopilotVars
-----------------------------------------------------------------------------
(* Properties *)

Deeds == [act: Actions, at: {"found", "made", "refused"}]

\* Tables and the tick are well formed.
AutopilotTypeOK ==
    /\ status \in [Fleet -> Statuses]
    /\ risk \in [Fleet -> {0, HighRisk, CriticalRisk}]
    /\ slow \subseteq Fleet
    /\ enabled \subseteq Goals_ \ dropped /\ dropped \subseteq Goals_
    /\ todo \subseteq Actions /\ acting \subseteq Deeds /\ open \subseteq Deeds
    /\ Cardinality(acting) <= 1
    /\ busy \in BOOLEAN /\ (busy \/ todo \cup acting \cup open = {})
    /\ quota \in Nat /\ started \subseteq Fleet
    /\ made \in Nat /\ booked \in Nat
    /\ touches \in 0..MaxTouches /\ breaks \in Nat

\* However many users have goals that are short of accounts, and whatever happens to
\* the accounts meanwhile, a tick sends no more of them into warming than the neediest
\* goal lacked: each goal's plan begins with the same accounts, and the second attempt on
\* one is refused (core/autopilot/planner.py:100-120, worker/tasks/autopilot.py:160-200).
StartsBounded == Cardinality(started) <= quota

\* "Каждое решение журналируется" (worker/tasks/autopilot.py:12): a tick that breaks off
\* owes the journal one transition at most, as each commits the rows of those before it.
JournalComplete ==
    /\ booked <= made
    /\ made - booked <= breaks + (IF busy THEN 1 ELSE 0)
=============================================================================

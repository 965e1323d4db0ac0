---------------------------- MODULE HealthChecks ----------------------------
(***************************************************************************)
(* The health of one account (worker/tasks/health.py, worker/health): the  *)
(* cron every three hours and the API ask for checks, a check probes the   *)
(* session, the profile and, if asked to, the spam block, writes the       *)
(* snapshot, its score and the predictor's risk; the monitor around every  *)
(* call turns errors into events and transitions.                          *)
(*                                                                         *)
(* Time is counted in periods of the cron.  A transition is one step here: *)
(* AccountLifecycle is about sessions of the database that overlap.        *)
(***************************************************************************)
EXTENDS Integers, FiniteSets

CONSTANTS
    Checkers,     \* checks the worker may run at once
    MaxQueue,     \* bounds: tasks of a kind in the queue,
    MaxAsks,      \* requests of the API,
    MaxMishaps    \* failures and deaths

HealthAssumption == {MaxQueue, MaxAsks, MaxMishaps} \subseteq Nat

VARIABLES
    session,   \* whether Telegram still takes the session
    status,    \* accounts.status; "assigned" is like "pool" here, "warming" like "cooldown"
    events,    \* health_events: what came of each, and what it says did
    row,       \* account_health: session_alive, health_score
    risk,      \* ban_risk_snapshots
    age,       \* periods since last_full_check_at
    queue,     \* check_account tasks, by their try
    checker,
    missed,    \* no check was asked for or made, for a reason other than the clock
    torn,      \* what was not written after the snapshot
    back,      \* the owner brought the account back since it was banned
    asks, mishaps

healthVars == <<session, status, events, row, risk, age, queue, checker, missed,
                torn, back, asks, mishaps>>
snapshot == <<row, risk, age, torn>>
trace == <<missed, asks, mishaps>>

\* Ages that tell nothing more apart.
Old == 5
Older(periods) == IF periods < Old THEN periods + 1 ELSE Old
Tries == {1, 2}
Unknown == "unknown"
NoEvent == [did |-> "none", mark |-> "none"]
Idle == [at |-> "idle", try |-> 1, alive |-> Unknown, age |-> 0]
AtWork == {"pool", "cooldown"}

HealthInit ==
    /\ session = "good"
    /\ status \in AtWork
    /\ events = {}
    /\ row = [alive |-> Unknown, score |-> 100] /\ risk = "less" /\ age = Old
    /\ queue = [t \in Tries |-> 0]
    /\ checker = [h \in Checkers |-> Idle]
    /\ missed = TRUE
    /\ torn = {} /\ back = FALSE /\ asks = 0 /\ mishaps = 0

Mishap == mishaps < MaxMishaps /\ mishaps' = mishaps + 1
-----------------------------------------------------------------------------
(* The score and the risk: HealthScore *)

Formula == INSTANCE HealthScore WITH MaxHistory <- 0, facts <- row, record <- row

\* What else a check may find: a spam block, which is just not a risk, and several things.
Limited == [Formula!Sound EXCEPT !.spam = TRUE]
Poor == [Formula!Sound EXCEPT !.proxyDead = TRUE, !.flood = TRUE, !.lacks = {"2fa", "username"},
                              !.incidents = 4]

\* core/predictor.py: a dead session is a risk of 1, whatever else is known.
RiskOf(r) == IF r.alive = "no" THEN "fatal" ELSE "less"
-----------------------------------------------------------------------------
(* worker/health/monitor.py *)

Kinds == {"incident", "revoked"}

\* The transition of an incident (a flood wait, a spam block) or of a ban; the state machine
\* refuses it in every other status.
Falls(kind) ==
    CASE kind = "revoked" -> IF status = "banned" THEN "none" ELSE "banned"
      [] kind = "incident" -> IF status = "pool" THEN "cooldown" ELSE "none"

\* Events of which nothing came and that say so tell nothing more.
Put(did, mark) == events' = events \cup ({[did |-> did, mark |-> mark]} \ {NoEvent})

\* Mutant: the event is marked whatever the state machine says.
MarkAnyway(kind) ==
    LET fall == Falls(kind)
    IN /\ status' = IF fall = "none" THEN status ELSE fall
       /\ Put(fall, IF kind = "revoked" THEN "banned" ELSE "cooldown")
       /\ back' = (back /\ fall # "banned")

\* _incident and _ban: the event is committed, the transition, then the mark.
Monitor(kind) ==
    LET fall == Falls(kind)
    IN /\ status' = IF fall = "none" THEN status ELSE fall
       /\ Put(fall, fall)
       /\ back' = (back /\ fall # "banned")

CanHappen(kind) == kind = "revoked" => session = "revoked"

\* Other work of the account meets an error.
Incident(kind) ==
    /\ status \in AtWork /\ CanHappen(kind) /\ Falls(kind) # "none"
    /\ Monitor(kind)
    /\ UNCHANGED <<session, snapshot, queue, checker, trace>>

\* Tasks that did not return are run again, once.
Again(S) ==
    [queue EXCEPT ![2] = @ + Cardinality({h \in S : checker[h].at # "idle" /\ checker[h].try = 1})]
Ended(S) == missed \/ \E h \in S : checker[h].at # "idle" /\ checker[h].try = 2

\* The worker dies in the middle of a check, or between the commits of the monitor.
WorkerDies ==
    /\ Mishap
    /\ \/ UNCHANGED <<status, events, back>>
       \/ \E kind \in Kinds :
             /\ status \in AtWork /\ CanHappen(kind) /\ Falls(kind) # "none"
             /\ status' = Falls(kind) /\ Put(Falls(kind), "none")
             /\ back' = (back /\ Falls(kind) # "banned")
    /\ queue' = Again(Checkers) /\ missed' = Ended(Checkers)
    /\ checker' = [h \in Checkers |-> Idle]
    /\ UNCHANGED <<session, snapshot, asks>>
-----------------------------------------------------------------------------
(* Who asks for a check *)

AtRisk == row.score < 40

\* Mutant: an account at risk waits as long as the others.
DueLate(periods) == periods >= 5

\* check_accounts_periodic: last_full_check_at is before the cutoff.  A check is made after
\* the cron that asked for it, so that three hours later it is less than three hours old.
Due(periods) == periods >= (IF AtRisk THEN 2 ELSE 5)

Puts == queue[1] < MaxQueue /\ queue' = [queue EXCEPT ![1] = @ + 1]

\* Three hours pass; what a check under way will write ages with it, and no task lasts three
\* hours.  The cron looks at the age of that moment; one that breaks off asks for nothing.
Period ==
    /\ \A h \in Checkers : checker[h].age = 0
    /\ age' = Older(age)
    /\ checker' = [h \in Checkers |-> IF checker[h].at = "idle" THEN Idle
                                      ELSE [checker[h] EXCEPT !.age = 1]]
    /\ IF status \in AtWork /\ Due(age')
       THEN \/ /\ Puts
               /\ missed' = FALSE /\ UNCHANGED mishaps
            \/ /\ Mishap /\ missed' = TRUE /\ UNCHANGED queue
       ELSE UNCHANGED <<queue, missed, mishaps>>
    /\ UNCHANGED <<session, status, events, row, risk, torn, back, asks>>

\* POST health/check and check-bulk, within the governor's limit.
Ask ==
    /\ asks < MaxAsks /\ asks' = asks + 1
    /\ Puts
    /\ UNCHANGED <<session, status, events, snapshot, checker, missed, back, mishaps>>
-----------------------------------------------------------------------------
(* check_account *)

Takes(t) == queue[t] > 0 /\ queue' = [queue EXCEPT ![t] = @ - 1]

Begin(h, t) ==
    /\ checker[h] = Idle /\ Takes(t)
    /\ checker' = [checker EXCEPT ![h] = [Idle EXCEPT !.at = "session", !.try = t]]
    /\ UNCHANGED <<session, status, events, snapshot, missed, back, asks, mishaps>>

\* There is no client, or the time of the task is over (then it is not run again).
Fails(h) ==
    /\ checker[h].at # "idle" /\ Mishap
    /\ \/ queue' = Again({h}) /\ missed' = Ended({h})
       \/ UNCHANGED queue /\ missed' = TRUE
    /\ checker' = [checker EXCEPT ![h] = Idle]
    /\ UNCHANGED <<session, status, events, snapshot, back, asks>>

At(h, place) == checker[h].at = place
Goes(h, r) == checker' = [checker EXCEPT ![h] = r]
Quiet == UNCHANGED <<status, events, back>>

\* probe_session.  A dead session ends the probes; an error that says nothing about the
\* session does not.
ProbeSession(h) ==
    /\ At(h, "session")
    /\ \/ session = "good" /\ Quiet /\ Goes(h, [checker[h] EXCEPT !.at = "profile", !.alive = "yes"])
       \/ /\ session = "revoked" /\ Monitor("revoked")
          /\ Goes(h, [checker[h] EXCEPT !.at = "write", !.alive = "no"])
       \/ Quiet /\ Goes(h, [checker[h] EXCEPT !.at = "profile"])
       \/ Monitor("incident") /\ Goes(h, [checker[h] EXCEPT !.at = "profile"])
    /\ UNCHANGED <<session, snapshot, queue, trace>>

\* probe_profile, and probe_spamblock if it was asked for: whatever happens, the check goes on.
ProbeRest(h) ==
    /\ At(h, "profile")
    /\ Goes(h, [checker[h] EXCEPT !.at = "write"])
    /\ Quiet \/ \E kind \in Kinds : CanHappen(kind) /\ Monitor(kind)
    /\ UNCHANGED <<session, snapshot, queue, trace>>

\* The row with what the probes found.
Found(c) == [row EXCEPT !.alive = IF c.alive = Unknown THEN @ ELSE c.alive]

\* The snapshot, the score and the prediction, three commits without an await between.  A
\* score that cannot be written fails the task, a prediction does not.
Write(h) ==
    /\ At(h, "write")
    /\ age' = checker[h].age
    /\ \E rest \in {Limited, Poor} :
          LET seen == Found(checker[h])
              scored == [seen EXCEPT !.score = Formula!Score([rest EXCEPT !.alive = seen.alive])]
          IN \/ /\ row' = scored /\ risk' = RiskOf(scored) /\ torn' = {}
                /\ UNCHANGED <<queue, missed, mishaps>>
             \/ /\ Mishap /\ row' = scored /\ torn' = {"risk"}
                /\ UNCHANGED <<risk, queue, missed>>
             \/ /\ Mishap /\ row' = seen /\ torn' = {"score", "risk"}
                /\ queue' = Again({h}) /\ missed' = Ended({h})
                /\ UNCHANGED risk
    /\ checker' = [checker EXCEPT ![h] = Idle]
    /\ UNCHANGED <<session, status, events, back, asks>>

\* predict_ban_risk_batch and its tasks, every fifteen minutes.
Predict ==
    /\ status \in AtWork /\ "risk" \in torn
    /\ risk' = RiskOf(row) /\ torn' = torn \ {"risk"}
    /\ UNCHANGED <<session, status, events, row, age, queue, checker, trace, back>>
-----------------------------------------------------------------------------
(* Telegram, and the owner *)

Revoke ==
    /\ session = "good" /\ session' = "revoked"
    /\ UNCHANGED <<status, events, snapshot, queue, checker, trace, back>>

\* The end of warming and of a cooldown; retirement, acknowledgement of a ban, and return.
Moves == {<<"cooldown", "pool">>, <<"pool", "retired">>,
          <<"banned", "retired">>, <<"retired", "pool">>}

Move ==
    /\ \E m \in Moves :
          /\ status = m[1] /\ status' = m[2]
          /\ back' = (back \/ m[1] = "retired")
          /\ missed' = (missed \/ m[1] = "retired")
    /\ UNCHANGED <<session, events, snapshot, queue, checker, asks, mishaps>>

HealthNext ==
    \/ WorkerDies \/ Period \/ Predict \/ Revoke \/ Move
    \/ \E kind \in Kinds : Incident(kind)
    \/ Ask
    \/ \E h \in Checkers :
          \/ Fails(h) \/ ProbeSession(h) \/ ProbeRest(h) \/ Write(h)
          \/ \E t \in Tries : Begin(h, t)

HealthSpec == HealthInit /\ [][HealthNext]_healthVars
-----------------------------------------------------------------------------
HealthTypeOK ==
    /\ session \in {"good", "revoked"}
    /\ status \in AtWork \cup {"banned", "retired"}
    /\ events \subseteq [did: {"none", "cooldown", "banned"}, mark: {"none", "cooldown", "banned"}]
    /\ row.alive \in {"yes", "no", Unknown}
    /\ row.score \in 0..100 /\ age \in 0..Old /\ queue \in [Tries -> 0..MaxQueue + Cardinality(Checkers)]

\* A snapshot calls a session dead only of an account that was banned for it, unless the owner
\* brought it back; score and risk say so too, unless they could not be written.
DeadIsBanned ==
    /\ row.alive = "no" /\ status \in AtWork => back
    /\ row.alive = "no" /\ "score" \notin torn => row.score = 0
    /\ row.alive = "no" /\ "risk" \notin torn => risk = "fatal"

\* A ban has its event, and no event claims a transition that was not made (monitor.py).
EventsTell ==
    /\ status = "banned" => \E e \in events : e.did = "banned"
    /\ \A e \in events : e.mark \in {"none", e.did}

\* An account at work is checked within two periods of the cron if it is at risk, and within
\* five otherwise, or a check is queued or under way, or one failed since
\* (check_accounts_periodic).
ChecksCome ==
    status \in AtWork /\ age >= (IF AtRisk THEN 2 ELSE 5) =>
        \/ missed
        \/ \E t \in Tries : queue[t] > 0
        \/ \E h \in Checkers : checker[h] # Idle

HealthKept == DeadIsBanned /\ EventsTell /\ ChecksCome
=============================================================================

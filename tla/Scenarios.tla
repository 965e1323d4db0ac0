----------------------------- MODULE Scenarios -----------------------------
(***************************************************************************)
(* modules/shilling/api: one campaign, its scenarios with their roles and  *)
(* steps, and the accounts that play them, edited by several requests at   *)
(* once (router.py, service.py, repositories/scenario.py); what            *)
(* process_target and execute_step of the worker make of the scenario when *)
(* it changes under a dialog that is planned already.                      *)
(*                                                                         *)
(* A request that decides on what it read and writes later is two steps;   *)
(* one whose write fails when what it read is gone (a foreign key) is one. *)
(* Numbers are given once, as by a sequence: 0 is NULL, or not given yet.  *)
(* Steps are messages; the order of a scenario's steps is that of their    *)
(* numbers.                                                                *)
(***************************************************************************)
EXTENDS Integers, FiniteSets

CONSTANTS
    Editors,       \* requests that may run at once
    Players,       \* accounts in the pool or assigned
    Unplayed,      \* a role nobody is left for
    Offers,        \* requests that are made
    MaxScenarios, MaxRoles, MaxSteps,
    MaxChanges,    \* bound on the requests
    MaxPlays       \* bound on the dialogs

\* CheckConstraint: persons_count >= 2, and nothing that changes it later.
Persons == 2

ScenariosAssumption ==
    /\ {MaxScenarios, MaxRoles, MaxSteps, MaxChanges, MaxPlays} \subseteq Nat
    /\ MaxScenarios >= 1 /\ MaxRoles >= 2 /\ MaxSteps >= 2
    /\ IsFiniteSet(Players) /\ Unplayed \notin Players

VARIABLES
    scens,     \* the campaign's scenarios
    made,      \* how many there were
    active,    \* campaigns.scenario_id
    role,      \* scenario of each role
    step,      \* the rows of scenario_steps
    link,      \* campaign_accounts: is_reserve and role_id
    state,     \* of the campaign: off (not running), starting (task queued), running
    editor,    \* what each running request does
    cues,      \* execute_step tasks in the queue
    said,      \* lines that were sent
    plays,     \* dialogs planned
    adrift,    \* the active scenario is one a request chose blindly, or on what it had read before
    lost,      \* steps that went with their role
    late,      \* steps given to a role while it was being deleted
    recut,     \* steps given to another role while they waited to be said
    changes

sceneVars == <<scens, made, active, role, step, link, state, editor, cues, said, plays, adrift,
               lost, late, recut, changes>>
script == <<scens, made, active, role, step>>
stagePart == <<cues, said, plays>>
ghosts == <<adrift, lost, late, recut>>

Gone == -1

\* A scenario of another campaign, and a role of one.
Foreign == -2
Free == [at |-> "idle", num |-> 0, was |-> FALSE, who |-> Unplayed, reserve |-> FALSE]
NoStep == [of |-> 0, role |-> 0, reply |-> 0]
Outside == [as |-> "out", role |-> 0]
Least(S) == CHOOSE n \in S : \A m \in S : n <= m

RolesOf(s) == {r \in DOMAIN role : role[r] = s}
StepsOf(s) == {t \in DOMAIN step : step[t].of = s}
StepsBy(r) == {t \in DOMAIN step : step[t].of > 0 /\ step[t].role = r}
Primary == {p \in Players : link[p].as = "primary"}

\* A campaign somebody has prepared: two roles with a line each, the second an answer.
ScenariosInit ==
    /\ scens = {1} /\ made = 1 /\ active = 1
    /\ role = [r \in 1..MaxRoles |-> IF r <= 2 THEN 1 ELSE 0]
    /\ step = [t \in 1..MaxSteps |->
                 IF t <= 2 THEN [NoStep EXCEPT !.of = 1, !.role = t, !.reply = t - 1] ELSE NoStep]
    /\ link = [p \in Players |-> [Outside EXCEPT !.as = "primary"]]
    /\ state = "off" /\ editor = [h \in Editors |-> Free]
    /\ cues = {} /\ said = {} /\ plays = 0
    /\ adrift = FALSE /\ lost = {} /\ late = {} /\ recut = {} /\ changes = 0

Change(kind) == kind \in Offers /\ changes < MaxChanges /\ changes' = changes + 1
Begins(h, r) == editor[h].at = "idle" /\ Change(r.at) /\ editor' = [editor EXCEPT ![h] = r]
Ends(h) == editor' = [editor EXCEPT ![h] = Free] /\ UNCHANGED changes
Alone(kind) == Change(kind) /\ UNCHANGED <<editor, stagePart>>
-----------------------------------------------------------------------------
(* Which scenario plays *)

\* get_by_campaign: the active one, else the oldest.
Playing == IF active \in scens THEN active ELSE IF scens = {} THEN 0 ELSE Least(scens)

\* Mutant: the campaign is left without.
NobodyInherits(S) == 0

\* delete_scenario: whatever is left.
Heir(S) == IF S = {} THEN 0 ELSE Least(S)

\* The row goes, and with it (CASCADE) its roles and steps; links and replies forget them.
Remove(S) ==
    LET R == UNION {RolesOf(s) : s \in S}
        T == UNION {StepsOf(s) : s \in S}
    IN /\ role' = [r \in DOMAIN role |-> IF r \in R THEN Gone ELSE role[r]]
       /\ step' = [t \in DOMAIN step |-> IF t \in T THEN [NoStep EXCEPT !.of = Gone] ELSE step[t]]
       /\ link' = [p \in Players |-> IF link[p].role \in R THEN [link[p] EXCEPT !.role = 0]
                                     ELSE link[p]]

\* POST scenarios: the new one is active if there was none.
AskAdd(h) ==
    /\ made < MaxScenarios
    /\ Begins(h, [Free EXCEPT !.at = "add", !.was = active = 0])
    /\ UNCHANGED <<script, link, state, stagePart, ghosts>>

Add(h) ==
    /\ editor[h].at = "add" /\ made < MaxScenarios
    /\ made' = made + 1 /\ scens' = scens \cup {made + 1}
    /\ active' = IF editor[h].was THEN made + 1 ELSE active
    /\ adrift' = (~editor[h].was /\ (adrift \/ scens = {}))
    /\ Ends(h)
    /\ UNCHANGED <<role, step, link, state, stagePart, lost, late, recut>>

\* PUT scenario: a new one in the place of the one that plays.
AskPut(h) ==
    /\ made < MaxScenarios
    /\ Begins(h, [Free EXCEPT !.at = "put", !.num = Playing])
    /\ UNCHANGED <<script, link, state, stagePart, ghosts>>

Put(h) ==
    /\ editor[h].at = "put" /\ made < MaxScenarios
    /\ Remove({editor[h].num} \cap scens)
    /\ made' = made + 1 /\ active' = made + 1
    /\ scens' = (scens \ {editor[h].num}) \cup {made + 1}
    /\ adrift' = FALSE /\ Ends(h)
    /\ UNCHANGED <<state, stagePart, lost, late, recut>>

\* POST activate.
Activate(s) ==
    /\ Alone("activate") /\ s \in scens /\ active' = s /\ adrift' = FALSE
    /\ UNCHANGED <<scens, made, role, step, link, state, lost, late, recut>>

\* PATCH campaigns: any scenario_id that there is, or none. A foreign one may be deleted.
Repoint(s) ==
    /\ Alone("patch") /\ s \in scens \cup {0, Foreign} /\ active' = s
    /\ adrift' = (s \notin scens)
    /\ UNCHANGED <<scens, made, role, step, link, state, lost, late, recut>>

\* DELETE scenarios: if it was active when it was looked at, another one is made active.
AskDelete(h, s) ==
    /\ s \in scens
    /\ Begins(h, [Free EXCEPT !.at = "delete", !.num = s, !.was = active = s])
    /\ UNCHANGED <<script, link, state, stagePart, ghosts>>

Delete(h) ==
    LET s == editor[h].num IN
    /\ editor[h].at = "delete"
    /\ Remove({s} \cap scens)
    /\ scens' = scens \ {s}
    /\ active' = IF editor[h].was THEN Heir(scens \ {s}) ELSE IF active = s THEN 0 ELSE active
    /\ adrift' = (~editor[h].was /\ (adrift \/ active = s))
    /\ Ends(h)
    /\ UNCHANGED <<made, state, stagePart, lost, late, recut>>
-----------------------------------------------------------------------------
(* Roles and steps *)

CreateRole(s) ==
    LET new == {r \in DOMAIN role : role[r] = 0} IN
    /\ Alone("role") /\ s \in scens /\ new # {}
    /\ role' = [role EXCEPT ![Least(new)] = s]
    /\ UNCHANGED <<scens, made, active, step, link, state, ghosts>>

\* DELETE roles: 409 while a step refers to it.
AskDeleteRole(h, r) ==
    /\ role[r] > 0 /\ StepsBy(r) = {}
    /\ Begins(h, [Free EXCEPT !.at = "role", !.num = r])
    /\ UNCHANGED <<script, link, state, stagePart, ghosts>>

\* Steps it was given meanwhile go with it (CASCADE), links forget it (SET NULL).
DeleteRole(h) ==
    LET r == editor[h].num
        T == StepsBy(r)
    IN /\ editor[h].at = "role"
       /\ role' = [role EXCEPT ![r] = Gone]
       /\ step' = [t \in DOMAIN step |->
                     IF t \in T THEN [NoStep EXCEPT !.of = Gone]
                     ELSE IF step[t].reply \in T THEN [step[t] EXCEPT !.reply = 0] ELSE step[t]]
       /\ link' = [p \in Players |-> IF link[p].role = r THEN [link[p] EXCEPT !.role = 0]
                                     ELSE link[p]]
       /\ lost' = lost \cup T
       /\ Ends(h)
       /\ UNCHANGED <<scens, made, active, state, stagePart, adrift, late, recut>>

Doomed(r) == \E h \in Editors : editor[h].at = "role" /\ editor[h].num = r

\* POST steps: role and the step it answers, if any, are of the same scenario.
CreateStep(r, q) ==
    LET new == {t \in DOMAIN step : step[t].of = 0} IN
    /\ Alone("step") /\ role[r] > 0 /\ new # {}
    /\ q \in StepsOf(role[r]) \cup {0}
    /\ step' = [step EXCEPT ![Least(new)] = [of |-> role[r], role |-> r, reply |-> q]]
    /\ late' = IF Doomed(r) THEN late \cup {Least(new)} ELSE late
    /\ UNCHANGED <<scens, made, active, role, link, state, adrift, lost, recut>>

\* PATCH steps: another role, or another step to answer but not itself; answers in a circle pass.
PatchStep(t, r, q) ==
    /\ Alone("step") /\ step[t].of > 0 /\ role[r] = step[t].of
    /\ q \in (StepsOf(step[t].of) \ {t}) \cup {0}
    /\ <<r, q>> # <<step[t].role, step[t].reply>>
    /\ step' = [step EXCEPT ![t].role = r, ![t].reply = q]
    /\ late' = IF Doomed(r) /\ r # step[t].role THEN late \cup {t} ELSE late
    /\ recut' = IF r # step[t].role /\ \E c \in cues : c.step = t THEN recut \cup {t} ELSE recut
    /\ UNCHANGED <<scens, made, active, role, link, state, adrift, lost>>

\* DELETE steps: answers to it become plain lines.
DeleteStep(t) ==
    /\ Alone("step") /\ step[t].of > 0
    /\ step' = [u \in DOMAIN step |->
                  IF u = t THEN [NoStep EXCEPT !.of = Gone]
                  ELSE IF step[u].reply = t THEN [step[u] EXCEPT !.reply = 0] ELSE step[u]]
    /\ UNCHANGED <<scens, made, active, role, link, state, ghosts>>
-----------------------------------------------------------------------------
(* Accounts *)

\* POST and PATCH accounts: the role is one of the active scenario, whosever that is.
AskPin(h, p, r, reserve) ==
    /\ r = Foreign => active = Foreign
    /\ r > 0 => active # 0 /\ role[r] = active
    /\ Begins(h, [Free EXCEPT !.at = "pin", !.num = r, !.who = p, !.reserve = reserve])
    /\ UNCHANGED <<script, link, state, stagePart, ghosts>>

\* The role may be gone by then: the foreign key refuses.
Pin(h) ==
    LET e == editor[h] IN
    /\ e.at = "pin"
    /\ link' = IF e.num > 0 /\ role[e.num] <= 0 THEN link
               ELSE [link EXCEPT ![e.who] = [as |-> IF e.reserve THEN "reserve" ELSE "primary",
                                             role |-> e.num]]
    /\ Ends(h)
    /\ UNCHANGED <<script, state, stagePart, ghosts>>

Detach(p) ==
    /\ Alone("pin") /\ link[p].as # "out"
    /\ link' = [link EXCEPT ![p] = Outside]
    /\ UNCHANGED <<script, state, ghosts>>

\* A request that fails (a lock, the connection) changes nothing.
Fails(h) ==
    /\ editor[h].at # "idle" /\ Ends(h)
    /\ UNCHANGED <<script, link, state, stagePart, ghosts>>
-----------------------------------------------------------------------------
(* Start *)

\* Mutant: reserves count.
ReadyWithReserves ==
    /\ Playing # 0 /\ RolesOf(Playing) # {}
    /\ StepsOf(Playing) # {}
    /\ \A r \in RolesOf(Playing) : \E t \in StepsOf(Playing) : step[t].role = r
    /\ Cardinality({p \in Players : link[p].as # "out"}) >= Persons

\* compute_readiness, given a target: roles, messages, a line for every role, enough accounts.
Ready ==
    /\ Playing # 0 /\ RolesOf(Playing) # {}
    /\ StepsOf(Playing) # {}
    /\ \A r \in RolesOf(Playing) : \E t \in StepsOf(Playing) : step[t].role = r
    /\ Cardinality(Primary) >= Persons

\* _validate_ready of the worker.
WorkerReady ==
    /\ Playing # 0
    /\ StepsOf(Playing) # {}
    /\ Cardinality(Primary) >= Persons

\* start: an edit between the check and the commit is one right after it.
Start ==
    /\ state = "off" /\ Ready /\ state' = "starting"
    /\ UNCHANGED <<script, link, editor, stagePart, ghosts, changes>>

\* start_campaign: checks again, schedules the targets or ends in status error.
Opens ==
    /\ state = "starting"
    /\ state' = IF WorkerReady THEN "running" ELSE "off"
    /\ UNCHANGED <<script, link, editor, stagePart, ghosts, changes>>

\* PATCH campaigns with a status: no check, no task.
SetRunning ==
    /\ Alone("patch") /\ state = "off" /\ state' = "running"
    /\ UNCHANGED <<script, link, ghosts>>

Stop ==
    /\ state # "off" /\ state' = "off"
    /\ UNCHANGED <<script, link, editor, stagePart, ghosts, changes>>
-----------------------------------------------------------------------------
(* A dialog *)

Holders(r) == {p \in Primary : link[p].role = r}
Starts(s, r) == Least({t \in StepsOf(s) : step[t].role = r})

\* Mutant: an account that has a role may get another.
LineupsWithRepeats(s) ==
    {f \in [{step[t].role : t \in StepsOf(s)} -> Primary \cup {Unplayed}] :
        \A r \in DOMAIN f : IF Holders(r) # {} THEN f[r] \in Holders(r) ELSE f[r] # Unplayed}

\* _assign_lineup: a role goes to an account pinned to it, the others, in the order they speak,
\* to the accounts left over, while there are any.
Lineups(s) ==
    {f \in [{step[t].role : t \in StepsOf(s)} -> Primary \cup {Unplayed}] :
        /\ \A r, q \in DOMAIN f : r # q /\ f[r] = f[q] => f[r] = Unplayed
        /\ \A r \in DOMAIN f :
              IF Holders(r) # {} THEN f[r] \in Holders(r)
              ELSE f[r] = Unplayed =>
                      /\ \A p \in Primary : \E q \in DOMAIN f : f[q] = p
                      /\ \A q \in DOMAIN f :
                            Holders(q) = {} /\ Starts(s, q) > Starts(s, r) => f[q] = Unplayed}

\* process_target: the steps there are now, each with the account that will say it.
Plan ==
    /\ state = "running" /\ plays < MaxPlays /\ Playing # 0 /\ Primary # {}
    /\ \E f \in Lineups(Playing) :
          cues' = cues \cup {[play |-> plays + 1, step |-> t, by |-> f[step[t].role]] :
                                t \in {u \in StepsOf(Playing) : f[step[u].role] # Unplayed}}
    /\ plays' = plays + 1
    /\ UNCHANGED <<script, link, state, editor, said, ghosts, changes>>

\* execute_step: the campaign runs and the step is there; its role is the one it has now.
Say(c) ==
    /\ c \in cues /\ cues' = cues \ {c}
    /\ said' = IF state # "off" /\ step[c.step].of > 0
               THEN said \cup {[play |-> c.play, step |-> c.step, of |-> step[c.step].of,
                                role |-> step[c.step].role, by |-> c.by]}
               ELSE said
    /\ UNCHANGED <<script, link, state, editor, plays, ghosts, changes>>

ScenariosNext ==
    \/ Start \/ Opens \/ SetRunning \/ Stop \/ Plan
    \/ \E h \in Editors :
          \/ AskAdd(h) \/ Add(h) \/ AskPut(h) \/ Put(h) \/ Delete(h) \/ DeleteRole(h) \/ Pin(h)
          \/ Fails(h)
          \/ \E s \in 1..MaxScenarios : AskDelete(h, s)
          \/ \E r \in 1..MaxRoles : AskDeleteRole(h, r)
          \/ \E p \in Players, r \in {Foreign} \cup 0..MaxRoles, reserve \in BOOLEAN :
                AskPin(h, p, r, reserve)
    \/ \E s \in 1..MaxScenarios : Activate(s) \/ CreateRole(s)
    \/ \E s \in {Foreign} \cup 0..MaxScenarios : Repoint(s)
    \/ \E r \in 1..MaxRoles, q \in 0..MaxSteps :
          \/ CreateStep(r, q)
          \/ \E t \in 1..MaxSteps : PatchStep(t, r, q)
    \/ \E t \in 1..MaxSteps : DeleteStep(t)
    \/ \E p \in Players : Detach(p)
    \/ \E c \in cues : Say(c)

ScenariosSpec == ScenariosInit /\ [][ScenariosNext]_sceneVars
-----------------------------------------------------------------------------
ScenariosTypeOK ==
    /\ scens \subseteq 1..made /\ made \in 1..MaxScenarios /\ active \in {Foreign} \cup 0..made
    /\ \A r \in 1..MaxRoles : role[r] \in {Gone, 0} \cup scens
    /\ \A t \in 1..MaxSteps : step[t].of \in {Gone, 0} \cup scens /\ step[t].reply \in 0..MaxSteps
    /\ \A p \in Players : link[p].as \in {"out", "primary", "reserve"}
    /\ \A h \in Editors : editor[h].at \in {"idle", "add", "put", "delete", "role", "pin"}
    /\ state \in {"off", "starting", "running"} /\ plays \in 0..MaxPlays

\* A campaign that has scenarios has an active one, which is its own, unless a PATCH of the
\* campaign set another, or none, and nothing was activated since; or a deletion hit a
\* scenario that was made active after the deletion had looked at it, or took the last one
\* while another, not meant to be active beside it, was being made.
OneIsActive ==
    /\ ~adrift => active \in scens \/ (active = 0 /\ scens = {})
    /\ active \in scens \cup {0, Foreign}

\* Rows refer to rows of the same scenario: a step to a role and to a step that are there, a
\* link to a role that is there.
RowsRefer ==
    /\ \A t \in 1..MaxSteps : step[t].of > 0 =>
          /\ role[step[t].role] = step[t].of
          /\ step[t].reply # 0 => step[step[t].reply].of = step[t].of
    /\ \A p \in Players : link[p].role > 0 => role[link[p].role] > 0

\* No step goes with its role but one that the role was given while it was being deleted.
NoStepLost == lost \subseteq late

\* What the panel finds ready the worker does not refuse.
ReadyIsReady == Ready => WorkerReady

\* A campaign that is ready, with no more roles than persons_count says, leaves no line out.
EveryRolePlayed ==
    Ready /\ Cardinality(RolesOf(Playing)) <= 2
        => \A f \in Lineups(Playing) : \A r \in DOMAIN f : f[r] # Unplayed

\* In a dialog a role has one voice and an account one role, and all lines are of one scenario,
\* whatever was activated, replaced or pinned meanwhile; only a step that was given to another
\* role while it waited is said by the account of its old one.
OneVoiceEach == \A x, y \in said : x.play = y.play =>
    /\ x.of = y.of
    /\ {x.step, y.step} \cap recut = {} => (x.role = y.role <=> x.by = y.by)

ScenariosKept == OneIsActive /\ RowsRefer /\ NoStepLost /\ ReadyIsReady /\ EveryRolePlayed
                 /\ OneVoiceEach
=============================================================================

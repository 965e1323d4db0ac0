-------------------------- MODULE AccountLifecycle --------------------------
(***************************************************************************)
(* The life of a Telegram account row: the transition table of             *)
(* core/state_machine/account.py, the operations that drive it (login,     *)
(* warming, health monitor, cooldown cron, autopilot, account endpoints,   *)
(* abandoned-login sweep) and the commenting campaigns accounts are        *)
(* attached to.                                                            *)
(*                                                                         *)
(* Every operation is a database session that first READS (account rows,   *)
(* links) and later WRITES and commits.  AccountStateMachine.transition    *)
(* takes no row lock, and SQLAlchemy's UPDATE carries only the columns     *)
(* whose value changed against what the session read.  With one element in *)
(* Sessions the sessions are serial; with two, an API process and the      *)
(* worker process interleave between the read and the commit.              *)
(***************************************************************************)
EXTENDS Naturals, FiniteSets

CONSTANTS
    Accounts,   \* account ids
    Campaigns,  \* commenting campaign ids (the containers)
    Sessions,   \* concurrently open database sessions of the API and the worker
    NULL        \* SQL NULL

ASSUME NullAssumption == NULL \notin Campaigns \cup Sessions \cup {"created", "warming", "pool", "assigned",
                             "cooldown", "retired", "banned"}

VARIABLES
    acct,       \* accounts table: id -> row
    links,      \* commenting.campaign_accounts: set of <<campaign, account>>
    campaigns,  \* ids in commenting.campaigns
    lastTo,     \* to_status of the newest account_status_history row, NULL if none
    attached,   \* what the API has answered: 201 to an attach, no 204 to a detach since
    tx          \* what each session has read and still has to do

vars == <<acct, links, campaigns, lastTo, attached, tx>>
-----------------------------------------------------------------------------
\* "absent" and "deleted" stand for no row; ids are not reused.
Statuses == {"created", "warming", "pool", "assigned", "cooldown", "retired", "banned"}
NoRow == {"absent", "deleted"}
\* cooldown_until against the clock: NULL, in the future, in the past.
Untils == {"none", "running", "elapsed"}
Rows == [status: Statuses \cup NoRow, prev: {NULL, "pool", "assigned"},
         container: Campaigns \cup {NULL}, until: Untils]

FreshRow(status) ==
    [status |-> status, prev |-> NULL, container |-> NULL, until |-> "none"]

Alive(a) == acct[a].status \in Statuses

\* The transition table.  when = "any" or the previous_status the guard asks for.
WarmingRules ==
    {[event |-> "warming.start", from |-> {"created"}, to |-> "warming",
      effect |-> "none", when |-> "any"],
     [event |-> "warming.completed", from |-> {"warming"}, to |-> "pool",
      effect |-> "none", when |-> "any"]}

ContainerRules ==
    {[event |-> "container.attach", from |-> {"pool", "warming", "cooldown", "created"},
      to |-> "assigned", effect |-> "attach_container", when |-> "any"],
     [event |-> "container.detach", from |-> {"assigned"}, to |-> "pool",
      effect |-> "detach_container", when |-> "any"]}

\* Mutants: warming accounts may cool down; no way back to assigned.
IncidentWhileWarming ==
    {[event |-> "health.incident", from |-> {"warming", "pool", "assigned"}, to |-> "cooldown",
      effect |-> "enter_cooldown", when |-> "any"],
     [event |-> "cooldown.expired", from |-> {"cooldown"}, to |-> "pool",
      effect |-> "exit_cooldown", when |-> "pool"]}
NoReturnToAssigned ==
    {[event |-> "health.incident", from |-> {"pool", "assigned"}, to |-> "cooldown",
      effect |-> "enter_cooldown", when |-> "any"],
     [event |-> "cooldown.expired", from |-> {"cooldown"}, to |-> "pool",
      effect |-> "exit_cooldown", when |-> "pool"]}

CooldownRules ==
    {[event |-> "health.incident", from |-> {"pool", "assigned"}, to |-> "cooldown",
      effect |-> "enter_cooldown", when |-> "any"],
     [event |-> "cooldown.expired", from |-> {"cooldown"}, to |-> "pool",
      effect |-> "exit_cooldown", when |-> "pool"],
     [event |-> "cooldown.expired", from |-> {"cooldown"}, to |-> "assigned",
      effect |-> "exit_cooldown", when |-> "assigned"]}

\* Mutant: retiring keeps the container.
RetireKeepsContainer ==
    {[event |-> "account.retire",
      from |-> {"created", "warming", "pool", "assigned", "cooldown"},
      to |-> "retired", effect |-> "none", when |-> "any"]}

RetireRules ==
    {[event |-> "account.retire",
      from |-> {"created", "warming", "pool", "assigned", "cooldown"},
      to |-> "retired", effect |-> "detach_container", when |-> "any"]}

\* Mutant: a banned account can be restored without acknowledging the ban.
RestoreFromBan ==
    {[event |-> "health.ban_detected", from |-> Statuses \ {"banned"}, to |-> "banned",
      effect |-> "detach_container", when |-> "any"],
     [event |-> "account.restore", from |-> {"retired", "banned"}, to |-> "pool",
      effect |-> "none", when |-> "any"]}

BanRules ==
    {[event |-> "health.ban_detected", from |-> Statuses \ {"banned"}, to |-> "banned",
      effect |-> "detach_container", when |-> "any"],
     [event |-> "account.acknowledge_ban", from |-> {"banned"}, to |-> "retired",
      effect |-> "none", when |-> "any"],
     [event |-> "account.restore", from |-> {"retired"}, to |-> "pool",
      effect |-> "none", when |-> "any"]}

Transitions == WarmingRules \cup ContainerRules \cup CooldownRules \cup RetireRules \cup BanRules

\* The guards _prev_is(pool) and _prev_assigned_with_container.
Guard(rule, row) ==
    \/ rule.when = "any"
    \/ rule.when = "pool" /\ row.prev = "pool"
    \/ rule.when = "assigned" /\ row.prev = "assigned" /\ row.container # NULL

\* The rules that let `event` fire on `row`; transition() raises unless there is one.
Resolve(event, row) ==
    {r \in Transitions : r.event = event /\ row.status \in r.from /\ Guard(r, row)}

\* Mutants: the incident forgets where the account was, or leaves it without a date.
EnterWithoutPrevious(rule, row, c) ==
    [status |-> rule.to,
     prev |-> IF rule.effect = "exit_cooldown" THEN NULL ELSE row.prev,
     container |-> IF rule.effect = "attach_container" THEN c
                   ELSE IF rule.effect = "detach_container" THEN NULL ELSE row.container,
     until |-> IF rule.effect = "enter_cooldown" THEN "running"
               ELSE IF rule.effect = "exit_cooldown" THEN "none" ELSE row.until]

ApplyEffects(rule, row, c) ==
    [status |-> rule.to,
     prev |-> IF rule.effect = "enter_cooldown" THEN row.status
              ELSE IF rule.effect = "exit_cooldown" THEN NULL ELSE row.prev,
     container |-> IF rule.effect = "attach_container" THEN c
                   ELSE IF rule.effect = "detach_container" THEN NULL ELSE row.container,
     until |-> IF rule.effect = "enter_cooldown" THEN "running"
               ELSE IF rule.effect = "exit_cooldown" THEN "none" ELSE row.until]

\* Mutants: the status is written only over the status read; a date is written only
\* where the session read none.
StatusOnlyOverRead(rule, old, new, cur) ==
    [new EXCEPT !.status = IF cur.status = old.status THEN new.status ELSE cur.status]
DateOnlyOnce(rule, old, new, cur) ==
    [status |-> IF new.status # old.status THEN new.status ELSE cur.status,
     prev |-> IF new.prev # old.prev THEN new.prev ELSE cur.prev,
     container |-> IF new.container # old.container THEN new.container ELSE cur.container,
     until |-> IF old.until = "none" THEN new.until ELSE
               IF new.until = "none" THEN "none" ELSE cur.until]

\* The row after the UPDATE: of the columns of `new` only those that differ from
\* what the session read (`old`) are written over the row of the database (`cur`);
\* a new cooldown_until is a new timestamp and always differs.
Merge(rule, old, new, cur) ==
    [status |-> IF new.status # old.status THEN new.status ELSE cur.status,
     prev |-> IF new.prev # old.prev THEN new.prev ELSE cur.prev,
     container |-> IF new.container # old.container THEN new.container ELSE cur.container,
     until |-> IF new.until # old.until \/ rule.effect = "enter_cooldown"
               THEN new.until ELSE cur.until]
-----------------------------------------------------------------------------
\* Events raised one account at a time: login (warming.start, also the autopilot),
\* warming tick, health monitor, account endpoints; release is container.detach
\* raised by its own endpoint, with no campaign involved.
SingleEvents ==
    {"warming.start", "warming.completed", "health.incident", "health.ban_detected",
     "account.retire", "account.restore", "account.acknowledge_ban", "container.detach"}
Ops == SingleEvents \cup {"idle", "cooldown.expired", "attach", "detach", "delete", "sweep"}

\* What a session holds: the call, its campaign, the accounts still to handle, the
\* rows as read, and the links removed (with the new container) but not committed.
Txs == [op: Ops, camp: Campaigns \cup {NULL}, todo: SUBSET Accounts,
        snap: UNION {[S -> Rows] : S \in SUBSET Accounts},
        moved: SUBSET [acct: Accounts, to: Campaigns \cup {NULL}]]

Idle == [op |-> "idle", camp |-> NULL, todo |-> {}, snap |-> [a \in {} |-> NULL],
         moved |-> {}]

Opened(op, c, todo) ==
    [op |-> op, camp |-> c, todo |-> todo, snap |-> [a \in todo |-> acct[a]],
     moved |-> {}]

\* The session has dealt with account a; with nothing left it is closed.
Rest(t, a) == IF t.todo = {a} THEN Idle ELSE [t EXCEPT !.todo = @ \ {a}]

\* Row locks held across steps.  detach_account flushes the DELETE of the link before
\* it reads the account, and a campaign deletion keeps flushed writes until its next
\* commit: whoever else removes that link, or writes that account row, waits.
LinkLocked(s, c, a) ==
    \E r \in Sessions \ {s} :
        /\ tx[r].camp = c
        /\ \/ tx[r].op = "detach" /\ a \in tx[r].todo
           \/ tx[r].op = "delete" /\ \E m \in tx[r].moved : m.acct = a
RowLocked(s, a) == \E r \in Sessions \ {s} : \E m \in tx[r].moved : m.acct = a /\ m.to # NULL

LinksOf(a) == {c \in Campaigns : <<c, a>> \in links}
Linked(c) == {a \in Accounts : <<c, a>> \in links}

Init ==
    /\ acct = [a \in Accounts |-> FreshRow("absent")]
    /\ links = {}
    /\ campaigns = Campaigns
    /\ lastTo = [a \in Accounts |-> NULL]
    /\ attached = {}
    /\ tx = [s \in Sessions |-> Idle]
-----------------------------------------------------------------------------
\* Accounts appear: by phone (created) or imported with a live session (pool);
\* neither writes a history row.
CreateAccount(a, status) ==
    /\ acct[a].status = "absent"
    /\ acct' = [acct EXCEPT ![a] = FreshRow(status)]
    /\ UNCHANGED <<links, campaigns, lastTo, attached, tx>>

\* DELETE /accounts/{id}: links and history go by ON DELETE CASCADE.
Erase(a) ==
    /\ acct' = [acct EXCEPT ![a] = FreshRow("deleted")]
    /\ links' = links \ (Campaigns \X {a})
    /\ attached' = attached \ (Campaigns \X {a})
    /\ lastTo' = [lastTo EXCEPT ![a] = NULL]
    /\ UNCHANGED campaigns

DeleteAccount(a) ==
    /\ Alive(a)
    /\ \A c \in Campaigns : ~LinkLocked(NULL, c, a)
    /\ Erase(a)
    /\ UNCHANGED tx

\* Time reaches cooldown_until.
CooldownElapses(a) ==
    /\ acct[a].until = "running"
    /\ acct' = [acct EXCEPT ![a].until = "elapsed"]
    /\ UNCHANGED <<links, campaigns, lastTo, attached, tx>>
-----------------------------------------------------------------------------
\* transition(): read the row and find the rule.  A refused event raises
\* TransitionError and changes nothing, so it is a stuttering step.
RequestTransition(s, event, a) ==
    /\ tx[s] = Idle
    /\ Resolve(event, acct[a]) # {}
    /\ tx' = [tx EXCEPT ![s] = Opened(event, NULL, {a})]
    /\ UNCHANGED <<acct, links, campaigns, lastTo, attached>>

\* cooldown_return: one query loads every expired account, then the loop uses
\* those objects (the session does not expire them on commit).
StartCooldownReturn(s) ==
    LET expired == {a \in Accounts : acct[a].status = "cooldown" /\ acct[a].until = "elapsed"}
    IN  /\ tx[s] = Idle
        /\ expired # {}
        /\ tx' = [tx EXCEPT ![s] = Opened("cooldown.expired", NULL, expired)]
        /\ UNCHANGED <<acct, links, campaigns, lastTo, attached>>

\* Mutant: the history row names the status left instead of the one entered.
HistoryNamesOld(s, a, rule, old, c) ==
    /\ ~RowLocked(s, a)
    /\ acct' = [acct EXCEPT ![a] = Merge(rule, old, ApplyEffects(rule, old, c), @)]
    /\ lastTo' = [lastTo EXCEPT ![a] = old.status]

\* The UPDATE of one account row and its history row.
Write(s, a, rule, old, c) ==
    /\ ~RowLocked(s, a)
    /\ acct' = [acct EXCEPT ![a] = Merge(rule, old, ApplyEffects(rule, old, c), @)]
    /\ lastTo' = [lastTo EXCEPT ![a] = rule.to]

CommitTransition(s, a) ==
    /\ tx[s].op \in SingleEvents \cup {"cooldown.expired"}
    /\ a \in tx[s].todo
    /\ Alive(a)
    /\ \E rule \in Transitions :
          /\ Resolve(tx[s].op, tx[s].snap[a]) = {rule}
          /\ Write(s, a, rule, tx[s].snap[a], NULL)
    /\ tx' = [tx EXCEPT ![s] = Rest(@, a)]
    /\ UNCHANGED <<links, campaigns, attached>>

\* No rule, or the row is gone (UPDATE matches nothing): the exception ends the
\* whole call, and in cooldown_return the rest of the loop with it.
AbortTransition(s, a) ==
    /\ tx[s].op \in SingleEvents \cup {"cooldown.expired"}
    /\ a \in tx[s].todo
    /\ ~Alive(a) \/ \A rule \in Transitions : Resolve(tx[s].op, tx[s].snap[a]) # {rule}
    /\ tx' = [tx EXCEPT ![s] = Idle]
    /\ UNCHANGED <<acct, links, campaigns, lastTo, attached>>
-----------------------------------------------------------------------------
\* attach_account: its checks, on what the session reads.
RequestAttach(s, c, a) ==
    /\ tx[s] = Idle
    /\ c \in campaigns
    /\ Alive(a)
    /\ acct[a].status \notin {"banned", "retired"}
    /\ <<c, a>> \notin links
    /\ tx' = [tx EXCEPT ![s] = Opened("attach", c, {a})]
    /\ UNCHANGED <<acct, links, campaigns, lastTo, attached>>

\* Primary and foreign keys of campaign_accounts; IntegrityError -> 409.
Insertable(c, a) == c \in campaigns /\ Alive(a) /\ <<c, a>> \notin links

\* Link and transition are committed together and the answer is 201.
CommitAttach(s, c, a) ==
    /\ tx[s].op = "attach" /\ tx[s].camp = c /\ a \in tx[s].todo
    /\ tx[s].snap[a].status # "assigned"
    /\ Insertable(c, a)
    /\ \E rule \in Transitions :
          /\ Resolve("container.attach", tx[s].snap[a]) = {rule}
          /\ Write(s, a, rule, tx[s].snap[a], c)
    /\ links' = links \cup {<<c, a>>}
    /\ attached' = attached \cup {<<c, a>>}
    /\ tx' = [tx EXCEPT ![s] = Idle]
    /\ UNCHANGED campaigns

\* The account was read as assigned: the link is flushed, nobody commits, and
\* get_session closes the session - the INSERT is rolled back, the answer is 201.
FlushAttach(s, c, a) ==
    /\ tx[s].op = "attach" /\ tx[s].camp = c /\ a \in tx[s].todo
    /\ tx[s].snap[a].status = "assigned"
    /\ Insertable(c, a)
    /\ attached' = attached \cup {<<c, a>>}
    /\ tx' = [tx EXCEPT ![s] = Idle]
    /\ UNCHANGED <<acct, links, campaigns, lastTo>>

RefuseAttach(s, c, a) ==
    /\ tx[s].op = "attach" /\ tx[s].camp = c /\ a \in tx[s].todo
    /\ ~Insertable(c, a)
    /\ tx' = [tx EXCEPT ![s] = Idle]
    /\ UNCHANGED <<acct, links, campaigns, lastTo, attached>>

\* detach_account of the last link; from any status but assigned it answers 409.
RequestDetach(s, c, a) ==
    /\ tx[s] = Idle
    /\ LinksOf(a) = {c}
    /\ ~LinkLocked(s, c, a)
    /\ Resolve("container.detach", acct[a]) # {}
    /\ tx' = [tx EXCEPT ![s] = Opened("detach", c, {a})]
    /\ UNCHANGED <<acct, links, campaigns, lastTo, attached>>

CommitDetach(s, c, a) ==
    /\ tx[s].op = "detach" /\ tx[s].camp = c /\ a \in tx[s].todo
    /\ Alive(a)
    /\ \E rule \in Transitions :
          /\ Resolve("container.detach", tx[s].snap[a]) = {rule}
          /\ Write(s, a, rule, tx[s].snap[a], NULL)
    /\ links' = links \ {<<c, a>>}
    /\ attached' = attached \ {<<c, a>>}
    /\ tx' = [tx EXCEPT ![s] = Idle]
    /\ UNCHANGED campaigns

\* detach_account with other links left only flushes: it answers 204 and the
\* database keeps the link.
FlushDetach(c, a) ==
    /\ c \in LinksOf(a) /\ LinksOf(a) # {c}
    /\ ~LinkLocked(NULL, c, a)
    /\ attached' = attached \ {<<c, a>>}
    /\ UNCHANGED <<acct, links, campaigns, lastTo, tx>>
-----------------------------------------------------------------------------
\* DELETE /campaigns/{id}: detach_account for every link in one session, then the
\* campaign itself.  An iteration reads and writes in one step here.
RequestDelete(s, c) ==
    /\ tx[s] = Idle
    /\ c \in campaigns
    /\ tx' = [tx EXCEPT ![s] = [Opened("delete", c, Linked(c)) EXCEPT !.snap = Idle.snap]]
    /\ UNCHANGED <<acct, links, campaigns, lastTo, attached>>

\* Mutant: the leading container stays with the deleted link.
KeepsContainer(table, moved) == table

\* Pending (flushed) writes of the session: deleted links, reassigned containers.
Reassigned(table, moved) ==
    [a \in Accounts |->
        IF \E m \in moved : m.acct = a /\ m.to # NULL
        THEN [table[a] EXCEPT !.container = (CHOOSE m \in moved : m.acct = a /\ m.to # NULL).to]
        ELSE table[a]]
Unlinked(c, moved) == links \ {<<c, m.acct>> : m \in moved}

\* Last link of an assigned account: the transition commits, with all that was pending.
DeleteDetach(s, a) ==
    LET c == tx[s].camp IN
    /\ tx[s].op = "delete" /\ a \in tx[s].todo
    /\ LinksOf(a) \ {c} = {} /\ ~LinkLocked(s, c, a) /\ ~RowLocked(s, a)
    /\ \E rule \in Resolve("container.detach", acct[a]) :
          /\ acct' = [Reassigned(acct, tx[s].moved) EXCEPT ![a] = ApplyEffects(rule, @, NULL)]
          /\ lastTo' = [lastTo EXCEPT ![a] = rule.to]
    /\ links' = Unlinked(c, tx[s].moved) \ {<<c, a>>}
    /\ attached' = attached \ {<<c, a>>}
    /\ tx' = [tx EXCEPT ![s].todo = @ \ {a}, ![s].moved = {}]
    /\ UNCHANGED campaigns

\* Other links left: the removal, and the move of the leading container to one of
\* the other campaigns, wait for the next commit of the session.
DeleteFlush(s, a) ==
    LET c == tx[s].camp IN
    /\ tx[s].op = "delete" /\ a \in tx[s].todo
    /\ ~LinkLocked(s, c, a) /\ ~RowLocked(s, a)
    /\ \E d \in LinksOf(a) \ {c} :
          tx' = [tx EXCEPT ![s].todo = @ \ {a},
                           ![s].moved = @ \cup {[acct |-> a,
                               to |-> IF acct[a].container = c THEN d ELSE NULL]}]
    /\ UNCHANGED <<acct, links, campaigns, lastTo, attached>>

\* Last link but the account is not assigned (cooldown, banned, ...): the refused
\* transition rolls the session back - pending writes included - and the loop goes on.
DeleteSkip(s, a) ==
    /\ tx[s].op = "delete" /\ a \in tx[s].todo
    /\ LinksOf(a) \ {tx[s].camp} = {} /\ ~LinkLocked(s, tx[s].camp, a)
    /\ Resolve("container.detach", acct[a]) = {}
    /\ tx' = [tx EXCEPT ![s].todo = @ \ {a}, ![s].moved = {}]
    /\ UNCHANGED <<acct, links, campaigns, lastTo, attached>>

\* The link was removed by someone else since it was listed.  Its DELETE finding no
\* row is only a warning (the iterations above), but after a rollback has expired the
\* listed objects, reading the link raises and ends the request; the campaign stays.
DeleteFails(s, a) ==
    /\ tx[s].op = "delete" /\ a \in tx[s].todo
    /\ tx[s].camp \notin LinksOf(a)
    /\ tx' = [tx EXCEPT ![s] = Idle]
    /\ UNCHANGED <<acct, links, campaigns, lastTo, attached>>

\* DELETE of the campaign row cascades to its links; nothing looks at
\* accounts.assigned_container_id, which has no foreign key.
FinishDelete(s) ==
    LET c == tx[s].camp IN
    /\ tx[s].op = "delete" /\ tx[s].todo = {}
    /\ \A a \in Accounts : ~LinkLocked(s, c, a)
    /\ acct' = Reassigned(acct, tx[s].moved)
    /\ campaigns' = campaigns \ {c}
    /\ links' = links \ ({c} \X Accounts)
    /\ attached' = attached \ ({c} \X Accounts)
    /\ tx' = [tx EXCEPT ![s] = Idle]
    /\ UNCHANGED lastTo
-----------------------------------------------------------------------------
\* sweep_abandoned_logins: list accounts still created (which of them are older
\* than the TTL is left open), then delete them one commit at a time.
StartSweep(s) ==
    /\ tx[s] = Idle
    /\ \E stale \in SUBSET {a \in Accounts : acct[a].status = "created"} :
          /\ stale # {}
          /\ tx' = [tx EXCEPT ![s] = Opened("sweep", NULL, stale)]
    /\ UNCHANGED <<acct, links, campaigns, lastTo, attached>>

SweepOne(s, a) ==
    /\ tx[s].op = "sweep" /\ a \in tx[s].todo
    /\ \A c \in Campaigns : ~LinkLocked(s, c, a)
    /\ IF Alive(a) THEN Erase(a) ELSE UNCHANGED <<acct, links, campaigns, lastTo, attached>>
    /\ tx' = [tx EXCEPT ![s] = Rest(@, a)]

\* The process dies: what is not committed is rolled back.
Crash(s) ==
    /\ tx[s] # Idle
    /\ tx' = [tx EXCEPT ![s] = Idle]
    /\ UNCHANGED <<acct, links, campaigns, lastTo, attached>>
-----------------------------------------------------------------------------
\* What an open session does next.
Progress(s) ==
    \/ \E a \in Accounts : \/ CommitTransition(s, a)
                           \/ AbortTransition(s, a)
                           \/ DeleteDetach(s, a)
                           \/ DeleteFlush(s, a)
                           \/ DeleteSkip(s, a)
                           \/ DeleteFails(s, a)
                           \/ SweepOne(s, a)
    \/ \E c \in Campaigns, a \in Accounts : \/ CommitAttach(s, c, a)
                                            \/ FlushAttach(s, c, a)
                                            \/ RefuseAttach(s, c, a)
                                            \/ CommitDetach(s, c, a)
    \/ FinishDelete(s)

Open(s) ==
    \/ \E a \in Accounts, event \in SingleEvents : RequestTransition(s, event, a)
    \/ \E c \in Campaigns, a \in Accounts : RequestAttach(s, c, a) \/ RequestDetach(s, c, a)
    \/ \E c \in Campaigns : RequestDelete(s, c)
    \/ StartSweep(s)
    \/ StartCooldownReturn(s)

Next ==
    \/ \E a \in Accounts : \/ \E status \in {"created", "pool"} : CreateAccount(a, status)
                           \/ DeleteAccount(a)
                           \/ CooldownElapses(a)
    \/ \E c \in Campaigns, a \in Accounts : FlushDetach(c, a)
    \/ \E s \in Sessions : Open(s) \/ Progress(s) \/ Crash(s)

Spec == Init /\ [][Next]_vars

\* Time passes, an open session goes on unless its process dies (and it does not
\* die every time), and the cron that returns accounts from cooldown gets its turn.
Fairness ==
    /\ \A a \in Accounts : WF_vars(CooldownElapses(a))
    /\ \A s \in Sessions : /\ SF_vars(StartCooldownReturn(s))
                           /\ \A a \in Accounts : SF_vars(CommitTransition(s, a))
                           /\ SF_vars(Progress(s))

FairSpec == Spec /\ Fairness
-----------------------------------------------------------------------------
(* Properties *)

\* Every table and every session holds what its columns admit.
TypeOK ==
    /\ acct \in [Accounts -> Rows]
    /\ links \subseteq Campaigns \X Accounts
    /\ attached \subseteq Campaigns \X Accounts
    /\ campaigns \subseteq Campaigns
    /\ lastTo \in [Accounts -> Statuses \cup {NULL}]
    /\ tx \in [Sessions -> Txs]
    /\ \A s \in Sessions : tx[s].op \notin {"idle", "delete"} => tx[s].todo \subseteq DOMAIN tx[s].snap

\* The newest history row of an account names the status the account is in, however
\* the sessions that wrote them interleave (status and history row of a transition are
\* one commit, and a transition always writes the status column).
HistoryTellsStatus == \A a \in Accounts : lastTo[a] # NULL => lastTo[a] = acct[a].status

\* assigned_container is set exactly while the account works for it: in `assigned`,
\* and in a cooldown that will return there (docs/PROJECT-STAGES.md:84-88).
ContainerIffWorking ==
    \A a \in Accounts :
        acct[a].container # NULL <=>
            \/ acct[a].status = "assigned"
            \/ acct[a].status = "cooldown" /\ acct[a].prev = "assigned"

\* An account in cooldown has a date and a rule that takes it back: were there none,
\* TransitionError would end the cron's loop at that account on every run
\* (worker/tasks/handlers.py:116-118).
CooldownHasWayBack ==
    \A a \in Accounts : acct[a].status = "cooldown" =>
        /\ acct[a].until # "none"
        /\ \E rule \in Transitions : Resolve("cooldown.expired", acct[a]) = {rule}

\* Whatever sessions interleave and whichever columns their UPDATEs carry, an account
\* in cooldown has a cooldown_until: without one the cron would never list it.
CooldownHasDate == \A a \in Accounts : acct[a].status = "cooldown" => acct[a].until # "none"

\* The container an account points at, while that campaign exists, is one the account
\* is linked to (the reassignment of modules/commenting/api/service.py:125-134).
ContainerIsLinked ==
    \A a \in Accounts :
        acct[a].container \in campaigns => <<acct[a].container, a>> \in links

\* A banned account leaves that status only by the user's acknowledgement (or with its
\* row); docs/PROJECT-STAGES.md:91.
BannedIsFinal ==
    [][\A a \in Accounts : acct[a].status = "banned" =>
          acct'[a].status \in {"banned", "retired", "deleted"}]_vars

\* Every cooldown ends: the cron gets to the account, whatever else is in its list.
CooldownEnds == \A a \in Accounts : acct[a].status = "cooldown" ~> acct[a].status # "cooldown"

\* An account is never assigned to a campaign that was deleted.
\* (modules/commenting/api/router.py:227-231)
AssignedCampaignExists ==
    \A a \in Accounts : acct[a].status = "assigned" => acct[a].container \in campaigns

\* A link the API confirmed with 201 is in the database until it is detached or
\* deleted (tests/test_commenting.py:145-177).
AttachIsDurable == attached \subseteq links
=============================================================================

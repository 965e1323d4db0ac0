------------------------------- MODULE Intake -------------------------------
(***************************************************************************)
(* Where accounts come from and the proxies they use: created, imported    *)
(* one by one or from an archive with a list (api/routers/accounts.py,     *)
(* api/services), given a proxy by hand or a free one of the pool          *)
(* (core/repositories/proxy_pool.py, modules/bulk/actions/assign_proxy.py),*)
(* while a cron job probes all proxies (worker/tasks/health.py) and        *)
(* proxies and accounts are deleted.                                       *)
(*                                                                         *)
(* Every request reads first and writes later, in a transaction of its     *)
(* own; an account is named by its telephone number, which is unique.      *)
(***************************************************************************)
EXTENDS Integers, FiniteSets

CONSTANTS
    Phones,        \* accounts
    ProxyIds,
    NoProxy,       \* ALLOW_NO_PROXY lets an account go without
    Countries,     \* of a proxy, ISO codes
    Clerks,        \* requests and tasks that may run at once
    AccountsMax,   \* the limit of the user's plan
    MaxOrders      \* bound on the requests

IntakeAssumption == /\ NoProxy \notin ProxyIds /\ AccountsMax \in Nat /\ MaxOrders \in Nat
                    /\ IsFiniteSet(Phones) /\ IsFiniteSet(Clerks)

VARIABLES
    proxy,      \* the rows of proxies
    accounts,   \* the rows of accounts: proxy, how it came, and whether the account is at work
    clerk,      \* what each running request does
    told,       \* proxy_down events since the row of the proxy last turned dead: account and proxy
    since,      \* accounts that came to their proxy, or to work, or whose proxy's status was
                \* edited, after the last verdict on the proxy
    raced,      \* proxies picked by two requests at once
    unlimited,  \* an account came with a list, or while another was being created
    cutShort,   \* a sweep ended early between a verdict and its events
    orders

intakeVars == <<proxy, accounts, clerk, told, since, raced, unlimited, cutShort, orders>>

Statuses == {"alive", "dead", "unchecked"}
Idle == [at |-> "idle", phone |-> "none", proxy |-> NoProxy, rows |-> {}, todo |-> {}]
Absent == [there |-> FALSE, proxy |-> NoProxy, via |-> "hand", works |-> FALSE]
Present == {a \in Phones : accounts[a].there}
OnProxy(p) == {a \in Present : accounts[a].proxy = p}
\* Those of _AFFECTED_STATUSES, assigned or in the pool.
AtWork(p) == {a \in OnProxy(p) : accounts[a].works}
There(p) == p \in {q \in ProxyIds : proxy[q].there} \cup {NoProxy}

IntakeInit ==
    /\ proxy = [p \in ProxyIds |-> [there |-> TRUE, status |-> "alive",
                                    geo |-> CHOOSE c \in Countries : TRUE]]
    /\ accounts = [a \in Phones |-> Absent]
    /\ clerk = [h \in Clerks |-> Idle]
    /\ told = {} /\ since = {} /\ raced = {} /\ unlimited = FALSE
    /\ cutShort = FALSE /\ orders = 0

Order(h, r) ==
    /\ clerk[h].at = "idle" /\ orders < MaxOrders
    /\ orders' = orders + 1
    /\ clerk' = [clerk EXCEPT ![h] = r]
Leaves(h) == clerk' = [clerk EXCEPT ![h] = Idle]
Calm == UNCHANGED <<raced, cutShort, orders>>
-----------------------------------------------------------------------------
(* One account *)

\* Mutant: the limit is reached before it is refused.
WithinOrAt == Cardinality(Present) <= AccountsMax

\* check_limit: the accounts there are now, all of them.
WithinLimit == Cardinality(Present) < AccountsMax

\* create_account and the two imports, up to the insert: the plan's limit, the proxy and the
\* number are read.
Begin(h, a, p) ==
    /\ Order(h, [Idle EXCEPT !.at = "insert", !.phone = a, !.proxy = p])
    /\ WithinLimit /\ There(p) /\ ~accounts[a].there
    /\ unlimited' = (unlimited \/ \E g \in Clerks : clerk[g].at = "insert")
    /\ UNCHANGED <<proxy, accounts, told, since, raced, cutShort>>

\* The row is inserted unless the number came in between or the proxy went.
Insert(h) ==
    /\ clerk[h].at = "insert"
    /\ LET a == clerk[h].phone
           p == clerk[h].proxy
       IN IF accounts[a].there \/ ~There(p) THEN UNCHANGED <<accounts, since>>
          ELSE /\ accounts' = [accounts EXCEPT ![a] = [Absent EXCEPT !.there = TRUE, !.proxy = p]]
               /\ since' = since \cup {a}
    /\ Leaves(h) /\ Calm
    /\ UNCHANGED <<proxy, told, unlimited>>
-----------------------------------------------------------------------------
(* A list of accounts *)

\* bulk_import: the plan's limit is not asked.
BeginImport(h, S) ==
    /\ S # {}
    /\ Order(h, [Idle EXCEPT !.at = "rows", !.rows = S])
    /\ UNCHANGED <<proxy, accounts, told, since, raced, unlimited, cutShort>>

\* A row that cannot be read, has no file, no proxy, or a number that is taken is skipped; the
\* others are created and committed.
ImportRow(h, a, p) ==
    /\ clerk[h].at = "rows" /\ a \in clerk[h].rows
    /\ LET r == [clerk[h] EXCEPT !.rows = @ \ {a}] IN
       \/ /\ clerk' = [clerk EXCEPT ![h] = r]
          /\ UNCHANGED <<accounts, since, unlimited>>
       \/ /\ There(p) /\ ~accounts[a].there
          /\ accounts' = [accounts EXCEPT ![a] = [Absent EXCEPT !.there = TRUE, !.proxy = p]]
          /\ since' = since \cup {a} /\ unlimited' = TRUE
          /\ clerk' = [clerk EXCEPT ![h] = [r EXCEPT !.at = "fields", !.phone = a]]
    /\ Calm
    /\ UNCHANGED <<proxy, told>>

\* Project, role and tags, in a commit nobody guards: a project that does not exist ends the
\* whole request, and the row just deleted as well.
ImportFields(h, known) ==
    /\ clerk[h].at = "fields"
    /\ IF known /\ accounts[clerk[h].phone].there
       THEN clerk' = [clerk EXCEPT ![h].at = "rows", ![h].phone = "none"]
       ELSE Leaves(h)
    /\ UNCHANGED <<proxy, accounts, told, since, raced, unlimited, cutShort, orders>>

\* The report.
EndImport(h) ==
    /\ clerk[h].at = "rows" /\ clerk[h].rows = {}
    /\ Leaves(h)
    /\ UNCHANGED <<proxy, accounts, told, since, raced, unlimited, cutShort, orders>>
-----------------------------------------------------------------------------
(* A proxy for an account *)

Alive(p) == proxy[p].there /\ proxy[p].status = "alive"

\* Mutant: whatever lives.
FreeIfAlive(geo) == {p \in ProxyIds : Alive(p) /\ proxy[p].geo \in geo}

\* pick_free_proxy and _pick_free_proxy: alive, used by nobody, of the country asked for.
FreeProxies(geo) == {p \in ProxyIds : Alive(p) /\ OnProxy(p) = {} /\ proxy[p].geo \in geo}

\* assign_proxy in pool mode, up to its commit.
PickFree(h, a, geo, p) ==
    /\ Order(h, [Idle EXCEPT !.at = "assign", !.phone = a, !.proxy = p])
    /\ accounts[a].there /\ p \in FreeProxies(geo)
    /\ raced' = IF \E g \in Clerks : clerk[g].at = "assign" /\ clerk[g].proxy = p
                THEN raced \cup {p} ELSE raced
    /\ UNCHANGED <<proxy, accounts, told, since, unlimited, cutShort>>

\* The account may be gone by then, or the proxy.
AssignFree(h) ==
    /\ clerk[h].at = "assign"
    /\ LET a == clerk[h].phone
           p == clerk[h].proxy
       IN IF ~accounts[a].there \/ ~There(p) THEN UNCHANGED <<accounts, since>>
          ELSE /\ accounts' = [accounts EXCEPT ![a].proxy = p, ![a].via = "pool"]
               /\ since' = since \cup {a}
    /\ Leaves(h) /\ Calm
    /\ UNCHANGED <<proxy, told, unlimited>>

\* assign_proxy in fixed mode and patch_account: any proxy there is, used or not.
AssignFixed(a, p) ==
    /\ orders < MaxOrders /\ orders' = orders + 1
    /\ accounts[a].there /\ There(p)
    /\ accounts' = [accounts EXCEPT ![a].proxy = p, ![a].via = "hand"]
    /\ since' = since \cup {a}
    /\ UNCHANGED <<proxy, clerk, told, raced, unlimited, cutShort>>
-----------------------------------------------------------------------------
(* The probes *)

\* check_proxies: the cron job or somebody's request; a request for one proxy probes them all,
\* as they were when the list was read.
Sweep(h) ==
    /\ Order(h, [Idle EXCEPT !.at = "probe",
                 !.todo = {<<p, proxy[p].status>> : p \in {q \in ProxyIds : proxy[q].there}}])
    /\ UNCHANGED <<proxy, accounts, told, since, raced, unlimited, cutShort>>

\* The events of an earlier death do not count for a later one.
StillTold(p) == IF proxy[p].status # "dead" /\ proxy'[p].status = "dead"
                THEN {e \in told : e[2] # p} ELSE told

\* The handshake answers or not, and the verdict is committed: a column that the session holds
\* with the same value already is not written.  A proxy that was deleted meanwhile updates no
\* row, which ends the sweep.
Verdict(h, p, seen, answers) ==
    LET verdict == IF answers THEN "alive" ELSE "dead" IN
    /\ clerk[h].at = "probe" /\ <<p, seen>> \in clerk[h].todo
    /\ IF ~proxy[p].there THEN Leaves(h) /\ UNCHANGED <<proxy, since>>
       ELSE /\ proxy' = IF verdict = seen THEN proxy ELSE [proxy EXCEPT ![p].status = verdict]
            /\ since' = IF answers /\ proxy'[p].status = "dead" THEN since ELSE since \ OnProxy(p)
            /\ clerk' = [clerk EXCEPT ![h].todo = @ \ {<<p, seen>>},
                             ![h].at = IF answers THEN "probe" ELSE "tell", ![h].proxy = p]
    /\ told' = StillTold(p) /\ Calm
    /\ UNCHANGED <<accounts, unlimited>>

\* Mutant: one account is told, as if a proxy had one.
TellOne(h) ==
    /\ clerk[h].at = "tell"
    /\ told' = told \cup 
                 (LET S == AtWork(clerk[h].proxy) IN
                  {<<a, clerk[h].proxy>> : a \in IF S = {} THEN {} ELSE {CHOOSE a \in S : TRUE}})
    /\ clerk' = [clerk EXCEPT ![h].at = "probe", ![h].proxy = NoProxy]
    /\ Calm
    /\ UNCHANGED <<proxy, accounts, since, unlimited>>

\* A proxy_down event for every account at work that uses it, in a transaction of its own.
Tell(h) ==
    /\ clerk[h].at = "tell"
    /\ told' = told \cup {<<a, clerk[h].proxy>> : a \in AtWork(clerk[h].proxy)}
    /\ clerk' = [clerk EXCEPT ![h].at = "probe", ![h].proxy = NoProxy]
    /\ Calm
    /\ UNCHANGED <<proxy, accounts, since, unlimited>>

EndSweep(h) ==
    /\ clerk[h].at = "probe" /\ clerk[h].todo = {}
    /\ Leaves(h) /\ Calm
    /\ UNCHANGED <<proxy, accounts, told, since, unlimited>>

\* The worker dies, or an account is deleted between the question who uses the proxy and the
\* event: the sweep, never run again, ends.
SweepDies(h) ==
    /\ clerk[h].at \in {"probe", "tell"}
    /\ cutShort' = (cutShort \/ clerk[h].at = "tell")
    /\ Leaves(h)
    /\ UNCHANGED <<proxy, accounts, told, since, raced, unlimited, orders>>
-----------------------------------------------------------------------------
(* Edits *)

\* delete_proxy: accounts lose it (ON DELETE SET NULL).
DeleteProxy(p) ==
    /\ orders < MaxOrders /\ orders' = orders + 1
    /\ proxy[p].there
    /\ proxy' = [proxy EXCEPT ![p].there = FALSE]
    /\ accounts' = [a \in Phones |-> IF accounts[a].proxy = p
                                    THEN [accounts[a] EXCEPT !.proxy = NoProxy] ELSE accounts[a]]
    /\ UNCHANGED <<clerk, told, since, raced, unlimited, cutShort>>

DeleteAccount(a) ==
    /\ orders < MaxOrders /\ orders' = orders + 1
    /\ accounts[a].there
    /\ accounts' = [accounts EXCEPT ![a] = Absent]
    /\ told' = {e \in told : e[1] # a}
    /\ UNCHANGED <<proxy, clerk, since, raced, unlimited, cutShort>>

\* patch_proxy: country and status are fields like any other, and nobody is told.
PatchProxy(p) ==
    /\ orders < MaxOrders /\ orders' = orders + 1
    /\ proxy[p].there
    /\ \/ \E c \in Countries : proxy' = [proxy EXCEPT ![p].geo = c] /\ UNCHANGED since
       \/ /\ \E status \in Statuses : proxy' = [proxy EXCEPT ![p].status = status]
          /\ since' = since \cup OnProxy(p)
    /\ told' = StillTold(p)
    /\ UNCHANGED <<accounts, clerk, raced, unlimited, cutShort>>

\* The state machine (AccountLifecycle) takes the account to the pool or to a campaign, or away.
Moves(a) ==
    /\ accounts[a].there
    /\ accounts' = [accounts EXCEPT ![a].works = ~@]
    /\ since' = IF accounts[a].works THEN since ELSE since \cup {a}
    /\ UNCHANGED <<proxy, clerk, told, raced, unlimited, cutShort, orders>>

IntakeNext ==
    \/ \E h \in Clerks :
          \/ Insert(h) \/ EndImport(h) \/ AssignFree(h) \/ Sweep(h) \/ Tell(h) \/ EndSweep(h)
          \/ SweepDies(h)
          \/ \E a \in Phones, p \in ProxyIds \cup {NoProxy} : Begin(h, a, p) \/ ImportRow(h, a, p)
          \/ \E S \in SUBSET Phones : BeginImport(h, S)
          \/ \E known \in BOOLEAN : ImportFields(h, known)
          \/ \E a \in Phones, geo \in {Countries} \cup {{c} : c \in Countries}, p \in ProxyIds :
                PickFree(h, a, geo, p)
          \/ \E p \in ProxyIds, seen \in Statuses, answers \in BOOLEAN :
                Verdict(h, p, seen, answers)
    \/ \E a \in Phones, p \in ProxyIds : AssignFixed(a, p)
    \/ \E p \in ProxyIds : DeleteProxy(p) \/ PatchProxy(p)
    \/ \E a \in Phones : DeleteAccount(a) \/ Moves(a)

IntakeSpec == IntakeInit /\ [][IntakeNext]_intakeVars
-----------------------------------------------------------------------------
IntakeTypeOK ==
    /\ \A p \in ProxyIds : proxy[p].there \in BOOLEAN /\ proxy[p].status \in Statuses
    /\ \A a \in Phones : accounts[a].proxy \in ProxyIds \cup {NoProxy}
    /\ \A h \in Clerks : clerk[h].at \in {"idle", "insert", "rows", "fields", "assign", "probe",
                                         "tell"}
    /\ told \subseteq Phones \X ProxyIds /\ since \subseteq Phones /\ orders \in 0..MaxOrders

\* The plan's limit holds while accounts are created one after the other: it is passed only by
\* a list, which is not checked, and by requests that read the number at the same time.
LimitKept == ~unlimited => Cardinality(Present) <= AccountsMax

\* Two accounts share a proxy of the pool only if two requests picked it at the same time.
OneProxyEach == \A a, b \in Present :
    (/\ a # b /\ accounts[a].via = "pool" /\ accounts[b].via = "pool"
     /\ accounts[a].proxy = accounts[b].proxy /\ accounts[a].proxy # NoProxy)
        => accounts[a].proxy \in raced

\* An account at work whose proxy was found dead has an event that says so, from the moment the
\* sweep goes on to the next proxy.  An account that was not at work then has none later, nor
\* has one whose proxy somebody declared dead.
DeadIsTold == \A a \in Present :
    LET p == accounts[a].proxy IN
    (/\ p # NoProxy /\ accounts[a].works /\ a \notin since /\ proxy[p].status = "dead"
     /\ \A h \in Clerks : ~(clerk[h].at = "tell" /\ clerk[h].proxy = p))
        => <<a, p>> \in told \/ cutShort

IntakeKept == LimitKept /\ OneProxyEach /\ DeadIsTold
=============================================================================

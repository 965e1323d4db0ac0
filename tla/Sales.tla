------------------------------- MODULE Sales -------------------------------
(***************************************************************************)
(* What Pro costs and who has it.                                          *)
(*                                                                         *)
(* The price is a base (api/routers/admin.py), cut for a time by a         *)
(* promotion (core/billing/promotions.py); it is computed from both        *)
(* (core/billing/pricing.py) and fixed in a payment, which is handed out   *)
(* again while it is pending (core/billing/payments.py).  An admin's       *)
(* request checks its promotion against the table and commits later, with  *)
(* nothing locked: desk[e] is what it read and what it wants.  One price   *)
(* stands for the two currencies, in cents.                                *)
(*                                                                         *)
(* Two hands write the row of the table subscriptions: a payment, with one *)
(* statement that inserts or extends (core/repositories/subscription.py,   *)
(* extend_pro), and an admin's choice of a plan, which reads the row and   *)
(* writes it later (upsert).  What the row is worth is decided each time   *)
(* it is read (api/services/billing.py, get_user_plan).  How a payment     *)
(* comes to be confirmed, and once, is in Payments.                        *)
(***************************************************************************)
EXTENDS Integers, FiniteSets

CONSTANTS
    Admins,    \* concurrent requests of the admin panel
    Buyers,
    PromoIds,  \* ids of the promotions table, in order of creation
    Bases,     \* prices the admins choose for the base
    Cuts,      \* discounts they choose: [kind, amount]
    Periods,   \* days a payment buys
    MaxToday,  \* bound: time runs from 0 to MaxToday, in days
    MaxRevisions, \* bound: requests of the admins about promotions and the base
    MaxPays,   \* bound: payments
    MaxWishes, \* bound: requests of the admins about plans
    NoPromo,
    NoEnd,     \* expires_at IS NULL: without a term
    NoBuyer

Fixed(c) == c.kind = "fixed"

\* What the module assumes of its constants.
SalesAssumption ==
    /\ PromoIds \subseteq Nat /\ NoPromo \notin PromoIds /\ NoPromo \notin Cuts
    /\ Bases \subseteq Nat /\ Bases # {}
    /\ Cuts \subseteq [kind: {"percent", "fixed"}, amount: Nat]
    /\ \A c \in Cuts : ~Fixed(c) => c.amount \in 1..95
    /\ Periods \subseteq Nat \ {0}
    /\ {MaxToday, MaxRevisions, MaxPays, MaxWishes} \subseteq Nat
    /\ NoEnd \notin Int /\ NoBuyer \notin Buyers

VARIABLES
    today,
    base,    \* pricing_config.price
    promo,   \* promotions table: id -> the terms of the row
    life,    \* the row is still to come, kept, or deleted
    desk,    \* what each admin's request is doing
    bill,    \* the buyer's pending payment, from the reading of the base on; by: its discount
    clean,   \* no request committed on a check that had gone stale
    revisions,
    sub,     \* subscriptions: plan is "none" where the user has no row
    wish,    \* requests about a plan: user, the plan found, the plan wanted
    owed,    \* days of Pro bought and still to come
    favour,  \* the users an admin has given Pro since they last took it away
    pays, wishes

catalog == <<base, promo, life, desk, clean, revisions>>
members == <<sub, wish, owed, favour, pays, wishes>>
salesVars == <<today, base, promo, life, desk, bill, clean, revisions, sub, wish, owed, favour,
               pays, wishes>>
-----------------------------------------------------------------------------
\* The columns of a promotion that its rules read; to is ends_at.
Terms == [on: BOOLEAN, from: 0..MaxToday, to: 0..MaxToday, cut: Cuts]

\* _validate_fields; the table's CHECK constraints say the same.
Valid(t) == t.from < t.to

Offered == {t \in Terms : Valid(t)}
NoTerms == [on |-> FALSE, from |-> 0, to |-> 0, cut |-> [kind |-> "percent", amount |-> 0]]
Kept == {p \in PromoIds : life[p] = "kept"}

\* The windows [from, to) of the query share a moment.
Overlaps(t, w) == w.from < t.to /\ w.to > t.from

\* Mutant: an update is only checked when it moves the window.
CrowdedIfMoved(t, p) ==
    /\ p \in Kept => <<promo[p].from, promo[p].to>> # <<t.from, t.to>>
    /\ \E q \in Kept \ {p} : promo[q].on /\ Overlaps(t, promo[q])

\* _assert_no_overlap finds another enabled promotion in the window.
Crowded(t, p) == \E q \in Kept \ {p} : promo[q].on /\ Overlaps(t, promo[q])

\* get_active_promo: enabled, begun and not over; of several the one begun last.
Active ==
    LET live == {p \in Kept : promo[p].on /\ promo[p].from <= today /\ today < promo[p].to}
    IN  {p \in live : \A q \in live : promo[q].from <= promo[p].from}

\* Mutant: the amount is taken for a price whatever the kind.
CutIsPrice(b, c) == c.amount

\* _apply_promo_*: percent of the base, rounded half up, or the price of the promotion.
Cut(b, c) == IF Fixed(c) THEN c.amount ELSE (b * (100 - c.amount) + 50) \div 100

\* compute_effective; p is the active promotion or NoPromo.
Effective(b, p) == IF p = NoPromo THEN b ELSE Cut(b, promo[p].cut)

\* What .first() can return, of promotions begun at the same time any.
Picked == IF Active = {} THEN {NoPromo} ELSE Active

FreeDesk == [op |-> "idle", id |-> NoPromo, seen |-> NoTerms, want |-> NoTerms, stale |-> FALSE]
NoBill == [stage |-> "none", base |-> 0, price |-> 0, by |-> NoPromo]

NoSub == [plan |-> "none", ends |-> NoEnd]
NoWish == [user |-> NoBuyer, found |-> "none", plan |-> "free"]

SalesInit ==
    /\ today = 0
    /\ base \in Bases
    /\ promo = [p \in PromoIds |-> NoTerms] /\ life = [p \in PromoIds |-> "none"]
    /\ desk = [e \in Admins |-> FreeDesk]
    /\ bill = [u \in Buyers |-> NoBill]
    /\ clean = TRUE /\ revisions = 0
    /\ sub = [u \in Buyers |-> NoSub] /\ wish = [e \in Admins |-> NoWish]
    /\ owed = [u \in Buyers |-> 0] /\ favour = {}
    /\ pays = 0 /\ wishes = 0
-----------------------------------------------------------------------------
(* Promotions *)

Revise == revisions < MaxRevisions /\ revisions' = revisions + 1

\* PUT /admin/pricing; the promotions are left alone.
SetBase(b) ==
    /\ Revise /\ b # base
    /\ base' = b
    /\ UNCHANGED <<today, promo, life, desk, bill, clean, members>>

\* create_promotion validates; a promotion that is off is not compared with others.
AskCreate(e, t) ==
    /\ Revise /\ desk[e] = FreeDesk
    /\ t.on => ~Crowded(t, NoPromo)
    /\ desk' = [desk EXCEPT ![e] = [FreeDesk EXCEPT !.op = "create", !.want = t]]
    /\ UNCHANGED <<today, base, promo, life, bill, clean, members>>

\* update_promotion lays the fields of the request over the row and validates the whole.
AskUpdate(e, p, t) ==
    /\ Revise /\ desk[e] = FreeDesk
    /\ p \in Kept /\ t # promo[p]
    /\ t.on => ~Crowded(t, p)
    /\ desk' = [desk EXCEPT ![e] = [FreeDesk EXCEPT !.op = "update", !.id = p,
                                        !.seen = promo[p], !.want = t]]
    /\ UNCHANGED <<today, base, promo, life, bill, clean, members>>

\* A row of the table changes under the checks of everybody else.
Land(e, p, t) ==
    /\ promo' = [promo EXCEPT ![p] = t]
    /\ desk' = [x \in Admins |-> IF x = e THEN FreeDesk
                                 ELSE [desk[x] EXCEPT !.stale = @ \/ desk[x].op # "idle"]]
    /\ clean' = (clean /\ ~desk[e].stale)
    /\ UNCHANGED <<today, base, bill, revisions, members>>

CommitCreate(e) ==
    /\ desk[e].op = "create"
    /\ \E p \in PromoIds : /\ life[p] = "none"
                           /\ \A q \in PromoIds : life[q] = "none" => p <= q
                           /\ life' = [life EXCEPT ![p] = "kept"]
                           /\ Land(e, p, desk[e].want)

\* The session writes the attributes whose value is not the one it loaded.
Written(row, seen, want) ==
    [c \in DOMAIN row |-> IF want[c] # seen[c] THEN want[c] ELSE row[c]]

\* Mutant: the columns of two requests are put together unseen.
UpdateUnchecked(e) ==
    /\ desk[e].op = "update" /\ desk[e].id \in Kept
    /\ Land(e, desk[e].id, Written(promo[desk[e].id], desk[e].seen, desk[e].want))
    /\ UNCHANGED life

\* The table's CHECK of the window looks at the row as it is after the UPDATE.
CommitUpdate(e) ==
    LET p == desk[e].id
        t == Written(promo[p], desk[e].seen, desk[e].want)
    IN  /\ desk[e].op = "update"
        /\ p \in Kept
        /\ Valid(t)
        /\ Land(e, p, t)
        /\ UNCHANGED life

\* The row is gone, or the columns two requests wrote do not make a window: rolled back.
\* Or the process dies.
Abandon(e) ==
    /\ desk[e] # FreeDesk
    /\ desk' = [desk EXCEPT ![e] = FreeDesk]
    /\ UNCHANGED <<today, base, promo, life, bill, clean, revisions, members>>

\* delete_promotion; the id is not used again.
DeletePromo(p) ==
    /\ Revise /\ p \in Kept
    /\ life' = [life EXCEPT ![p] = "deleted"]
    /\ UNCHANGED <<today, base, promo, desk, bill, clean, members>>
-----------------------------------------------------------------------------
(* Buyers *)

\* create_payment without a payment to reuse reads the base ...
ReadBase(u) ==
    /\ bill[u].stage = "none" /\ pays < MaxPays
    /\ bill' = [bill EXCEPT ![u] = [NoBill EXCEPT !.stage = "reading", !.base = base]]
    /\ UNCHANGED <<today, catalog, members>>

\* The discount of a promotion, if there is one.
CutOf(p) == IF p = NoPromo THEN NoPromo ELSE promo[p].cut

\* ... then the promotion, and fixes the price: later requests get the same link, whatever
\* becomes of base and promotion (_reuse_pending).
FixPrice(u) ==
    /\ bill[u].stage = "reading"
    /\ \E p \in Picked :
          bill' = [bill EXCEPT ![u].stage = "pending", ![u].by = CutOf(p),
                               ![u].price = Effective(bill[u].base, p)]
    /\ UNCHANGED <<today, catalog, members>>

\* expire_stale_pending
Expire(u) ==
    /\ bill[u].stage = "pending"
    /\ bill' = [bill EXCEPT ![u] = NoBill]
    /\ UNCHANGED <<today, catalog, members>>
-----------------------------------------------------------------------------
(* Subscriptions *)

Plans == {"free", "pro"}
Larger(m, n) == IF m > n THEN m ELSE n

\* Mutant: the day on which the term ends still counts.
LastDayToo(u) ==
    IF sub[u].plan = "pro" /\ (sub[u].ends = NoEnd \/ sub[u].ends >= today) THEN "pro" ELSE "free"

\* get_user_plan: a term that is over makes Pro free, no term makes it last.
PlanOf(u) ==
    IF sub[u].plan = "pro" /\ (sub[u].ends = NoEnd \/ sub[u].ends > today) THEN "pro" ELSE "free"

\* Mutant: the days are counted from today although some are left.
FromToday(row, n) == today + n

\* GREATEST(COALESCE(expires_at, now()), now()) + period: a Pro without a term is given one.
Extended(row, n) == (IF row.ends = NoEnd THEN today ELSE Larger(row.ends, today)) + n

\* Mutant: the payment extends the term and says nothing of the plan.
TermOnly(u, n) ==
    /\ bill[u].stage = "pending" /\ pays < MaxPays
    /\ bill' = [bill EXCEPT ![u] = NoBill]
    /\ sub' = [sub EXCEPT ![u].ends = Extended(sub[u], n)]
    /\ owed' = [owed EXCEPT ![u] = @ + n]
    /\ pays' = pays + 1
    /\ UNCHANGED <<today, catalog, wish, favour, wishes>>

\* confirm_payment -> extend_pro, one statement under the lock of the payment.
Pay(u, n) ==
    /\ bill[u].stage = "pending" /\ pays < MaxPays
    /\ bill' = [bill EXCEPT ![u] = NoBill]
    /\ sub' = [sub EXCEPT ![u] = [plan |-> "pro", ends |-> Extended(sub[u], n)]]
    /\ owed' = [owed EXCEPT ![u] = @ + n]
    /\ pays' = pays + 1
    /\ UNCHANGED <<today, catalog, wish, favour, wishes>>

\* set_subscription and set_subscription_by_username: upsert reads the row ...
AskPlan(e, u, plan) ==
    /\ wishes < MaxWishes /\ wish[e] = NoWish
    /\ wish' = [wish EXCEPT ![e] = [user |-> u, found |-> sub[u].plan, plan |-> plan]]
    /\ wishes' = wishes + 1
    /\ UNCHANGED <<today, catalog, bill, sub, owed, favour, pays>>

\* ... lays the plan over the row, whose other columns it does not touch ...
Given(row, plan) == [row EXCEPT !.plan = plan]

\* ... and writes it: an INSERT where none was found, which fails if there is one by now;
\* an UPDATE of the plan unless it is the one that was found.
CommitPlan(e) ==
    LET w == wish[e]
        u == w.user
    IN  /\ u # NoBuyer
        /\ \/ w.found = "none" /\ sub[u] = NoSub
           \/ w.found # "none"
        /\ sub' = IF w.found = w.plan THEN sub
                  ELSE [sub EXCEPT ![u] = Given(sub[u], w.plan)]
        /\ favour' = IF w.plan = "pro" THEN favour \cup {u}
                     ELSE IF w.found = w.plan THEN favour ELSE favour \ {u}
        /\ wish' = [wish EXCEPT ![e] = NoWish]
        /\ UNCHANGED <<today, catalog, bill, owed, pays, wishes>>

\* The INSERT meets a row, or the request dies: nothing is written.
DropPlan(e) ==
    /\ wish[e] # NoWish
    /\ wish' = [wish EXCEPT ![e] = NoWish]
    /\ UNCHANGED <<today, catalog, bill, sub, owed, favour, pays, wishes>>

Tick ==
    /\ today < MaxToday
    /\ today' = today + 1
    /\ owed' = [u \in Buyers |-> IF owed[u] > 0 THEN owed[u] - 1 ELSE 0]
    /\ UNCHANGED <<catalog, bill, sub, wish, favour, pays, wishes>>
-----------------------------------------------------------------------------
PanelEdits ==
    \/ \E b \in Bases : SetBase(b)
    \/ \E p \in PromoIds : DeletePromo(p)
    \/ \E e \in Admins : \/ \E t \in Offered : \/ AskCreate(e, t)
                                                 \/ \E p \in PromoIds : AskUpdate(e, p, t)
                         \/ CommitCreate(e) \/ CommitUpdate(e) \/ Abandon(e)

Giving ==
    \E e \in Admins : \/ \E u \in Buyers, plan \in Plans : AskPlan(e, u, plan)
                      \/ CommitPlan(e) \/ DropPlan(e)

Buying ==
    \E u \in Buyers : \/ ReadBase(u) \/ FixPrice(u) \/ Expire(u)
                      \/ \E n \in Periods : Pay(u, n)

SalesNext == PanelEdits \/ Giving \/ Buying \/ Tick

SalesSpec == SalesInit /\ [][SalesNext]_salesVars
-----------------------------------------------------------------------------
(* Properties *)

Desks == [op: {"idle", "create", "update"}, id: PromoIds \cup {NoPromo},
          seen: Offered \cup {NoTerms}, want: Offered \cup {NoTerms}, stale: BOOLEAN]
Bills == [stage: {"none", "reading", "pending"}, base: Bases \cup {0}, price: Nat,
          by: Cuts \cup {NoPromo}]

\* The table holds promotions with a window, requests hold such rows; a row of subscriptions
\* has a plan unless there is none.
SalesTypeOK ==
    /\ today \in 0..MaxToday /\ base \in Bases /\ clean \in BOOLEAN
    /\ promo \in [PromoIds -> Offered \cup {NoTerms}]
    /\ life \in [PromoIds -> {"none", "kept", "deleted"}]
    /\ \A p \in Kept : Valid(promo[p])
    /\ desk \in [Admins -> Desks] /\ bill \in [Buyers -> Bills]
    /\ sub \in [Buyers -> [plan: Plans \cup {"none"}, ends: Nat \cup {NoEnd}]]
    /\ \A u \in Buyers : sub[u].plan = "none" => sub[u] = NoSub
    /\ wish \in [Admins -> [user: Buyers \cup {NoBuyer}, found: Plans \cup {"none"}, plan: Plans]]
    /\ owed \in [Buyers -> Nat] /\ favour \subseteq Buyers
    /\ revisions \in 0..MaxRevisions /\ pays \in 0..MaxPays /\ wishes \in 0..MaxWishes

Window(t) == {n \in 0..MaxToday : t.from <= n /\ n < t.to}

\* Two enabled promotions share a moment only if a request was committed after another
\* one had changed the table under its check: creations, updates that move a window,
\* enable or disable, and deletions, in any order, never do it by themselves
\* (core/billing/promotions.py:3-6, 50-68).
ClashNeedsRace ==
    clean => \A p, q \in Kept : (p # q /\ promo[p].on /\ promo[q].on) =>
        Window(promo[p]) \cap Window(promo[q]) = {}

\* A price is the base that was read, or not above it by a discount in percent however
\* small the base is, or that of the promotion; whatever the admins edit meanwhile.
BillWithinBase ==
    \A u \in Buyers : bill[u].stage = "pending" =>
        \/ bill[u].by = NoPromo /\ bill[u].price = bill[u].base
        \/ bill[u].by # NoPromo /\ Fixed(bill[u].by) /\ bill[u].price = bill[u].by.amount
        \/ bill[u].by # NoPromo /\ ~Fixed(bill[u].by) /\ bill[u].price <= bill[u].base

\* Every day paid for is in the term, however many payments arrive and whatever an admin
\* does to the plan between them (core/repositories/subscription.py:46-55).
PaidDaysKept == \A u \in Buyers : owed[u] > 0 => sub[u].ends = today + owed[u]

\* Nobody has Pro but for the days they paid and what an admin gave them: a plan given
\* or taken away while a payment arrives never makes more of it.
ProIsEarned ==
    \A u \in Buyers : PlanOf(u) = "pro" => owed[u] > 0 \/ u \in favour

\* Prices are the promotions' and Pro is paid for or given.
SalesKept == ClashNeedsRace /\ BillWithinBase /\ PaidDaysKept /\ ProIsEarned
=============================================================================

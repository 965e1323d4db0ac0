------------------------------ MODULE Payments ------------------------------
(***************************************************************************)
(* Buying Pro: core/billing/payments.py and its three callers - the        *)
(* billing endpoints of the API, the reconciliation cron of the worker and *)
(* the Telegram Stars handlers of the bot - each with a database session   *)
(* of its own, interleaving with the payment providers and the buyer.      *)
(*                                                                         *)
(* confirm_payment locks the payment row, but SELECT ... FOR UPDATE does   *)
(* not refresh an object the session already holds: the check "already     *)
(* paid" is made on tx[s].seen[p], the identity map of the session, and on *)
(* the locked row only where the session had not loaded the payment.       *)
(***************************************************************************)
EXTENDS Naturals, FiniteSets

CONSTANTS
    Users,
    Payments,  \* ids of the payments table, in order of creation
    Invoices,  \* invoice ids of the crypto provider
    Sessions,  \* concurrently open database sessions
    NULL

ASSUME PaymentsAssumption ==
    /\ Payments \subseteq Nat
    /\ NULL \notin Payments
    /\ NULL \notin Users \cup Invoices \cup {"crypto", "stars"}

VARIABLES
    payments,  \* payments table: id -> row
    invoices,  \* at the crypto provider: id -> payload it carries, who got its link, paid
    star,      \* at Telegram: payment id -> what became of the Stars payment
    granted,   \* periods extend_pro added to the buyer's subscription, by payment
    tx         \* what each session is doing

vars == <<payments, invoices, star, granted, tx>>
-----------------------------------------------------------------------------
\* status "none": no such row yet.  late: expires_at has passed.
Rows == [user: Users \cup {NULL}, provider: {"crypto", "stars", NULL},
         status: {"none", "pending", "paid", "expired"},
         invoice: Invoices \cup {NULL}, url: BOOLEAN, late: BOOLEAN]
NoRow == [user |-> NULL, provider |-> NULL, status |-> "none", invoice |-> NULL,
          url |-> FALSE, late |-> FALSE]

\* An order of the provider; `for` is the payload, `holder` who was given the link.
Orders == [for: Payments \cup {NULL}, holder: Users \cup {NULL}, paid: BOOLEAN]
NoOrder == [for |-> NULL, holder |-> NULL, paid |-> FALSE]

\* approved: pre-checkout answered ok; charged: successful_payment not acknowledged.
StarStates == {"none", "approved", "charged", "acknowledged"}

\* op: insert and invoice are create_invoice before and after the payment exists; check
\* and reconcile wait for the provider; confirm and deliver are in confirm_payment.
\* seen: identity map, NULL for an object not loaded.
Txs == [op: {"idle", "insert", "invoice", "check", "reconcile", "confirm", "deliver"},
        user: Users \cup {NULL}, provider: {"crypto", "stars", NULL},
        todo: SUBSET Payments, seen: [Payments -> Rows \cup {NULL}]]

NothingSeen == [p \in Payments |-> NULL]
Idle == [op |-> "idle", user |-> NULL, provider |-> NULL, todo |-> {},
         seen |-> NothingSeen]

Loaded(todo) == [p \in Payments |-> IF p \in todo THEN payments[p] ELSE NULL]

\* The loop goes on to the next payment; after the last one the session closes.
Rest(t, p) == IF t.todo = {p} THEN Idle ELSE [t EXCEPT !.todo = @ \ {p}]

\* The buyer's money for p has been taken.
Paid(p) == \/ \E i \in Invoices : invoices[i].for = p /\ invoices[i].paid
           \/ star[p] \in {"charged", "acknowledged"}

Init ==
    /\ payments = [p \in Payments |-> NoRow]
    /\ invoices = [i \in Invoices |-> NoOrder]
    /\ star = [p \in Payments |-> "none"]
    /\ granted = [p \in Payments |-> 0]
    /\ tx = [s \in Sessions |-> Idle]
-----------------------------------------------------------------------------
\* Mutant: a pending payment of anybody is reused.
LiveOfAnyone(u, m) ==
    {p \in Payments : payments[p].provider = m /\ payments[p].status = "pending"
                      /\ ~payments[p].late}

\* _reuse_pending
Live(u, m) ==
    {p \in Payments : payments[p].user = u /\ payments[p].provider = m
                      /\ payments[p].status = "pending" /\ ~payments[p].late}
Newest(ids) == {p \in ids : \A q \in ids : q <= p}

\* Bound: a request is only made while ids are left for it and for those under way.
HasRoom(m) ==
    LET asking(ops, ms) == {r \in Sessions : tx[r].op \in ops /\ tx[r].provider \in ms}
        rows == {p \in Payments : payments[p].status = "none"}
        orders == {i \in Invoices : invoices[i] = NoOrder}
    IN  /\ Cardinality(rows) > Cardinality(asking({"insert"}, {"crypto", "stars"}))
        /\ m = "crypto" => Cardinality(orders) >
                              Cardinality(asking({"insert", "invoice"}, {"crypto"}))

\* POST /billing/invoice reads: nothing to reuse, or a payment whose link was never
\* stored (with a link the answer is the link, and nothing changes).
AskFirst(s, u, m) ==
    /\ tx[s] = Idle /\ HasRoom(m)
    /\ Live(u, m) = {}
    /\ tx' = [tx EXCEPT ![s].op = "insert", ![s].user = u, ![s].provider = m]
    /\ UNCHANGED <<payments, invoices, star, granted>>

AskAgain(s, u, m) ==
    /\ tx[s] = Idle /\ HasRoom(m)
    /\ \E p \in Newest(Live(u, m)) :
          /\ ~payments[p].url
          /\ tx' = [tx EXCEPT ![s].op = "invoice", ![s].user = u, ![s].provider = m,
                              ![s].todo = {p}]
    /\ UNCHANGED <<payments, invoices, star, granted>>

\* create_payment inserts and commits before the provider is asked.
InsertPayment(s, p) ==
    /\ tx[s].op = "insert"
    /\ payments[p].status = "none"
    /\ \A q \in Payments : payments[q].status = "none" => p <= q
    /\ payments' = [payments EXCEPT ![p] =
                       [NoRow EXCEPT !.user = tx[s].user, !.provider = tx[s].provider,
                                     !.status = "pending"]]
    /\ tx' = [tx EXCEPT ![s].op = "invoice", ![s].todo = {p}]
    /\ UNCHANGED <<invoices, star, granted>>

\* The crypto provider's order, its id and link stored; the buyer gets the link.
IssueInvoice(s, p, i) ==
    /\ tx[s].op = "invoice" /\ p \in tx[s].todo /\ tx[s].provider = "crypto"
    /\ invoices[i] = NoOrder
    /\ invoices' = [invoices EXCEPT ![i] = [for |-> p, holder |-> tx[s].user, paid |-> FALSE]]
    /\ payments' = [payments EXCEPT ![p].invoice = i, ![p].url = TRUE]
    /\ tx' = [tx EXCEPT ![s] = Idle]
    /\ UNCHANGED <<star, granted>>

\* For Stars Telegram only makes a link that carries the payload.
IssueLink(s, p) ==
    /\ tx[s].op = "invoice" /\ p \in tx[s].todo /\ tx[s].provider = "stars"
    /\ payments' = [payments EXCEPT ![p].url = TRUE]
    /\ tx' = [tx EXCEPT ![s] = Idle]
    /\ UNCHANGED <<invoices, star, granted>>
-----------------------------------------------------------------------------
(* The buyer, the providers and the clock. *)

PastDue(p) ==
    /\ payments[p].status # "none" /\ ~payments[p].late
    /\ payments' = [payments EXCEPT ![p].late = TRUE]
    /\ UNCHANGED <<invoices, star, granted, tx>>

PayInvoice(i) ==
    /\ invoices[i].for # NULL /\ ~invoices[i].paid
    /\ invoices' = [invoices EXCEPT ![i].paid = TRUE]
    /\ UNCHANGED <<payments, star, granted, tx>>

\* on_pre_checkout looks at the status, not at expires_at.
PreCheckout(p) ==
    /\ payments[p].provider = "stars" /\ payments[p].url
    /\ payments[p].status = "pending"
    /\ star[p] = "none"
    /\ star' = [star EXCEPT ![p] = "approved"]
    /\ UNCHANGED <<payments, invoices, granted, tx>>

ChargeStars(p) ==
    /\ star[p] = "approved"
    /\ star' = [star EXCEPT ![p] = "charged"]
    /\ UNCHANGED <<payments, invoices, granted, tx>>
-----------------------------------------------------------------------------
\* successful_payment reaches the bot.  Polling acknowledges it independently of the
\* handler: it can come again, or be lost with the handler.
Deliver(s, p) ==
    /\ tx[s] = Idle
    /\ star[p] = "charged"
    /\ \E after \in {"charged", "acknowledged"} : star' = [star EXCEPT ![p] = after]
    /\ tx' = [tx EXCEPT ![s].op = "deliver", ![s].todo = {p}]
    /\ UNCHANGED <<payments, invoices, granted>>

\* Mutant: the provider is asked about a payment that has no invoice.
CheckAnyway(s, p) ==
    /\ tx[s] = Idle
    /\ payments[p].status \notin {"none", "paid"}
    /\ payments[p].provider = "crypto"
    /\ tx' = [tx EXCEPT ![s].op = "check", ![s].todo = {p}, ![s].seen = Loaded({p})]
    /\ UNCHANGED <<payments, invoices, star, granted>>

\* POST /billing/payments/{id}/check loads the payment and asks the provider; a paid
\* one, or one without an invoice, is answered from the row.
Check(s, p) ==
    /\ tx[s] = Idle
    /\ payments[p].status \notin {"none", "paid"}
    /\ payments[p].provider = "crypto" /\ payments[p].invoice # NULL
    /\ tx' = [tx EXCEPT ![s].op = "check", ![s].todo = {p}, ![s].seen = Loaded({p})]
    /\ UNCHANGED <<payments, invoices, star, granted>>

\* Mutant: the expiry overlooks the status.
ExpireAnyLate(table) ==
    [p \in Payments |-> IF table[p].late THEN [table[p] EXCEPT !.status = "expired"]
                        ELSE table[p]]

\* expire_stale_pending
Expire(table) ==
    [p \in Payments |-> IF table[p].status = "pending" /\ table[p].late
                        THEN [table[p] EXCEPT !.status = "expired"] ELSE table[p]]

\* The cron (one at a time) expires first, then lists what is still pending.
Reconcile(s) ==
    LET listed == {p \in Payments : /\ Expire(payments)[p].provider = "crypto"
                                    /\ Expire(payments)[p].status = "pending"
                                    /\ payments[p].invoice # NULL}
    IN  /\ tx[s] = Idle
        /\ \A r \in Sessions : tx[r].op # "reconcile"
        /\ payments' = Expire(payments)
        /\ tx' = IF listed = {} THEN tx
                 ELSE [tx EXCEPT ![s].op = "reconcile", ![s].todo = listed,
                                 ![s].seen = Loaded(listed)]
        /\ UNCHANGED <<invoices, star, granted>>

\* Mutant: whatever was asked about is taken for paid.
TrustPoll(s) ==
    /\ tx[s].op \in {"check", "reconcile"}
    /\ tx' = [tx EXCEPT ![s].op = "confirm"]
    /\ UNCHANGED <<payments, invoices, star, granted>>

\* getInvoices answers; the loop keeps the payments whose invoice is among the paid.
Poll(s) ==
    LET found == {p \in tx[s].todo : invoices[tx[s].seen[p].invoice].paid}
    IN  /\ tx[s].op \in {"check", "reconcile"}
        /\ tx' = [tx EXCEPT ![s] = IF found = {} THEN Idle
                                   ELSE [@ EXCEPT !.op = "confirm", !.todo = found]]
        /\ UNCHANGED <<payments, invoices, star, granted>>
-----------------------------------------------------------------------------
\* Mutant: an expired payment counts as settled, a paid one does not.
SettledIfExpired(s, p) ==
    (IF tx[s].op = "deliver" THEN payments[p] ELSE tx[s].seen[p]).status = "expired"

\* "Already applied", as confirm_payment sees it: a session that has the payment in its
\* identity map looks there, another one looks at the row it has just locked.
Settled(s, p) ==
    (IF tx[s].op = "deliver" THEN payments[p] ELSE tx[s].seen[p]).status = "paid"

Confirming(s, p) ==
    /\ tx[s].op \in {"confirm", "deliver"}
    /\ p \in tx[s].todo

\* Row paid and subscription extended, in one commit.
Apply(s, p) ==
    /\ Confirming(s, p)
    /\ ~Settled(s, p)
    /\ payments' = [payments EXCEPT ![p].status = "paid"]
    /\ granted' = [granted EXCEPT ![p] = @ + 1]
    /\ tx' = [tx EXCEPT ![s] = Rest(@, p)]
    /\ UNCHANGED <<invoices, star>>

\* already_applied: the rollback expires the session's objects, they are read again.
AlreadyApplied(s, p) ==
    /\ Confirming(s, p)
    /\ Settled(s, p)
    /\ tx' = [tx EXCEPT ![s] = Rest([@ EXCEPT !.seen = Loaded(tx[s].todo)], p)]
    /\ UNCHANGED <<payments, invoices, star, granted>>

\* The provider answers with an error, or the process dies: nothing is written.
Stop(s) ==
    /\ tx[s] # Idle
    /\ tx' = [tx EXCEPT ![s] = Idle]
    /\ UNCHANGED <<payments, invoices, star, granted>>
-----------------------------------------------------------------------------
Progress(s) ==
    \/ \E p \in Payments : \/ InsertPayment(s, p)
                           \/ IssueLink(s, p)
                           \/ Apply(s, p)
                           \/ AlreadyApplied(s, p)
                           \/ \E i \in Invoices : IssueInvoice(s, p, i)
    \/ Poll(s)

Open(s) ==
    \/ \E u \in Users, m \in {"crypto", "stars"} : AskFirst(s, u, m) \/ AskAgain(s, u, m)
    \/ \E p \in Payments : Deliver(s, p) \/ Check(s, p)
    \/ Reconcile(s)

Outside ==
    \/ \E p \in Payments : PastDue(p) \/ PreCheckout(p) \/ ChargeStars(p)
    \/ \E i \in Invoices : PayInvoice(i)

Next == Outside \/ \E s \in Sessions : Open(s) \/ Progress(s) \/ Stop(s)

Spec == Init /\ [][Next]_vars

\* The cron comes back every two minutes, and what a session does succeeds at last.
Fairness == \A s \in Sessions : SF_vars(Reconcile(s)) /\ SF_vars(Progress(s))

FairSpec == Spec /\ Fairness
-----------------------------------------------------------------------------
(* Properties *)

\* Tables, orders and identity maps hold rows; a listed payment has been loaded.
TypeOK ==
    /\ payments \in [Payments -> Rows]
    /\ invoices \in [Invoices -> Orders]
    /\ star \in [Payments -> StarStates]
    /\ granted \in [Payments -> Nat]
    /\ tx \in [Sessions -> Txs]
    /\ \A s \in Sessions : tx[s].op \in {"check", "reconcile", "confirm"} =>
          \A p \in tx[s].todo : tx[s].seen[p] \in Rows /\ tx[s].seen[p].invoice # NULL

\* No period of Pro without money taken for that very payment, whichever of the cron,
\* the endpoint and the bot granted it (core/billing/payments.py:134-179).
NoFreePro == \A p \in Payments : granted[p] > 0 => Paid(p)

\* A row reads `paid` exactly when its period was granted: no expiry, late answer or
\* crash leaves one without the other.
PaidIffGranted == \A p \in Payments : payments[p].status = "paid" <=> granted[p] > 0

\* A Stars payment is applied at most once, however often Telegram delivers it, next to
\* anything else that runs (bot/payments.py: the handler's session is a fresh one).
StarsGrantedOnce ==
    \A p \in Payments : payments[p].provider = "stars" => granted[p] <= 1

\* Whoever is handed the link of a crypto invoice owns the payment it will be credited
\* to, reused pending payments included (core/billing/payments.py:49-64).
InvoiceOfItsBuyer ==
    \A i \in Invoices :
        invoices[i].for # NULL => invoices[i].holder = payments[invoices[i].for].user

\* A payment is applied exactly once (core/billing/payments.py:10-16).
GrantedOnce == \A p \in Payments : granted[p] <= 1

\* A paid crypto invoice ends in its period of Pro even if the buyer never comes back
\* (worker/tasks/billing.py:1-2).
PaidIsGranted == \A i \in Invoices :
    invoices[i].paid ~> \E p \in Payments : invoices[i].for = p /\ granted[p] > 0
=============================================================================

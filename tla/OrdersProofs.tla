---------------------------- MODULE OrdersProofs ----------------------------
(***************************************************************************)
(* Proofs about what is ordered and has to come, once: Payments, for every *)
(* set of users, payments, invoices and sessions, and BulkJobs, for every  *)
(* set of items, every number of retries and every bound on deaths and     *)
(* deletions.  The invariant of the former follows the money: an invoice   *)
(* id leads back to its payment, in the table and in every identity map,   *)
(* and a session confirms only what the provider reported paid.            *)
(***************************************************************************)
EXTENDS Payments, BulkJobs, TLAPS

(*************** Payments ***************)

\* A row that does not exist names no provider; Telegram handles only Stars payments;
\* the invoice id of a payment is an order that carries its payload.
TablesOK == /\ \A p \in Payments :
                  /\ payments[p].status = "none" => payments[p].provider = NULL
                  /\ star[p] # "none" => payments[p].provider = "stars"
                  /\ payments[p].invoice # NULL => invoices[payments[p].invoice].for = p
            /\ \A i \in Invoices : invoices[i].for # NULL =>
                  payments[invoices[i].for].status # "none"

\* The invoice id a session remembers leads back to the payment it checks, and is paid
\* once the provider has said so; it remembers that payment as unpaid; the bot handles
\* what Telegram charged; an invoice is requested by the owner of an existing payment.
SessionOK(t) ==
    /\ t.op \in {"check", "reconcile", "confirm"} => \A p \in t.todo :
          /\ payments[p].provider = "crypto"
          /\ t.seen[p] \in Rows /\ t.seen[p].invoice # NULL /\ t.seen[p].status # "paid"
          /\ invoices[t.seen[p].invoice].for = p
          /\ t.op = "confirm" => invoices[t.seen[p].invoice].paid
    /\ t.op = "deliver" => \A p \in t.todo : star[p] \in {"charged", "acknowledged"}
    /\ t.op = "invoice" => \A p \in t.todo :
          payments[p].status # "none" /\ payments[p].user = t.user

SessionsOK == \A s \in Sessions : SessionOK(tx[s])

Safety == NoFreePro /\ PaidIffGranted /\ StarsGrantedOnce /\ InvoiceOfItsBuyer

IInv == TypeOK /\ TablesOK /\ SessionsOK /\ Safety

\* What no step takes back: a payment's existence, owner and provider, an order's
\* payload, holder and payment, a charge.
Grows ==
    /\ \A p \in Payments :
          /\ payments[p].status # "none" =>
                /\ payments'[p].status # "none"
                /\ payments'[p].provider = payments[p].provider
                /\ payments'[p].user = payments[p].user
          /\ star[p] \in {"charged", "acknowledged"} =>
                star'[p] \in {"charged", "acknowledged"}
    /\ \A i \in Invoices : invoices[i].for # NULL =>
          /\ invoices'[i].for = invoices[i].for
          /\ invoices'[i].holder = invoices[i].holder
          /\ invoices[i].paid => invoices'[i].paid
-----------------------------------------------------------------------------
\* Rows and NULL are told apart.
LEMMA NullFacts == /\ NULL \notin Payments /\ NULL \notin Users /\ NULL \notin Invoices
                   /\ NULL # "crypto" /\ NULL # "stars"
  BY PaymentsAssumption

\* What a session holds before it starts and after it ends.
LEMMA IdleFacts == Idle \in Txs /\ SessionOK(Idle) /\ Idle.op = "idle" /\ Idle.todo = {}
  BY DEF Idle, Txs, NothingSeen, SessionOK

\* Objects are loaded as they are in the table.
LEMMA LoadedFacts ==
    ASSUME payments \in [Payments -> Rows], NEW todo \in SUBSET Payments
    PROVE  /\ Loaded(todo) \in [Payments -> Rows \cup {NULL}]
           /\ \A p \in todo : Loaded(todo)[p] = payments[p]
  BY DEF Loaded

\* A session going on to the next payment keeps what it knows of the others.
LEMMA RestFacts ==
    ASSUME NEW t \in Txs, SessionOK(t), NEW p \in Payments
    PROVE  Rest(t, p) \in Txs /\ SessionOK(Rest(t, p))
  <1>1. CASE t.todo = {p}
    BY <1>1, IdleFacts DEF Rest
  <1>2. CASE t.todo # {p}
    <2> DEFINE u == [t EXCEPT !.todo = @ \ {p}]
    <2>1. /\ u \in Txs /\ u.op = t.op /\ u.user = t.user /\ u.seen = t.seen
          /\ u.todo = t.todo \ {p}
      BY DEF Txs
    <2>2. Rest(t, p) = u
      BY <1>2 DEF Rest
    <2> HIDE DEF u
    <2> QED BY <2>1, <2>2 DEF SessionOK
  <1> QED BY <1>1, <1>2

\* What a session knows stays true while the tables grow.
LEMMA GrowsKeepsSession ==
    ASSUME TypeOK, TablesOK, Grows, NEW t \in Txs, SessionOK(t)
    PROVE  SessionOK(t)'
  <1>1. \A p \in Payments : payments[p].provider = "crypto" => payments'[p].provider = "crypto"
    BY NullFacts DEF TablesOK, Grows
  <1>2. \A p \in Payments, i \in Invoices : invoices[i].for = p =>
           invoices'[i].for = p /\ (invoices[i].paid => invoices'[i].paid)
    BY NullFacts DEF Grows
  <1>3. ASSUME t.op \in {"check", "reconcile", "confirm"}, NEW p \in t.todo
        PROVE  /\ payments'[p].provider = "crypto"
               /\ t.seen[p] \in Rows /\ t.seen[p].invoice # NULL /\ t.seen[p].status # "paid"
               /\ invoices'[t.seen[p].invoice].for = p
               /\ t.op = "confirm" => invoices'[t.seen[p].invoice].paid
    <2>1. p \in Payments
      BY DEF Txs
    <2>2. t.seen[p].invoice \in Invoices
      BY <1>3 DEF SessionOK, Rows
    <2> QED BY <1>1, <1>2, <1>3, <2>1, <2>2 DEF SessionOK
  <1>4. t.todo \subseteq Payments
    BY DEF Txs
  <1>5. t.op = "deliver" => \A p \in t.todo : star'[p] \in {"charged", "acknowledged"}
    BY <1>4 DEF SessionOK, Grows
  <1>6. t.op = "invoice" => \A p \in t.todo :
           payments'[p].status # "none" /\ payments'[p].user = t.user
    BY <1>4 DEF SessionOK, Grows
  <1> QED BY <1>3, <1>5, <1>6 DEF SessionOK

\* A step of one session, the tables growing.
LEMMA SessionsStep ==
    ASSUME IInv, Grows, NEW s \in Sessions, NEW t \in Txs, SessionOK(t)',
           tx' = [tx EXCEPT ![s] = t]
    PROVE  SessionsOK' /\ tx' \in [Sessions -> Txs]
  <1>1. ASSUME NEW r \in Sessions PROVE SessionOK(tx[r])'
    <2>1. PICK u : u = IF r = s THEN t ELSE tx[r]
      OBVIOUS
    <2>2. tx'[r] = u
      BY <2>1 DEF IInv, TypeOK
    <2>3. SessionOK(u)'
      <3>1. CASE r = s
        BY <2>1, <3>1
      <3>2. CASE r # s
        <4>1. u \in Txs /\ SessionOK(u)
          BY <2>1, <3>2 DEF IInv, TypeOK, SessionsOK
        <4> QED BY <4>1, GrowsKeepsSession DEF IInv
      <3> QED BY <3>1, <3>2
    <2> QED BY <2>2, <2>3 DEF SessionOK
  <1>2. tx' \in [Sessions -> Txs]
    BY DEF IInv, TypeOK
  <1> QED BY <1>1, <1>2 DEF SessionsOK

\* What a session remembers are rows; of the invariant this part concerns tx alone.
LEMMA SeenIsRows ==
    ASSUME SessionsOK
    PROVE  \A s \in Sessions : tx[s].op \in {"check", "reconcile", "confirm"} =>
              \A p \in tx[s].todo : tx[s].seen[p] \in Rows /\ tx[s].seen[p].invoice # NULL
  BY DEF SessionsOK, SessionOK

\* A step of one session that leaves the tables alone.
LEMMA QuietStep ==
    ASSUME IInv, UNCHANGED <<payments, invoices, star, granted>>,
           NEW s \in Sessions, NEW t \in Txs, SessionOK(t), tx' = [tx EXCEPT ![s] = t]
    PROVE  IInv'
  <1>1. Grows
    BY DEF Grows
  <1>2. SessionOK(t)'
    BY DEF SessionOK
  <1>3. SessionsOK' /\ tx' \in [Sessions -> Txs]
    BY <1>1, <1>2, SessionsStep
  <1>4. TypeOK'
    BY <1>3, SeenIsRows DEF IInv, TypeOK, SessionsOK, SessionOK
  <1>5. TablesOK' /\ Safety'
    BY DEF IInv, TablesOK, Safety, NoFreePro, Paid, PaidIffGranted, StarsGrantedOnce,
           InvoiceOfItsBuyer
  <1> QED BY <1>3, <1>4, <1>5 DEF IInv
-----------------------------------------------------------------------------
\* The initial states.
LEMMA InitIInv == Init => IInv
  <1> SUFFICES ASSUME Init PROVE IInv
    OBVIOUS
  <1>1. NoRow \in Rows /\ NoRow.status = "none" /\ NoRow.provider = NULL /\ NoRow.invoice = NULL
    BY DEF NoRow, Rows
  <1>2. NoOrder \in Orders /\ NoOrder.for = NULL
    BY DEF NoOrder, Orders
  <1>3. TypeOK
    BY <1>1, <1>2, IdleFacts DEF Init, TypeOK, StarStates
  <1>4. Safety
    BY <1>1, <1>2, NullFacts
    DEF Init, Safety, NoFreePro, PaidIffGranted, StarsGrantedOnce, InvoiceOfItsBuyer
  <1>5. TablesOK /\ SessionsOK
    BY <1>1, <1>2, IdleFacts DEF Init, TablesOK, SessionsOK
  <1> QED BY <1>3, <1>4, <1>5 DEF IInv

\* The tables by themselves, without what the sessions hold.
TablesTyped == /\ payments \in [Payments -> Rows] /\ invoices \in [Invoices -> Orders]
               /\ star \in [Payments -> StarStates] /\ granted \in [Payments -> Nat]

\* A step that leaves well-typed tables and what the sessions know intact.
LEMMA WriteStep ==
    ASSUME IInv, Grows, TablesTyped', TablesOK', Safety',
           NEW s \in Sessions, NEW t \in Txs, SessionOK(t)', tx' = [tx EXCEPT ![s] = t]
    PROVE  IInv'
  <1>1. SessionsOK' /\ tx' \in [Sessions -> Txs]
    BY SessionsStep
  <1>2. TypeOK'
    BY <1>1 DEF TypeOK, TablesTyped, SessionsOK, SessionOK
  <1> QED BY <1>1, <1>2 DEF IInv

\* A step outside the sessions, the tables growing.
LEMMA WorldStep ==
    ASSUME IInv, Grows, TablesTyped', TablesOK', Safety', UNCHANGED tx
    PROVE  IInv'
  <1>1. CASE Sessions = {}
    BY <1>1 DEF IInv, TypeOK, TablesTyped, SessionsOK
  <1>2. CASE Sessions # {}
    <2>1. PICK s \in Sessions : TRUE
      BY <1>2
    <2>2. PICK t : t = tx[s]
      OBVIOUS
    <2>3. t \in Txs /\ SessionOK(t) /\ tx' = [tx EXCEPT ![s] = t]
      BY <2>2 DEF IInv, TypeOK, SessionsOK
    <2>4. SessionOK(t)'
      BY <2>3, GrowsKeepsSession DEF IInv
    <2> QED BY <2>3, <2>4, WriteStep
  <1> QED BY <1>1, <1>2

\* The clock moves one row, the buyer one order, Telegram one charge.
LEMMA OutsideStep == IInv /\ Outside => IInv'
  <1> SUFFICES ASSUME IInv, Outside PROVE IInv'
    OBVIOUS
  <1> USE DEF IInv, TypeOK, Safety
  <1>1. ASSUME NEW p \in Payments, PastDue(p) PROVE IInv'
    <2> DEFINE row == [payments[p] EXCEPT !.late = TRUE]
    <2>1. /\ row \in Rows /\ row.status = payments[p].status
          /\ row.provider = payments[p].provider /\ row.invoice = payments[p].invoice
          /\ row.user = payments[p].user
      BY DEF Rows
    <2>2. payments' = [payments EXCEPT ![p] = row] /\ UNCHANGED <<invoices, star, granted, tx>>
      BY <1>1 DEF PastDue
    <2> HIDE DEF row
    <2>3. \A q \in Payments : /\ payments'[q].status = payments[q].status
                              /\ payments'[q].provider = payments[q].provider
                              /\ payments'[q].invoice = payments[q].invoice
                              /\ payments'[q].user = payments[q].user
      BY <2>1, <2>2
    <2>4. Grows /\ TablesOK' /\ TablesTyped'
      BY <2>1, <2>2, <2>3 DEF Grows, TablesOK, TablesTyped, Orders
    <2>5. Safety'
      BY <2>2, <2>3 DEF NoFreePro, Paid, PaidIffGranted, StarsGrantedOnce,
         InvoiceOfItsBuyer, Orders
    <2> QED BY <2>2, <2>4, <2>5, WorldStep
  <1>2. ASSUME NEW i \in Invoices, PayInvoice(i) PROVE IInv'
    <2> DEFINE order == [invoices[i] EXCEPT !.paid = TRUE]
    <2>1. /\ order \in Orders /\ order.for = invoices[i].for
          /\ order.holder = invoices[i].holder /\ order.paid
      BY DEF Orders
    <2>2. invoices' = [invoices EXCEPT ![i] = order] /\ UNCHANGED <<payments, star, granted, tx>>
      BY <1>2 DEF PayInvoice
    <2> HIDE DEF order
    <2>3. \A j \in Invoices : /\ invoices'[j].for = invoices[j].for
                              /\ invoices'[j].holder = invoices[j].holder
                              /\ invoices[j].paid => invoices'[j].paid
      BY <2>1, <2>2
    <2>4. Grows /\ TablesOK' /\ TablesTyped'
      BY <2>1, <2>2, <2>3 DEF Grows, TablesOK, TablesTyped, Rows
    <2>5. Safety'
      BY <2>2, <2>3 DEF NoFreePro, Paid, PaidIffGranted, StarsGrantedOnce, InvoiceOfItsBuyer
    <2> QED BY <2>2, <2>4, <2>5, WorldStep
  <1>3. ASSUME NEW p \in Payments, PreCheckout(p) \/ ChargeStars(p) PROVE IInv'
    <2>1. /\ \E next \in StarStates \ {"none"} : star' = [star EXCEPT ![p] = next]
          /\ payments[p].provider = "stars" /\ star[p] \notin {"charged", "acknowledged"}
          /\ UNCHANGED <<payments, invoices, granted, tx>>
      BY <1>3 DEF PreCheckout, ChargeStars, StarStates, TablesOK
    <2>2. Grows /\ TablesOK' /\ TablesTyped'
      BY <2>1 DEF Grows, TablesOK, TablesTyped
    <2>3. Safety'
      BY <2>1 DEF NoFreePro, Paid, PaidIffGranted, StarsGrantedOnce, InvoiceOfItsBuyer
    <2> QED BY <2>1, <2>2, <2>3, WorldStep
  <1> QED BY <1>1, <1>2, <1>3 DEF Outside
-----------------------------------------------------------------------------
\* A session opens: what it loads is what the tables say.
LEMMA OpenStep == ASSUME IInv, NEW s \in Sessions, Open(s) PROVE IInv'
  <1> USE DEF IInv, TypeOK
  <1>0. /\ tx[s] = Idle => tx[s] \in Txs /\ tx[s].todo = {}
        /\ Idle \in Txs /\ Idle.op = "idle" /\ Idle.todo = {}
    BY IdleFacts
  <1>1. ASSUME NEW u \in Users, NEW m \in {"crypto", "stars"}, AskFirst(s, u, m) PROVE IInv'
    <2> DEFINE t == [Idle EXCEPT !.op = "insert", !.user = u, !.provider = m]
    <2>1. t \in Txs /\ t.op = "insert"
      BY <1>0 DEF Txs
    <2>2. tx' = [tx EXCEPT ![s] = t] /\ UNCHANGED <<payments, invoices, star, granted>>
      BY <1>1 DEF AskFirst
    <2> HIDE DEF t
    <2>3. SessionOK(t)
      BY <2>1 DEF SessionOK
    <2> QED BY <2>1, <2>2, <2>3, QuietStep
  <1>2. ASSUME NEW u \in Users, NEW m \in {"crypto", "stars"}, AskAgain(s, u, m) PROVE IInv'
    <2>1. PICK p \in Live(u, m) :
             tx' = [tx EXCEPT ![s].op = "invoice", ![s].user = u, ![s].provider = m,
                              ![s].todo = {p}]
      BY <1>2 DEF AskAgain, Newest
    <2> DEFINE t == [Idle EXCEPT !.op = "invoice", !.user = u, !.provider = m, !.todo = {p}]
    <2>2. t \in Txs /\ t.op = "invoice" /\ t.user = u /\ t.todo = {p}
      BY <1>0 DEF Txs, Live
    <2>3. tx' = [tx EXCEPT ![s] = t] /\ UNCHANGED <<payments, invoices, star, granted>>
      BY <1>2, <2>1 DEF AskAgain
    <2> HIDE DEF t
    <2>4. SessionOK(t)
      BY <2>2 DEF SessionOK, Live
    <2> QED BY <2>2, <2>3, <2>4, QuietStep
  <1>3. ASSUME NEW p \in Payments, Deliver(s, p) PROVE IInv'
    <2> DEFINE t == [Idle EXCEPT !.op = "deliver", !.todo = {p}]
    <2>1. t \in Txs /\ t.op = "deliver" /\ t.todo = {p}
      BY <1>0 DEF Txs
    <2>2. /\ tx' = [tx EXCEPT ![s] = t] /\ UNCHANGED <<payments, invoices, granted>>
          /\ star[p] = "charged"
          /\ \E after \in {"charged", "acknowledged"} : star' = [star EXCEPT ![p] = after]
      BY <1>3 DEF Deliver
    <2> HIDE DEF t
    <2>3. SessionOK(t)'
      BY <2>1, <2>2 DEF SessionOK
    <2>4. Grows /\ TablesOK' /\ TablesTyped'
      BY <2>2 DEF Grows, TablesOK, TablesTyped, StarStates
    <2>5. Safety'
      BY <2>2 DEF Safety, NoFreePro, Paid, PaidIffGranted, StarsGrantedOnce, InvoiceOfItsBuyer
    <2> QED BY <2>1, <2>2, <2>3, <2>4, <2>5, WriteStep
  <1>4. ASSUME NEW p \in Payments, Check(s, p) PROVE IInv'
    <2> DEFINE seen == Loaded({p})
               t == [Idle EXCEPT !.op = "check", !.todo = {p}, !.seen = seen]
    <2>0. {p} \in SUBSET Payments
      OBVIOUS
    <2>2. tx' = [tx EXCEPT ![s] = t] /\ UNCHANGED <<payments, invoices, star, granted>>
      BY <1>4 DEF Check
    <2>3. seen \in [Payments -> Rows \cup {NULL}] /\ seen[p] = payments[p]
      BY <2>0, LoadedFacts
    <2> HIDE DEF seen
    <2>1. t \in Txs /\ t.op = "check" /\ t.todo = {p} /\ t.seen[p] = payments[p]
      BY <1>0, <2>0, <2>3 DEF Txs
    <2> HIDE DEF t
    <2>4. SessionOK(t)
      BY <1>4, <2>1 DEF SessionOK, Check, TablesOK
    <2> QED BY <2>1, <2>2, <2>4, QuietStep
  <1>5. ASSUME Reconcile(s) PROVE IInv'
    <2> DEFINE listed == {p \in Payments : /\ Expire(payments)[p].provider = "crypto"
                                          /\ Expire(payments)[p].status = "pending"
                                          /\ payments[p].invoice # NULL}
               seen == Loaded(listed)
               t == IF listed = {} THEN tx[s]
                    ELSE [Idle EXCEPT !.op = "reconcile", !.todo = listed, !.seen = seen]
    <2>1. /\ payments' = Expire(payments) /\ UNCHANGED <<invoices, star, granted>>
          /\ tx' = [tx EXCEPT ![s] = t]
      BY <1>5 DEF Reconcile
    <2>2. \A p \in Payments : /\ payments'[p] \in Rows
                              /\ payments'[p].provider = payments[p].provider
                              /\ payments'[p].invoice = payments[p].invoice
                              /\ payments'[p].user = payments[p].user
                              /\ payments'[p].status = "none" <=> payments[p].status = "none"
                              /\ payments'[p].status = "paid" <=> payments[p].status = "paid"
      <3> SUFFICES ASSUME NEW p \in Payments
                   PROVE  /\ payments'[p] \in Rows
                          /\ payments'[p].provider = payments[p].provider
                          /\ payments'[p].invoice = payments[p].invoice
                          /\ payments'[p].user = payments[p].user
                          /\ payments'[p].status = "none" <=> payments[p].status = "none"
                          /\ payments'[p].status = "paid" <=> payments[p].status = "paid"
        OBVIOUS
      <3>1. payments[p] \in Rows
        OBVIOUS
      <3> QED BY <2>1, <3>1 DEF Expire, Rows
    <2>3. payments' \in [Payments -> Rows]
      BY <2>1, <2>2 DEF Expire
    <2>4. Grows /\ TablesOK' /\ TablesTyped'
      BY <2>1, <2>2, <2>3 DEF Grows, TablesOK, TablesTyped, Orders
    <2>5. Safety'
      BY <2>1, <2>2
      DEF Safety, NoFreePro, Paid, PaidIffGranted, StarsGrantedOnce, InvoiceOfItsBuyer, Orders
    <2>6. t \in Txs /\ SessionOK(t)
      <3>1. CASE listed = {}
        <4> QED BY <3>1 DEF SessionsOK
      <3>2. CASE listed # {}
        <4>0. listed \in SUBSET Payments
          OBVIOUS
        <4>3. seen \in [Payments -> Rows \cup {NULL}] /\ \A p \in listed : seen[p] = payments[p]
          BY <4>0, LoadedFacts
        <4>2. \A p \in listed : /\ payments[p].provider = "crypto"
                                /\ payments[p].invoice # NULL /\ payments[p].status # "paid"
          BY <2>1, <2>2
        <4> HIDE DEF listed, seen
        <4>1. /\ t \in Txs /\ t.op = "reconcile" /\ t.todo = listed
              /\ \A p \in listed : t.seen[p] = payments[p]
          BY <1>0, <3>2, <4>0, <4>3 DEF Txs
        <4> HIDE DEF t
        <4> QED BY <4>0, <4>1, <4>2 DEF SessionOK, TablesOK
      <3> QED BY <3>1, <3>2
    <2> HIDE DEF t, listed
    <2>7. PICK u : u = t
      OBVIOUS
    <2>8. SessionOK(u)'
      BY <2>4, <2>6, <2>7, GrowsKeepsSession
    <2> QED BY <2>1, <2>4, <2>5, <2>6, <2>7, <2>8, WriteStep
  <1> QED BY <1>1, <1>2, <1>3, <1>4, <1>5 DEF Open
-----------------------------------------------------------------------------
\* An open session goes on.
LEMMA ProgressStep == ASSUME IInv, NEW s \in Sessions, Progress(s) PROVE IInv'
  <1> USE DEF IInv, TypeOK
  <1>0. tx[s] \in Txs /\ SessionOK(tx[s]) /\ Idle \in Txs /\ SessionOK(Idle)
    BY IdleFacts DEF SessionsOK
  <1>00. Grows => SessionOK(Idle)'
    BY IdleFacts DEF SessionOK
  <1>1. ASSUME NEW p \in Payments, InsertPayment(s, p) PROVE IInv'
    <2>0. PICK t : t = [tx[s] EXCEPT !.op = "invoice", !.todo = {p}]
      OBVIOUS
    <2> DEFINE row == [NoRow EXCEPT !.user = tx[s].user, !.provider = tx[s].provider,
                                    !.status = "pending"]
    <2>1. /\ row \in Rows /\ row.status = "pending" /\ row.user = tx[s].user
          /\ row.invoice = NULL
      BY <1>0 DEF NoRow, Rows, Txs
    <2>2. t \in Txs /\ t.op = "invoice" /\ t.todo = {p} /\ t.user = tx[s].user
      BY <1>0, <2>0 DEF Txs
    <2>3. /\ payments' = [payments EXCEPT ![p] = row] /\ tx' = [tx EXCEPT ![s] = t]
          /\ UNCHANGED <<invoices, star, granted>>
          /\ payments[p].status = "none"
      BY <1>1, <2>0 DEF InsertPayment
    <2> HIDE DEF row
    <2>4. star[p] = "none" /\ granted[p] = 0 /\ \A i \in Invoices : invoices[i].for # p
      BY <2>3, NullFacts DEF TablesOK, Safety, PaidIffGranted
    <2>5. Grows /\ TablesOK' /\ TablesTyped'
      BY <2>1, <2>3, <2>4 DEF Grows, TablesOK, TablesTyped, Orders
    <2>6. Safety'
      BY <2>1, <2>3, <2>4
      DEF Safety, NoFreePro, Paid, PaidIffGranted, StarsGrantedOnce, InvoiceOfItsBuyer, Orders
    <2>7. payments'[p].status # "none" /\ payments'[p].user = t.user
      BY <2>1, <2>2, <2>3
    <2>8. SessionOK(t)'
      BY <2>2, <2>7 DEF SessionOK
    <2> QED BY <2>2, <2>3, <2>5, <2>6, <2>8, WriteStep
  <1>2. ASSUME NEW p \in Payments, NEW i \in Invoices, IssueInvoice(s, p, i) PROVE IInv'
    <2> DEFINE row == [payments[p] EXCEPT !.invoice = i, !.url = TRUE]
               order == [for |-> p, holder |-> tx[s].user, paid |-> FALSE]
    <2>1. /\ row \in Rows /\ row.status = payments[p].status /\ row.user = payments[p].user
          /\ row.provider = payments[p].provider /\ row.invoice = i
      BY ZenonT(30) DEF Rows
    <2>2. /\ order \in Orders /\ order.for = p /\ order.holder = tx[s].user
      BY <1>0 DEF Orders, Txs
    <2>a. payments' = [payments EXCEPT ![p] = row]
      BY <1>2, payments \in [Payments -> Rows] DEF IssueInvoice
    <2>b. /\ tx' = [tx EXCEPT ![s] = Idle]
          /\ invoices' = [invoices EXCEPT ![i] = order]
          /\ UNCHANGED <<star, granted>>
      BY <1>2 DEF IssueInvoice
    <2>c. invoices[i].for = NULL
      BY <1>2 DEF IssueInvoice, NoOrder
    <2>3. /\ payments' = [payments EXCEPT ![p] = row] /\ tx' = [tx EXCEPT ![s] = Idle]
          /\ invoices' = [invoices EXCEPT ![i] = order]
          /\ UNCHANGED <<star, granted>>
          /\ invoices[i].for = NULL
      BY <2>a, <2>b, <2>c
    <2>4. payments[p].status # "none" /\ payments[p].user = tx[s].user
      BY <1>0, <1>2 DEF IssueInvoice, SessionOK
    <2> HIDE DEF row, order
    <2>5. /\ \A q \in Payments : /\ payments'[q].status = payments[q].status
                                 /\ payments'[q].user = payments[q].user
                                 /\ payments'[q].provider = payments[q].provider
          /\ \A j \in Invoices : invoices[j].for # NULL => invoices'[j] = invoices[j]
      BY <2>1, <2>3
    <2>6. Grows
      BY <2>3, <2>5 DEF Grows
    <2>7. TablesOK'
      <3>1. ASSUME NEW q \in Payments
            PROVE  /\ payments'[q].status = "none" => payments'[q].provider = NULL
                   /\ star'[q] # "none" => payments'[q].provider = "stars"
        BY <2>3, <2>5 DEF TablesOK
      <3>2. ASSUME NEW q \in Payments, payments'[q].invoice # NULL
            PROVE  invoices'[payments'[q].invoice].for = q
        <4>1. CASE q = p
          BY <2>1, <2>2, <2>3, <4>1
        <4>2. CASE q # p
          <5>1. payments'[q] = payments[q]
            BY <2>3, <4>2
          <5>2. payments[q].invoice \in Invoices
            BY <3>2, <5>1 DEF Rows
          <5>3. invoices[payments[q].invoice].for = q
            BY <3>2, <5>1 DEF TablesOK
          <5> QED BY <2>5, <5>1, <5>2, <5>3, NullFacts
        <4> QED BY <4>1, <4>2
      <3>3. ASSUME NEW j \in Invoices, invoices'[j].for # NULL
            PROVE  payments'[invoices'[j].for].status # "none"
        BY <2>2, <2>3, <2>4, <2>5, <3>3 DEF TablesOK, Orders
      <3> HIDE DEF IInv, TypeOK
      <3> QED BY ONLY <3>1, <3>2, <3>3 DEF TablesOK
    <2>8. TablesTyped'
      BY <2>1, <2>2, <2>3 DEF TablesTyped
    <2>9. Safety'
      <3>1. NoFreePro' /\ PaidIffGranted' /\ StarsGrantedOnce'
        BY <2>3, <2>5, NullFacts DEF Safety, NoFreePro, Paid, PaidIffGranted, StarsGrantedOnce
      <3>2. InvoiceOfItsBuyer'
        BY <2>2, <2>3, <2>4, <2>5 DEF Safety, InvoiceOfItsBuyer, Orders
      <3> QED BY <3>1, <3>2 DEF Safety
    <2> QED BY <1>0, <1>00, <2>3, <2>6, <2>7, <2>8, <2>9, WriteStep
  <1>3. ASSUME NEW p \in Payments, IssueLink(s, p) PROVE IInv'
    <2> DEFINE row == [payments[p] EXCEPT !.url = TRUE]
    <2>1. /\ row \in Rows /\ row.status = payments[p].status /\ row.user = payments[p].user
          /\ row.provider = payments[p].provider /\ row.invoice = payments[p].invoice
      <3>1. payments[p] \in Rows
        BY DEF IInv, TypeOK
      <3> QED BY ONLY <3>1 DEF Rows
    <2>2. /\ payments' = [payments EXCEPT ![p] = row] /\ tx' = [tx EXCEPT ![s] = Idle]
          /\ UNCHANGED <<invoices, star, granted>>
      BY <1>3 DEF IssueLink
    <2> HIDE DEF row
    <2>3. \A q \in Payments : /\ payments'[q].status = payments[q].status
                              /\ payments'[q].provider = payments[q].provider
                              /\ payments'[q].invoice = payments[q].invoice
                              /\ payments'[q].user = payments[q].user
      BY <2>1, <2>2
    <2>4. Grows /\ TablesOK' /\ TablesTyped'
      BY <2>1, <2>2, <2>3 DEF Grows, TablesOK, TablesTyped, Orders
    <2>5. Safety'
      BY <2>2, <2>3
      DEF Safety, NoFreePro, Paid, PaidIffGranted, StarsGrantedOnce, InvoiceOfItsBuyer, Orders
    <2> QED BY <1>0, <1>00, <2>2, <2>4, <2>5, WriteStep
  <1>4. ASSUME Poll(s) PROVE IInv'
    <2> DEFINE found == {p \in tx[s].todo : invoices[tx[s].seen[p].invoice].paid}
    <2>0. PICK t : t = IF found = {} THEN Idle
                       ELSE [tx[s] EXCEPT !.op = "confirm", !.todo = found]
      OBVIOUS
    <2>1. /\ tx' = [tx EXCEPT ![s] = t] /\ UNCHANGED <<payments, invoices, star, granted>>
          /\ tx[s].op \in {"check", "reconcile"}
      BY <1>4, <2>0 DEF Poll
    <2>2. t \in Txs /\ SessionOK(t)
      <3>1. CASE found = {}
        BY <1>0, <2>0, <3>1
      <3>2. CASE found # {}
        <4>1. /\ t \in Txs /\ t.op = "confirm" /\ t.todo = found /\ t.seen = tx[s].seen
          BY <1>0, <2>0, <3>2 DEF Txs
        <4>2. \A p \in found : p \in tx[s].todo /\ invoices[tx[s].seen[p].invoice].paid
          OBVIOUS
        <4> HIDE DEF found
        <4> QED BY <1>0, <2>1, <4>1, <4>2 DEF SessionOK
      <3> QED BY <3>1, <3>2
    <2> QED BY <2>1, <2>2, QuietStep
  <1>5. ASSUME NEW p \in Payments, Apply(s, p) PROVE IInv'
    <2>0. PICK t : t = Rest(tx[s], p)
      OBVIOUS
    <2>1. t \in Txs /\ SessionOK(t)
      BY <1>0, <2>0, RestFacts
    <2> DEFINE row == [payments[p] EXCEPT !.status = "paid"]
    <2>2. /\ row \in Rows /\ row.status = "paid" /\ row.user = payments[p].user
          /\ row.provider = payments[p].provider /\ row.invoice = payments[p].invoice
      BY DEF Rows
    <2>3. /\ payments' = [payments EXCEPT ![p] = row] /\ tx' = [tx EXCEPT ![s] = t]
          /\ granted' = [granted EXCEPT ![p] = @ + 1] /\ UNCHANGED <<invoices, star>>
      BY <1>5, <2>0 DEF Apply
    <2>4. Paid(p) /\ (payments[p].provider = "stars" => payments[p].status # "paid")
      <3>1. CASE tx[s].op = "confirm"
        <4>1. /\ payments[p].provider = "crypto" /\ tx[s].seen[p].invoice \in Invoices
              /\ invoices[tx[s].seen[p].invoice].for = p
              /\ invoices[tx[s].seen[p].invoice].paid
          BY <1>0, <1>5, <3>1 DEF Apply, Confirming, SessionOK, Rows
        <4> QED BY <4>1 DEF Paid
      <3>2. CASE tx[s].op = "deliver"
        <4>1. star[p] \in {"charged", "acknowledged"}
          BY <1>0, <1>5, <3>2 DEF Apply, Confirming, SessionOK
        <4>2. payments[p].status # "paid"
          BY <1>5, <3>2 DEF Apply, Settled
        <4> QED BY <4>1, <4>2 DEF Paid
      <3> QED BY <1>5, <3>1, <3>2 DEF Apply, Confirming
    <2> HIDE DEF row
    <2>5. \A q \in Payments : /\ payments'[q].user = payments[q].user
                              /\ payments'[q].provider = payments[q].provider
                              /\ payments'[q].invoice = payments[q].invoice
                              /\ q # p => payments'[q].status = payments[q].status
      BY <2>2, <2>3
    <2>6. payments'[p].status = "paid"
      BY <2>2, <2>3
    <2>7. Grows /\ TablesTyped' /\ SessionOK(t)'
      <3>1. Grows
        BY <2>3, <2>5, <2>6 DEF Grows
      <3>2. TablesTyped'
        BY <2>2, <2>3 DEF TablesTyped
      <3> QED BY <2>1, <3>1, <3>2, GrowsKeepsSession
    <2>8. TablesOK'
      BY <2>3, <2>5, <2>6 DEF TablesOK, Orders
    <2>9. Safety'
      <3>1. \A q \in Payments : Paid(q)' <=> Paid(q)
        BY <2>3 DEF Paid
      <3>2. /\ granted'[p] = granted[p] + 1 /\ granted[p] \in Nat
            /\ \A q \in Payments : q # p => granted'[q] = granted[q]
        BY <2>3
      <3>3. NoFreePro'
        BY <2>4, <3>1, <3>2 DEF Safety, NoFreePro
      <3>4. PaidIffGranted'
        BY <2>5, <2>6, <3>2 DEF Safety, PaidIffGranted
      <3>5. StarsGrantedOnce'
        BY <2>4, <2>5, <3>2 DEF Safety, PaidIffGranted, StarsGrantedOnce
      <3>6. InvoiceOfItsBuyer'
        BY <2>3, <2>5 DEF Safety, InvoiceOfItsBuyer, Orders
      <3> QED BY <3>3, <3>4, <3>5, <3>6 DEF Safety
    <2> QED BY <2>1, <2>3, <2>7, <2>8, <2>9, WriteStep
  <1>6. ASSUME NEW p \in Payments, AlreadyApplied(s, p) PROVE IInv'
    <2>1. tx[s].op = "deliver"
      BY <1>0, <1>6 DEF AlreadyApplied, Confirming, Settled, SessionOK
    <2>2. PICK seen : seen = Loaded(tx[s].todo)
      OBVIOUS
    <2>3. PICK u : u = [tx[s] EXCEPT !.seen = seen]
      OBVIOUS
    <2>4. PICK t : t = Rest(u, p)
      OBVIOUS
    <2>5. tx' = [tx EXCEPT ![s] = t] /\ UNCHANGED <<payments, invoices, star, granted>>
      BY <1>6, <2>2, <2>3, <2>4 DEF AlreadyApplied
    <2>6. tx[s].todo \in SUBSET Payments
      BY <1>0 DEF Txs
    <2>7. seen \in [Payments -> Rows \cup {NULL}]
      BY <2>2, <2>6, LoadedFacts
    <2>8. u \in Txs /\ u.op = tx[s].op /\ u.todo = tx[s].todo
      BY <1>0, <2>3, <2>7 DEF Txs
    <2>9. SessionOK(u)
      BY <1>0, <2>1, <2>8 DEF SessionOK
    <2> QED BY <2>4, <2>5, <2>8, <2>9, RestFacts, QuietStep
  <1> QED BY <1>1, <1>2, <1>3, <1>4, <1>5, <1>6 DEF Progress

\* A provider error or a crash ends the session and writes nothing.
LEMMA StopStep == ASSUME IInv, NEW s \in Sessions, Stop(s) PROVE IInv'
  BY IdleFacts, QuietStep DEF Stop
-----------------------------------------------------------------------------
\* Every step keeps the invariant.
LEMMA NextStep == IInv /\ [Next]_vars => IInv'
  <1> SUFFICES ASSUME IInv, [Next]_vars PROVE IInv'
    OBVIOUS
  <1>1. CASE Outside
    BY <1>1, OutsideStep
  <1>2. ASSUME NEW s \in Sessions, Open(s) \/ Progress(s) \/ Stop(s) PROVE IInv'
    BY <1>2, OpenStep, ProgressStep, StopStep
  <1>3. CASE UNCHANGED vars
    <2>1. UNCHANGED tx /\ UNCHANGED <<payments, invoices, star, granted>>
      BY <1>3 DEF vars
    <2> QED BY <2>1
        DEF IInv, TypeOK, TablesOK, SessionsOK, SessionOK, Safety, NoFreePro, Paid,
            PaidIffGranted, StarsGrantedOnce, InvoiceOfItsBuyer
  <1> QED BY <1>1, <1>2, <1>3 DEF Next

\* For every set of users, payments, invoices and sessions: the types hold, Pro is never
\* given without money for that payment, `paid` and the granted period go together, a
\* Stars payment is applied once, and the link of an invoice is handed to its buyer.
THEOREM PaymentsSafety ==
    Spec => [](TypeOK /\ NoFreePro /\ PaidIffGranted /\ StarsGrantedOnce /\ InvoiceOfItsBuyer)
  <1>1. Init => IInv
    BY InitIInv
  <1>2. IInv /\ [Next]_vars => IInv'
    BY NextStep
  <1>3. IInv => TypeOK /\ NoFreePro /\ PaidIffGranted /\ StarsGrantedOnce /\ InvoiceOfItsBuyer
    BY DEF IInv, Safety
  <1> QED BY <1>1, <1>2, <1>3, PTL DEF Spec
-----------------------------------------------------------------------------
(* With one session at a time every payment, crypto included, is applied at most once: *)
(* the double application that TLC finds with two sessions needs their overlap.        *)

\* What the one session is about to confirm is unpaid in the table, too.
NothingBehindItsBack == \A s \in Sessions :
    tx[s].op \in {"check", "reconcile", "confirm"} =>
        \A p \in tx[s].todo : payments[p].status # "paid"

SerialInv == IInv /\ GrantedOnce /\ NothingBehindItsBack

\* Only confirm_payment makes a payment paid, and grants a period.
LEMMA OnlyApply ==
    ASSUME IInv, [Next]_vars, ~ \E s \in Sessions, p \in Payments : Apply(s, p)
    PROVE  /\ granted' = granted
           /\ \A p \in Payments : payments'[p].status = "paid" => payments[p].status = "paid"
  <1> USE DEF IInv, TypeOK
  <1>1. CASE Outside
    <2>1. ASSUME NEW p \in Payments, PastDue(p)
          PROVE  /\ granted' = granted
                 /\ \A q \in Payments : payments'[q].status = payments[q].status
      BY <2>1 DEF PastDue, Rows
    <2> QED BY <1>1, <2>1 DEF Outside, PayInvoice, PreCheckout, ChargeStars
  <1>2. ASSUME NEW s \in Sessions, Open(s)
        PROVE  /\ granted' = granted
               /\ \A p \in Payments : payments'[p].status = "paid" => payments[p].status = "paid"
    <2>1. CASE Reconcile(s)
      <3>1. granted' = granted /\ payments' = Expire(payments)
        BY <2>1 DEF Reconcile
      <3> QED BY <3>1 DEF Expire, Rows
    <2>2. CASE ~Reconcile(s)
      BY <1>2, <2>2 DEF Open, AskFirst, AskAgain, Deliver, Check
    <2> QED BY <2>1, <2>2
  <1>3. ASSUME NEW s \in Sessions, Progress(s)
        PROVE  /\ granted' = granted
               /\ \A p \in Payments : payments'[p].status = "paid" => payments[p].status = "paid"
    <2>1. ASSUME NEW p \in Payments, InsertPayment(s, p)
          PROVE  /\ granted' = granted
                 /\ \A q \in Payments : payments'[q].status = "paid" => payments[q].status = "paid"
      BY <2>1 DEF InsertPayment, NoRow
    <2>2. ASSUME NEW p \in Payments, NEW i \in Invoices, IssueInvoice(s, p, i)
          PROVE  /\ granted' = granted
                 /\ \A q \in Payments : payments'[q].status = payments[q].status
      <3> DEFINE row == [payments[p] EXCEPT !.invoice = i, !.url = TRUE]
      <3>1. row.status = payments[p].status
        BY DEF Rows
      <3>2. payments' = [payments EXCEPT ![p] = row]
        BY <2>2, payments \in [Payments -> Rows] DEF IssueInvoice
      <3> HIDE DEF row
      <3> QED BY <2>2, <3>1, <3>2 DEF IssueInvoice
    <2>3. ASSUME NEW p \in Payments, IssueLink(s, p)
          PROVE  /\ granted' = granted
                 /\ \A q \in Payments : payments'[q].status = payments[q].status
      BY <2>3 DEF IssueLink, Rows
    <2>4. ASSUME NEW p \in Payments, Poll(s) \/ AlreadyApplied(s, p)
          PROVE  UNCHANGED <<granted, payments>>
      BY <2>4 DEF Poll, AlreadyApplied
    <2>5. Poll(s) => UNCHANGED <<granted, payments>>
      BY DEF Poll
    <2> QED BY <1>3, <2>1, <2>2, <2>3, <2>4, <2>5 DEF Progress
  <1>4. ASSUME NEW s \in Sessions, Stop(s) PROVE UNCHANGED <<granted, payments>>
    BY <1>4 DEF Stop
  <1> QED BY <1>1, <1>2, <1>3, <1>4 DEF Next, vars

\* A session's list of payments to confirm is made of unpaid ones and then only shrinks.
LEMMA TodoOnlyShrinks ==
    ASSUME IInv, NEW s \in Sessions, Sessions = {s}, [Next]_vars,
           ~ \E p \in Payments : Apply(s, p),
           tx'[s].op \in {"check", "reconcile", "confirm"}, NEW p \in tx'[s].todo
    PROVE  \/ tx[s].op \in {"check", "reconcile", "confirm"} /\ p \in tx[s].todo
           \/ payments[p].status # "paid"
  <1> USE DEF IInv, TypeOK
  <1>0. tx[s] \in Txs /\ Idle.op = "idle" /\ Idle.todo = {}
    BY IdleFacts
  <1>1. CASE Open(s)
    <2>1. CASE \E q \in Payments : Check(s, q)
      BY <1>0, <2>1 DEF Check, Txs
    <2>2. CASE Reconcile(s)
      <3> DEFINE listed == {q \in Payments : /\ Expire(payments)[q].provider = "crypto"
                                            /\ Expire(payments)[q].status = "pending"
                                            /\ payments[q].invoice # NULL}
      <3>1. /\ listed = {} => tx' = tx
            /\ listed # {} => tx'[s].todo = listed
            /\ tx[s] = Idle
        BY <1>0, <2>2 DEF Reconcile, Txs
      <3>2. \A q \in listed : payments[q].status # "paid"
        BY DEF Expire, Rows
      <3> QED BY <1>0, <3>1, <3>2
    <2>3. CASE \E u \in Users, m \in {"crypto", "stars"} : AskFirst(s, u, m) \/ AskAgain(s, u, m)
      BY <1>0, <2>3 DEF AskFirst, AskAgain, Txs
    <2>4. CASE \E q \in Payments : Deliver(s, q)
      BY <1>0, <2>4 DEF Deliver, Txs
    <2> QED BY <1>1, <2>1, <2>2, <2>3, <2>4 DEF Open
  <1>2. CASE Progress(s)
    <2>1. CASE Poll(s)
      BY <1>0, <2>1 DEF Poll, Txs
    <2>2. ASSUME NEW q \in Payments, AlreadyApplied(s, q)
          PROVE  FALSE
      <3>1. tx[s].op = "deliver"
        BY <2>2 DEF AlreadyApplied, Confirming, Settled, SessionsOK, SessionOK
      <3> HIDE DEF IInv, TypeOK
      <3>2. PICK t : t = [tx[s] EXCEPT !.seen = Loaded(tx[s].todo)]
        OBVIOUS
      <3>3. t.op = "deliver" /\ tx'[s] = Rest(t, q)
        BY <1>0, <2>2, <3>1, <3>2 DEF AlreadyApplied, Txs, IInv, TypeOK
      <3>4. Rest(t, q).op \in {"idle", "deliver"}
        BY <1>0, <3>1, <3>2, <3>3 DEF Rest, Txs
      <3> QED BY <3>3, <3>4
    <2>3. ASSUME NEW q \in Payments, NEW i \in Invoices,
                 InsertPayment(s, q) \/ IssueLink(s, q) \/ IssueInvoice(s, q, i) PROVE FALSE
      BY <1>0, <2>3 DEF InsertPayment, IssueLink, IssueInvoice, Txs
    <2>4. ASSUME NEW q \in Payments, InsertPayment(s, q) \/ IssueLink(s, q) PROVE FALSE
      BY <1>0, <2>4 DEF InsertPayment, IssueLink, Txs
    <2> QED BY <1>2, <2>1, <2>2, <2>3, <2>4 DEF Progress
  <1>3. CASE Stop(s)
    BY <1>0, <1>3 DEF Stop
  <1>4. CASE UNCHANGED tx
    BY <1>4
  <1>5. Outside => UNCHANGED tx
    BY DEF Outside, PastDue, PayInvoice, PreCheckout, ChargeStars
  <1> QED BY <1>1, <1>2, <1>3, <1>4, <1>5 DEF Next, vars

\* For every set of users, payments and invoices: one session at a time grants each
\* payment at most one period.
THEOREM SerialGrantedOnce ==
    ASSUME NEW s, Sessions = {s}
    PROVE  Spec => []GrantedOnce
  <1>1. Init => SerialInv
    BY InitIInv, IdleFacts DEF SerialInv, Init, GrantedOnce, NothingBehindItsBack
  <1>2. SerialInv /\ [Next]_vars => SerialInv'
    <2> SUFFICES ASSUME SerialInv, [Next]_vars PROVE GrantedOnce' /\ NothingBehindItsBack'
      BY NextStep DEF SerialInv
    <2>1. tx[s] \in Txs /\ IInv /\ TypeOK
      BY DEF SerialInv, IInv, TypeOK
    <2>2. ASSUME NEW p \in Payments, Apply(s, p) PROVE GrantedOnce' /\ NothingBehindItsBack'
      <3>1. payments[p].status # "paid"
        BY <2>2 DEF Apply, Confirming, Settled, SerialInv, NothingBehindItsBack
      <3>2. granted[p] = 0 /\ granted' = [granted EXCEPT ![p] = @ + 1]
        BY <2>1, <2>2, <3>1 DEF SerialInv, IInv, TypeOK, Safety, PaidIffGranted, Apply
      <3>3. GrantedOnce'
        BY <2>1, <3>2 DEF SerialInv, GrantedOnce, TypeOK
      <3>4. /\ tx'[s].op = tx[s].op \/ tx'[s].op = "idle"
            /\ tx'[s].todo \subseteq tx[s].todo \ {p}
        BY <2>1, <2>2, IdleFacts DEF Apply, Rest, Txs, TypeOK
      <3>5. \A q \in Payments \ {p} : payments'[q] = payments[q]
        BY <2>1, <2>2 DEF Apply, TypeOK
      <3>6. NothingBehindItsBack'
        BY <2>1, <3>4, <3>5 DEF SerialInv, NothingBehindItsBack, Txs
      <3> QED BY <3>3, <3>6
    <2>3. ASSUME ~ \E p \in Payments : Apply(s, p)
          PROVE  GrantedOnce' /\ NothingBehindItsBack'
      <3>1. /\ granted' = granted
            /\ \A p \in Payments : payments'[p].status = "paid" => payments[p].status = "paid"
        BY <2>1, <2>3, OnlyApply
      <3>2. tx'[s].todo \subseteq Payments
        BY NextStep, <2>1 DEF IInv, TypeOK, Txs
      <3>3. ASSUME tx'[s].op \in {"check", "reconcile", "confirm"}, NEW p \in tx'[s].todo
            PROVE  payments'[p].status # "paid"
        BY <2>1, <2>3, <3>1, <3>2, <3>3, TodoOnlyShrinks DEF SerialInv, NothingBehindItsBack
      <3> QED BY <3>1, <3>3 DEF SerialInv, GrantedOnce, NothingBehindItsBack
    <2> QED BY <2>2, <2>3
  <1>3. SerialInv => GrantedOnce
    BY DEF SerialInv
  <1> QED BY <1>1, <1>2, <1>3, PTL DEF Spec
-----------------------------------------------------------------------------
(*************** BulkJobs ***************)

\* The worker is in a stretch of code that claims item i, or that has read it pending.
Claiming(i) == loop.op = "claim" /\ loop.who = i
ReadPending(i) == loop.op \in {"dispatch", "claim"} /\ loop.items[i] = "pending"

\* What a stretch of worker code rests on.
LoopInv ==
    /\ loop.op = "free" => loop = Free
    /\ loop.op = "dispatch" => loop.who \in Dispatches /\ disp[loop.who].at = "queued"
                               /\ disp[loop.who].tries \in 1..2
    /\ loop.op = "claim" => /\ loop.who \in Items
                            /\ loop.items[loop.who] = "pending"
                            /\ loop.to \in {"running", "failed", "skipped"}
    /\ loop.op = "finish" => /\ loop.who \in Items
                             /\ loop.at \in {"claimed", "acting"}
                             /\ execs[loop.who][loop.at] > 0
                             /\ loop.to \in Results(loop.at)

\* Tries stay within max_tries: what waits can be tried again.
TriesInv == \A d \in Dispatches : disp[d].at \in {"unused", "asked", "queued"} =>
                disp[d].tries < 2 \/ (loop.op = "dispatch" /\ loop.who = d)

\* What was read pending has nobody at work and was at most cancelled or deleted since.
ReadInv ==
    \A i \in Items : ReadPending(i) =>
        Working(i) = 0 /\ item[i] \in {"pending", "cancelled", "gone"}

\* An item whose action may still start has a run left.
RunLeft ==
    \A i \in Items : item[i] = "pending" \/ Claiming(i) \/ execs[i]["claimed"] > 0 =>
        runs[i] <= resets[i]

\* A deleted account is a disturbance, and its row does not come back.
GoneInv ==
    \A i \in Items : /\ item[i] = "gone" => hurt > 0
                     /\ loop.op # "free" /\ loop.items[i] = "gone" => item[i] = "gone"

\* A dispatch that has read an item closed is not the one that will send it.
DispatchInv ==
    hurt = 0 /\ loop.op = "dispatch" =>
        \A i \in Items : item[i] = "pending" /\ loop.items[i] # "pending" =>
            \/ msgs[i] > 0 \/ execs[i]["deferred"] > 0
            \/ \E d \in Dispatches \ {loop.who} :
                  \/ disp[d].at \in {"asked", "queued"}
                  \/ disp[d].at = "sending" /\ i \in disp[d].todo

\* Until a retry, what the worker has read closed stays closed, and it claims items of
\* open jobs only.
UnretriedInv ==
    (\A i \in Items : resets[i] = 0) /\ loop.op # "free" =>
        /\ \A i \in Items : loop.items[i] \notin Unended => item[i] \notin Unended
        /\ loop.op = "claim" => job \notin {"done", "failed"}

BulkInv == /\ BulkTypeOK /\ LoopInv /\ TriesInv /\ ReadInv /\ GoneInv /\ OneRunner
           /\ RunOncePerReset /\ RunLeft
           /\ NothingForgotten /\ DispatchInv
           /\ ClosedJobIsClosed /\ UnretriedInv

\* Recounting gives a job status.
LEMMA RecountType ==
    ASSUME NEW seen \in JobStatuses, NEW cur \in JobStatuses, NEW view
    PROVE  Written(seen, Recomputed(seen, view), cur) \in JobStatuses
  BY DEF Written, Recomputed, JobStatuses

\* Nobody works on a pending item.
LEMMA PendingIdle ==
    ASSUME BulkTypeOK, OneRunner, NEW i \in Items, item[i] = "pending"
    PROVE  Working(i) = 0
  <1>1. execs[i]["claimed"] \in Nat /\ execs[i]["acting"] \in Nat
    BY DEF BulkTypeOK, Places
  <1> QED BY <1>1 DEF OneRunner, Working

\* A stretch of worker code starts with a snapshot.
LEMMA ReadType ==
    ASSUME BulkTypeOK, NEW op \in {"dispatch", "claim", "finish"},
           NEW who \in Items \cup Dispatches, NEW at \in Places \cup {Neither},
           NEW to \in ItemStatuses \cup {Neither}
    PROVE  Read(op, who, at, to) \in Loops
  BY DEF BulkTypeOK, Loops, Read

\* The idle event loop is well typed.
LEMMA FreeType == Free \in Loops
  BY DEF Free, Loops, JobStatuses, Table, ItemStatuses

\* A dispatch gets enqueued: it is still on its way to the worker.
LEMMA EnqueueStep == ASSUME BulkInv, NEW d \in Dispatches, Enqueue(d) PROVE BulkInv'
  <1>1. BulkTypeOK'
    BY DEF BulkInv, BulkTypeOK, Enqueue, DispatchRows, Reqs, JobStatuses, ItemStatuses
  <1>2. LoopInv'
    BY DEF BulkInv, LoopInv, Enqueue
  <1>3. TriesInv'
    BY DEF BulkInv, TriesInv, Enqueue
  <1>4. ReadInv'
    BY DEF BulkInv, ReadInv, ReadPending, Working, Enqueue
  <1>5. GoneInv'
    BY DEF BulkInv, GoneInv, Enqueue
  <1>6. OneRunner'
    BY DEF BulkInv, OneRunner, Working, Enqueue
  <1>7. RunOncePerReset'
    BY DEF BulkInv, RunOncePerReset, Enqueue
  <1>8. RunLeft'
    BY DEF BulkInv, RunLeft, Claiming, Enqueue
  <1>9. NothingForgotten'
    BY DEF BulkInv, NothingForgotten, OnItsWay, Working, Enqueue
  <1>10. DispatchInv'
    BY DEF BulkInv, DispatchInv, Enqueue
  <1>11. ClosedJobIsClosed'
    BY DEF BulkInv, ClosedJobIsClosed, Enqueue
  <1>12. UnretriedInv'
    BY DEF BulkInv, UnretriedInv, Enqueue
  <1> QED BY <1>1, <1>2, <1>3, <1>4, <1>5, <1>6, <1>7, <1>8, <1>9, <1>10, <1>11, <1>12
        DEF BulkInv

\* A request reads the job and changes no table.
LEMMA RequestStep ==
    ASSUME BulkInv, NEW op \in {"cancel", "retry"}, Request(op)
    PROVE  BulkInv'
  <1>1. BulkTypeOK'
    BY DEF BulkInv, BulkTypeOK, Request, Reqs
  <1>2. LoopInv'
    BY DEF BulkInv, LoopInv, Request
  <1>3. TriesInv'
    BY DEF BulkInv, TriesInv, Request
  <1>4. ReadInv'
    BY DEF BulkInv, ReadInv, ReadPending, Working, Request
  <1>5. GoneInv'
    BY DEF BulkInv, GoneInv, Request
  <1>6. OneRunner'
    BY DEF BulkInv, OneRunner, Working, Request
  <1>7. RunOncePerReset'
    BY DEF BulkInv, RunOncePerReset, Request
  <1>8. RunLeft'
    BY DEF BulkInv, RunLeft, Claiming, Request
  <1>9. NothingForgotten'
    BY DEF BulkInv, NothingForgotten, OnItsWay, Working, Request
  <1>10. DispatchInv'
    BY DEF BulkInv, DispatchInv, Request
  <1>11. ClosedJobIsClosed'
    BY DEF BulkInv, ClosedJobIsClosed, Request
  <1>12. UnretriedInv'
    BY DEF BulkInv, UnretriedInv, Request
  <1> QED BY <1>1, <1>2, <1>3, <1>4, <1>5, <1>6, <1>7, <1>8, <1>9, <1>10, <1>11, <1>12
        DEF BulkInv

\* Cancelling takes pending items only, nobody works on them.
LEMMA CancelStep == ASSUME BulkInv, Cancel PROVE BulkInv'
  <1>1. BulkTypeOK'
    BY DEF BulkInv, BulkTypeOK, Cancel, NoReq, Table, Reqs, JobStatuses, ItemStatuses
  <1>2. LoopInv'
    BY DEF BulkInv, LoopInv, Cancel
  <1>3. TriesInv'
    BY DEF BulkInv, TriesInv, Cancel
  <1>4. ReadInv'
    BY DEF BulkInv, ReadInv, ReadPending, Working, Cancel
  <1>5. GoneInv'
    BY DEF BulkInv, GoneInv, Cancel
  <1>6. OneRunner'
    BY DEF BulkInv, OneRunner, Working, Cancel
  <1>7. RunOncePerReset'
    BY DEF BulkInv, RunOncePerReset, Cancel
  <1>8. RunLeft'
    BY DEF BulkInv, RunLeft, Claiming, Cancel
  <1>9. NothingForgotten'
    BY DEF BulkInv, NothingForgotten, Working, Cancel
  <1>10. DispatchInv'
    BY DEF BulkInv, DispatchInv, Cancel
  <1>11. ClosedJobIsClosed'
    BY DEF BulkInv, ClosedJobIsClosed, Cancel
  <1>12. UnretriedInv'
    BY DEF BulkInv, UnretriedInv, Unended, Cancel
  <1> QED BY <1>1, <1>2, <1>3, <1>4, <1>5, <1>6, <1>7, <1>8, <1>9, <1>10, <1>11, <1>12
        DEF BulkInv

\* A retry resets failed items, grants each a run and has a dispatch coming.
LEMMA RetryStep == ASSUME BulkInv, NEW d \in Dispatches, Retry(d) PROVE BulkInv'
  <1>1. BulkTypeOK'
    <2>1. item' \in Table /\ resets' \in [Items -> Nat]
      BY DEF Retry, BulkInv, BulkTypeOK, Table, ItemStatuses
    <2>2. job' \in JobStatuses
      BY DEF Retry, Written, BulkInv, BulkTypeOK, JobStatuses
    <2>3. disp' \in [Dispatches -> DispatchRows]
      <3>1. disp \in [Dispatches -> DispatchRows]
        BY DEF BulkInv, BulkTypeOK
      <3>2. [disp[d] EXCEPT !.at = "asked"] \in DispatchRows
        BY <3>1 DEF DispatchRows
      <3> QED BY <3>1, <3>2 DEF Retry
    <2>4. req' \in Reqs
      BY DEF Retry, NoReq, Reqs, JobStatuses
    <2> QED BY <2>1, <2>2, <2>3, <2>4 DEF Retry, BulkInv, BulkTypeOK
  <1>2. LoopInv'
    BY DEF BulkInv, LoopInv, Retry
  <1>3. TriesInv'
    BY DEF BulkInv, TriesInv, Retry
  <1>4. ReadInv'
    BY DEF BulkInv, ReadInv, ReadPending, Working, Retry
  <1>5. GoneInv'
    BY DEF BulkInv, GoneInv, Retry
  <1>6. OneRunner'
    BY DEF BulkInv, OneRunner, Working, Retry
  <1>7. RunOncePerReset'
    BY DEF BulkInv, RunOncePerReset, Retry, BulkTypeOK
  <1>8. RunLeft'
    BY DEF BulkInv, RunLeft, Claiming, Retry, BulkTypeOK, RunOncePerReset
  <1>9. NothingForgotten'
    BY DEF BulkInv, NothingForgotten, OnItsWay, Working, Retry, BulkTypeOK
  <1>10. DispatchInv'
    BY DEF BulkInv, DispatchInv, Retry, BulkTypeOK, LoopInv
  <1>11. ClosedJobIsClosed'
    BY DEF BulkInv, ClosedJobIsClosed, Retry, BulkTypeOK
  <1>12. UnretriedInv'
    BY DEF BulkInv, UnretriedInv, Retry, BulkTypeOK
  <1> QED BY <1>1, <1>2, <1>3, <1>4, <1>5, <1>6, <1>7, <1>8, <1>9, <1>10, <1>11, <1>12
        DEF BulkInv

\* A deleted account closes its item and counts as a disturbance.
LEMMA DeleteAccountStep == ASSUME BulkInv, NEW k \in Items, DeleteAccount(k) PROVE BulkInv'
  <1>1. BulkTypeOK'
    BY DEF BulkInv, BulkTypeOK, DeleteAccount, Table
  <1>2. LoopInv'
    BY DEF BulkInv, LoopInv, DeleteAccount
  <1>3. TriesInv'
    BY DEF BulkInv, TriesInv, DeleteAccount
  <1>4. ReadInv'
    BY DEF BulkInv, ReadInv, ReadPending, Working, DeleteAccount
  <1>5. GoneInv'
    BY DEF BulkInv, GoneInv, DeleteAccount, BulkTypeOK
  <1>6. OneRunner'
    BY DEF BulkInv, OneRunner, Working, DeleteAccount
  <1>7. RunOncePerReset'
    BY DEF BulkInv, RunOncePerReset, DeleteAccount
  <1>8. RunLeft'
    BY DEF BulkInv, RunLeft, Claiming, DeleteAccount
  <1>9. NothingForgotten'
    BY DEF BulkInv, NothingForgotten, DeleteAccount, BulkTypeOK
  <1>10. DispatchInv'
    BY DEF BulkInv, DispatchInv, DeleteAccount, BulkTypeOK
  <1>11. ClosedJobIsClosed'
    BY DEF BulkInv, ClosedJobIsClosed, Unended, DeleteAccount
  <1>12. UnretriedInv'
    BY DEF BulkInv, UnretriedInv, Unended, DeleteAccount
  <1> QED BY <1>1, <1>2, <1>3, <1>4, <1>5, <1>6, <1>7, <1>8, <1>9, <1>10, <1>11, <1>12
        DEF BulkInv

\* A dispatch begins with a snapshot of items that are idle where pending.
LEMMA DispatchReadStep == ASSUME BulkInv, NEW d \in Dispatches, DispatchRead(d) PROVE BulkInv'
  <1>1. BulkTypeOK'
    <2>1. loop' \in Loops
      BY ReadType DEF DispatchRead, BulkInv
    <2>2. disp[d].tries + 1 \in 0..2
      BY DEF BulkInv, BulkTypeOK, DispatchRows, TriesInv, DispatchRead, Free
    <2>3. disp' \in [Dispatches -> DispatchRows]
      BY <2>2 DEF BulkInv, BulkTypeOK, DispatchRows, DispatchRead
    <2> QED BY <2>1, <2>3 DEF BulkInv, BulkTypeOK, DispatchRead
  <1>2. LoopInv'
    <2>1. disp' = [disp EXCEPT ![d].tries = disp[d].tries + 1] /\ disp[d].at = "queued"
          /\ disp[d].tries \in 0..1
      BY DEF BulkInv, BulkTypeOK, DispatchRows, TriesInv, DispatchRead, Free
    <2>2. disp'[d].at = "queued" /\ disp'[d].tries \in 1..2
      BY <2>1 DEF BulkInv, BulkTypeOK, DispatchRows
    <2>3. loop'.op = "dispatch" /\ loop'.who = d
      BY DEF DispatchRead, Read
    <2> QED BY <2>2, <2>3 DEF LoopInv
  <1>3. TriesInv'
    BY DEF BulkInv, TriesInv, DispatchRead, Read, Free
  <1>4. ReadInv'
    <2>1. loop'.items = item /\ item' = item /\ execs' = execs
      BY DEF DispatchRead, Read
    <2>2. \A i \in Items : item[i] = "pending" => Working(i) = 0
      BY PendingIdle DEF BulkInv
    <2> QED BY <2>1, <2>2 DEF ReadInv, ReadPending, Working
  <1>5. GoneInv'
    BY DEF BulkInv, GoneInv, DispatchRead, Read
  <1>6. OneRunner'
    BY DEF BulkInv, OneRunner, Working, DispatchRead
  <1>7. RunOncePerReset'
    BY DEF BulkInv, RunOncePerReset, DispatchRead
  <1>8. RunLeft'
    BY DEF BulkInv, RunLeft, Claiming, DispatchRead, Read
  <1>9. NothingForgotten'
    BY DEF BulkInv, NothingForgotten, OnItsWay, Working, DispatchRead
  <1>10. DispatchInv'
    BY DEF BulkInv, DispatchInv, DispatchRead, Read
  <1>11. ClosedJobIsClosed'
    BY DEF BulkInv, ClosedJobIsClosed, DispatchRead
  <1>12. UnretriedInv'
    BY DEF BulkInv, UnretriedInv, DispatchRead, Read
  <1> QED BY <1>1, <1>2, <1>3, <1>4, <1>5, <1>6, <1>7, <1>8, <1>9, <1>10, <1>11, <1>12
        DEF BulkInv

\* A dispatch commits: it will send what it read pending.
LEMMA DispatchCommitStep ==
    ASSUME BulkInv, NEW d \in Dispatches, DispatchCommit(d)
    PROVE  BulkInv'
  <1>1. BulkTypeOK'
    <2>1. {i \in Items : loop.items[i] = "pending"} \in SUBSET Items
      OBVIOUS
    <2>2. disp' = [disp EXCEPT ![d] = [@ EXCEPT !.at = "sending",
                                     !.todo = {i \in Items : loop.items[i] = "pending"}]]
      BY DEF DispatchCommit, BulkInv, BulkTypeOK, DispatchRows
    <2>3. disp' \in [Dispatches -> DispatchRows]
      BY <2>1, <2>2 DEF BulkInv, BulkTypeOK, DispatchRows
    <2> QED BY <2>3, FreeType DEF DispatchCommit, BulkInv, BulkTypeOK, JobStatuses
  <1>2. LoopInv'
    BY DEF BulkInv, LoopInv, DispatchCommit, Free
  <1>3. TriesInv'
    BY DEF BulkInv, TriesInv, DispatchCommit, BulkTypeOK
  <1>4. ReadInv'
    BY DEF BulkInv, ReadInv, ReadPending, DispatchCommit, Free
  <1>5. GoneInv'
    BY DEF BulkInv, GoneInv, DispatchCommit, Free
  <1>6. OneRunner'
    BY DEF BulkInv, OneRunner, Working, DispatchCommit
  <1>7. RunOncePerReset'
    BY DEF BulkInv, RunOncePerReset, DispatchCommit
  <1>8. RunLeft'
    BY DEF BulkInv, RunLeft, Claiming, DispatchCommit, Free
  <1>9. NothingForgotten'
    BY BulkAssumption DEF BulkInv, NothingForgotten, OnItsWay, Working, DispatchCommit, BulkTypeOK,
       LoopInv, DispatchInv
  <1>10. DispatchInv'
    BY DEF BulkInv, DispatchInv, DispatchCommit, Free
  <1>11. ClosedJobIsClosed'
    BY DEF BulkInv, ClosedJobIsClosed, DispatchCommit
  <1>12. UnretriedInv'
    BY DEF BulkInv, UnretriedInv, DispatchCommit, Free
  <1> QED BY <1>1, <1>2, <1>3, <1>4, <1>5, <1>6, <1>7, <1>8, <1>9, <1>10, <1>11, <1>12
        DEF BulkInv

\* A dispatch of an unknown action fails idle items, and recounts.
LEMMA DispatchUnknownStep ==
    ASSUME BulkInv, NEW d \in Dispatches, DispatchUnknown(d)
    PROVE  BulkInv'
  <1>1. BulkTypeOK'
    <2>1. item' \in Table
      BY DEF DispatchUnknown, BulkInv, BulkTypeOK, Table, ItemStatuses
    <2>2. job' \in JobStatuses
      BY RecountType DEF DispatchUnknown, BulkInv, BulkTypeOK, Loops
    <2>3. Again(d) \in {"queued", "over"}
      BY DEF Again
    <2>4. \/ disp' = [disp EXCEPT ![d].at = Again(d)]
          \/ disp' = [disp EXCEPT ![d].at = "over"]
      BY DEF DispatchUnknown
    <2>5. ASSUME NEW x \in {"queued", "over"}, disp' = [disp EXCEPT ![d].at = x]
          PROVE  disp' \in [Dispatches -> DispatchRows]
      <3>1. disp \in [Dispatches -> DispatchRows]
        BY DEF BulkInv, BulkTypeOK
      <3>2. [disp[d] EXCEPT !.at = x] \in DispatchRows
        BY <3>1 DEF DispatchRows
      <3> QED BY <2>5, <3>1, <3>2
    <2> QED BY <2>3, <2>4, <2>5, <2>1, <2>2, <2>3, FreeType DEF DispatchUnknown, BulkInv, BulkTypeOK
  <1>2. LoopInv'
    BY DEF BulkInv, LoopInv, DispatchUnknown, Free
  <1>3. TriesInv'
    BY BulkAssumption DEF BulkInv, TriesInv, DispatchUnknown, Free, Written, Recomputed, Again,
       BulkTypeOK, Table, DispatchRows
  <1>4. ReadInv'
    BY DEF BulkInv, ReadInv, ReadPending, DispatchUnknown, Free
  <1>5. GoneInv'
    BY DEF BulkInv, GoneInv, DispatchUnknown, Free
  <1>6. OneRunner'
    BY DEF BulkInv, OneRunner, Working, DispatchUnknown, ReadInv, ReadPending
  <1>7. RunOncePerReset'
    BY DEF BulkInv, RunOncePerReset, DispatchUnknown
  <1>8. RunLeft'
    BY DEF BulkInv, RunLeft, Claiming, DispatchUnknown, Free
  <1>9. NothingForgotten'
    BY BulkAssumption DEF BulkInv, NothingForgotten, OnItsWay, Working, DispatchUnknown,
       BulkTypeOK, DispatchRows, Places, ReadInv, GoneInv, OneRunner, Unended, DispatchInv
  <1>10. DispatchInv'
    BY DEF BulkInv, DispatchInv, DispatchUnknown, Free
  <1>11. ClosedJobIsClosed'
    BY DEF BulkInv, ClosedJobIsClosed, Unended, DispatchUnknown, Written, Recomputed, UnretriedInv
  <1>12. UnretriedInv'
    BY DEF BulkInv, UnretriedInv, DispatchUnknown, Free
  <1> QED BY <1>1, <1>2, <1>3, <1>4, <1>5, <1>6, <1>7, <1>8, <1>9, <1>10, <1>11, <1>12
        DEF BulkInv

\* A dispatch that sent everything is over: nobody waits for it.
LEMMA DispatchOverStep == ASSUME BulkInv, NEW d \in Dispatches, DispatchOver(d) PROVE BulkInv'
  <1>1. BulkTypeOK'
    BY BulkAssumption DEF BulkInv, BulkTypeOK, DispatchOver, Free, DispatchRows, Loops,
       JobStatuses, LoopInv
  <1>2. LoopInv'
    BY DEF BulkInv, LoopInv, DispatchOver
  <1>3. TriesInv'
    BY DEF BulkInv, TriesInv, DispatchOver
  <1>4. ReadInv'
    BY DEF BulkInv, ReadInv, ReadPending, Working, DispatchOver
  <1>5. GoneInv'
    BY DEF BulkInv, GoneInv, DispatchOver
  <1>6. OneRunner'
    BY DEF BulkInv, OneRunner, Working, DispatchOver
  <1>7. RunOncePerReset'
    BY DEF BulkInv, RunOncePerReset, DispatchOver
  <1>8. RunLeft'
    BY DEF BulkInv, RunLeft, Claiming, DispatchOver
  <1>9. NothingForgotten'
    BY DEF BulkInv, NothingForgotten, OnItsWay, Working, DispatchOver
  <1>10. DispatchInv'
    BY DEF BulkInv, DispatchInv, DispatchOver
  <1>11. ClosedJobIsClosed'
    BY DEF BulkInv, ClosedJobIsClosed, DispatchOver
  <1>12. UnretriedInv'
    BY DEF BulkInv, UnretriedInv, DispatchOver
  <1> QED BY <1>1, <1>2, <1>3, <1>4, <1>5, <1>6, <1>7, <1>8, <1>9, <1>10, <1>11, <1>12
        DEF BulkInv

\* An item sent has a task waiting.
LEMMA SendStep ==
    ASSUME BulkInv, NEW d \in Dispatches, NEW k \in Items, Send(d, k)
    PROVE  BulkInv'
  <1>1. BulkTypeOK'
    BY BulkAssumption DEF BulkInv, BulkTypeOK, Send, Free, Table, DispatchRows, Places, Loops,
       Reqs, JobStatuses, ItemStatuses
  <1>2. LoopInv'
    BY DEF BulkInv, LoopInv, Send
  <1>3. TriesInv'
    BY DEF BulkInv, TriesInv, Send
  <1>4. ReadInv'
    BY DEF BulkInv, ReadInv, ReadPending, Working, Send
  <1>5. GoneInv'
    BY DEF BulkInv, GoneInv, Send
  <1>6. OneRunner'
    BY DEF BulkInv, OneRunner, Working, Send
  <1>7. RunOncePerReset'
    BY DEF BulkInv, RunOncePerReset, Send
  <1>8. RunLeft'
    BY DEF BulkInv, RunLeft, Claiming, Send
  <1>9. NothingForgotten'
    BY DEF BulkInv, NothingForgotten, OnItsWay, Working, Send, BulkTypeOK
  <1>10. DispatchInv'
    BY DEF BulkInv, DispatchInv, Send, Free
  <1>11. ClosedJobIsClosed'
    BY DEF BulkInv, ClosedJobIsClosed, Send
  <1>12. UnretriedInv'
    BY DEF BulkInv, UnretriedInv, Send
  <1> QED BY <1>1, <1>2, <1>3, <1>4, <1>5, <1>6, <1>7, <1>8, <1>9, <1>10, <1>11, <1>12
        DEF BulkInv

\* A task takes an item that is pending, hence idle.
LEMMA TakeStep == ASSUME BulkInv, NEW k \in Items, Take(k) PROVE BulkInv'
  <1>1. BulkTypeOK'
    BY DEF BulkInv, BulkTypeOK, Take, Read, Loops, ItemStatuses
  <1>2. LoopInv'
    BY DEF BulkInv, LoopInv, Take, Read
  <1>3. TriesInv'
    BY DEF BulkInv, TriesInv, Take, Free
  <1>4. ReadInv'
    <2>1. item' = item /\ execs' = execs
      BY DEF Take
    <2>2. \A i \in Items : item[i] = "pending" => Working(i) = 0
      BY PendingIdle DEF BulkInv
    <2>3. loop' = loop \/ loop'.items = item
      BY DEF Take, Read
    <2> QED BY <2>1, <2>2, <2>3 DEF BulkInv, ReadInv, ReadPending, Working
  <1>5. GoneInv'
    BY DEF BulkInv, GoneInv, Take, Read
  <1>6. OneRunner'
    BY DEF BulkInv, OneRunner, Working, Take
  <1>7. RunOncePerReset'
    BY DEF BulkInv, RunOncePerReset, Take
  <1>8. RunLeft'
    BY DEF BulkInv, RunLeft, Claiming, Take, Read
  <1>9. NothingForgotten'
    BY DEF BulkInv, NothingForgotten, OnItsWay, Working, Take, Free, Read
  <1>10. DispatchInv'
    BY DEF BulkInv, DispatchInv, Take, Read
  <1>11. ClosedJobIsClosed'
    BY DEF BulkInv, ClosedJobIsClosed, Take
  <1>12. UnretriedInv'
    BY DEF BulkInv, UnretriedInv, Unended, Take, Read, ClosedJobIsClosed
  <1> QED BY <1>1, <1>2, <1>3, <1>4, <1>5, <1>6, <1>7, <1>8, <1>9, <1>10, <1>11, <1>12
        DEF BulkInv

\* A claim makes an idle item running with one task at work, or closes it.
LEMMA ClaimStep == ASSUME BulkInv, NEW k \in Items, Claim(k) PROVE BulkInv'
  <1>1. BulkTypeOK'
    <2>1. loop.job \in JobStatuses /\ loop.to \in {"running", "failed", "skipped"}
          /\ item \in Table /\ job \in JobStatuses /\ execs \in [Items -> [Places -> Nat]]
      BY DEF BulkInv, BulkTypeOK, LoopInv, Loops, Claim
    <2>2. job' \in JobStatuses
      BY <2>1, RecountType DEF Claim, Store
    <2>3. item' \in Table
      BY <2>1 DEF Claim, Store, Table, ItemStatuses
    <2>4. execs' \in [Items -> [Places -> Nat]]
      BY <2>1 DEF Claim, Places
    <2> QED BY <2>2, <2>3, <2>4, FreeType DEF Claim, BulkInv, BulkTypeOK
  <1>2. LoopInv'
    BY DEF BulkInv, LoopInv, Claim, Free
  <1>3. TriesInv'
    BY DEF BulkInv, TriesInv, Claim
  <1>4. ReadInv'
    BY DEF BulkInv, ReadInv, ReadPending, Claim, Free
  <1>5. GoneInv'
    BY DEF BulkInv, GoneInv, Claim, Free, Store, BulkTypeOK, Table, LoopInv
  <1>6. OneRunner'
    BY DEF BulkInv, OneRunner, Working, Claim, Store, BulkTypeOK, Table, Places, LoopInv, ReadInv,
       ReadPending
  <1>7. RunOncePerReset'
    BY DEF BulkInv, RunOncePerReset, Claim
  <1>8. RunLeft'
    BY DEF BulkInv, RunLeft, Claiming, Claim, Free, Store, BulkTypeOK, Table
  <1>9. NothingForgotten'
    BY DEF BulkInv, NothingForgotten, OnItsWay, Working, Claim, Store, BulkTypeOK, Table, Places,
       LoopInv, ReadInv, ReadPending
  <1>10. DispatchInv'
    BY DEF BulkInv, DispatchInv, Claim, Free
  <1>11. ClosedJobIsClosed'
    BY DEF BulkInv, ClosedJobIsClosed, Unended, Claim, Store, Written, Recomputed, BulkTypeOK, Table,
       LoopInv, UnretriedInv
  <1>12. UnretriedInv'
    BY DEF BulkInv, UnretriedInv, Claim, Free
  <1> QED BY <1>1, <1>2, <1>3, <1>4, <1>5, <1>6, <1>7, <1>8, <1>9, <1>10, <1>11, <1>12
        DEF BulkInv

\* Starting the action spends the run the item has left.
LEMMA AllowStep == ASSUME BulkInv, NEW k \in Items, Allow(k) PROVE BulkInv'
  <1>1. BulkTypeOK'
    BY DEF BulkInv, BulkTypeOK, Allow, Places
  <1>2. LoopInv'
    BY DEF BulkInv, LoopInv, Allow, Free
  <1>3. TriesInv'
    BY DEF BulkInv, TriesInv, Allow
  <1>4. ReadInv'
    BY DEF BulkInv, ReadInv, ReadPending, Allow, Free
  <1>5. GoneInv'
    BY DEF BulkInv, GoneInv, Allow
  <1>6. OneRunner'
    BY DEF BulkInv, OneRunner, Allow, BulkTypeOK, Places
  <1>7. RunOncePerReset'
    BY DEF BulkInv, RunOncePerReset, Allow, BulkTypeOK, Places
  <1>8. RunLeft'
    BY DEF BulkInv, RunLeft, Allow, BulkTypeOK, Places
  <1>9. NothingForgotten'
    BY DEF BulkInv, NothingForgotten, Allow, BulkTypeOK, Places
  <1>10. DispatchInv'
    BY DEF BulkInv, DispatchInv, Allow, Free
  <1>11. ClosedJobIsClosed'
    BY DEF BulkInv, ClosedJobIsClosed, Allow
  <1>12. UnretriedInv'
    BY DEF BulkInv, UnretriedInv, Allow
  <1> QED BY <1>1, <1>2, <1>3, <1>4, <1>5, <1>6, <1>7, <1>8, <1>9, <1>10, <1>11, <1>12
        DEF BulkInv

\* A task about to end has taken its snapshot and still counts as working.
LEMMA FinishStep ==
    ASSUME BulkInv, NEW k \in Items, NEW at \in {"claimed", "acting"}, Finish(k, at)
    PROVE  BulkInv'
  <1>1. BulkTypeOK'
    BY DEF BulkInv, BulkTypeOK, Finish, Read, Results, Places, Loops, ItemStatuses
  <1>2. LoopInv'
    BY DEF BulkInv, LoopInv, Finish, Read
  <1>3. TriesInv'
    BY DEF BulkInv, TriesInv, Finish, Free
  <1>4. ReadInv'
    BY DEF BulkInv, ReadInv, ReadPending, Finish, Read
  <1>5. GoneInv'
    BY DEF BulkInv, GoneInv, Finish, Read
  <1>6. OneRunner'
    BY DEF BulkInv, OneRunner, Working, Finish
  <1>7. RunOncePerReset'
    BY DEF BulkInv, RunOncePerReset, Finish
  <1>8. RunLeft'
    BY DEF BulkInv, RunLeft, Claiming, Finish, Read
  <1>9. NothingForgotten'
    BY DEF BulkInv, NothingForgotten, OnItsWay, Working, Finish, Free
  <1>10. DispatchInv'
    BY DEF BulkInv, DispatchInv, Finish, Read
  <1>11. ClosedJobIsClosed'
    BY DEF BulkInv, ClosedJobIsClosed, Finish
  <1>12. UnretriedInv'
    BY DEF BulkInv, UnretriedInv, Finish, Read
  <1> QED BY <1>1, <1>2, <1>3, <1>4, <1>5, <1>6, <1>7, <1>8, <1>9, <1>10, <1>11, <1>12
        DEF BulkInv

\* A task ends: its item is closed, or pending with a successor coming.
LEMMA FinishCommitStep == ASSUME BulkInv, NEW k \in Items, FinishCommit(k) PROVE BulkInv'
  <1>1. BulkTypeOK'
    <2>1. loop.at \in {"claimed", "acting"} /\ execs[k][loop.at] \in Nat \ {0}
          /\ loop.to \in ItemStatuses
      BY DEF FinishCommit, BulkInv, BulkTypeOK, LoopInv, Results, Places, ItemStatuses
    <2>3. execs' \in [Items -> [Places -> Nat]]
      <3> DEFINE less == [execs[k] EXCEPT ![loop.at] = execs[k][loop.at] - 1]
      <3>1. execs \in [Items -> [Places -> Nat]] /\ execs[k][loop.at] - 1 \in Nat
        <4>1. execs \in [Items -> [Places -> Nat]]
          BY DEF BulkInv, BulkTypeOK
        <4>2. ASSUME NEW n \in Nat \ {0} PROVE n - 1 \in Nat
          OBVIOUS
        <4> QED BY <4>1, <4>2, <2>1
      <3>2. less \in [Places -> Nat]
        BY <3>1
      <3>3. [less EXCEPT !["deferred"] = less["deferred"] + 1] \in [Places -> Nat]
        BY <3>2 DEF Places
      <3>4. \/ execs' = [execs EXCEPT ![k] = less]
            \/ execs' = [execs EXCEPT ![k] = [less EXCEPT !["deferred"] = less["deferred"] + 1]]
        BY <2>1, <3>1 DEF FinishCommit, Places
      <3> HIDE DEF less
      <3> QED BY <3>1, <3>2, <3>3, <3>4
    <2>4. item' \in Table
      BY <2>1 DEF FinishCommit, Store, BulkInv, BulkTypeOK, Table
    <2>5. job' \in JobStatuses
      BY RecountType DEF FinishCommit, Store, BulkInv, BulkTypeOK, Loops
    <2> QED BY <2>3, <2>4, <2>5, FreeType DEF FinishCommit, BulkInv, BulkTypeOK
  <1>2. LoopInv'
    BY DEF BulkInv, LoopInv, FinishCommit, Free
  <1>3. TriesInv'
    BY DEF BulkInv, TriesInv, FinishCommit
  <1>4. ReadInv'
    BY DEF BulkInv, ReadInv, ReadPending, FinishCommit, Free
  <1>5. GoneInv'
    BY DEF BulkInv, GoneInv, FinishCommit, Free, Store, Results, BulkTypeOK, Table, LoopInv
  <1>6. OneRunner'
    BY DEF BulkInv, OneRunner, Working, FinishCommit, Store, BulkTypeOK, Table, Places, LoopInv
  <1>7. RunOncePerReset'
    BY DEF BulkInv, RunOncePerReset, FinishCommit
  <1>8. RunLeft'
    BY DEF BulkInv, RunLeft, Claiming, FinishCommit, Free, Store, BulkTypeOK, Table, Places
  <1>9. NothingForgotten'
    BY BulkAssumption DEF BulkInv, NothingForgotten, OnItsWay, Working, FinishCommit, Store,
       Recomputed, Results, BulkTypeOK, Table, Places, LoopInv, OneRunner
  <1>10. DispatchInv'
    BY DEF BulkInv, DispatchInv, FinishCommit, Free
  <1>11. ClosedJobIsClosed'
    BY DEF BulkInv, ClosedJobIsClosed, Unended, FinishCommit, Store, Written, Recomputed, Results,
       BulkTypeOK, Table, LoopInv, GoneInv, UnretriedInv, Places
  <1>12. UnretriedInv'
    BY DEF BulkInv, UnretriedInv, FinishCommit, Free
  <1> QED BY <1>1, <1>2, <1>3, <1>4, <1>5, <1>6, <1>7, <1>8, <1>9, <1>10, <1>11, <1>12
        DEF BulkInv

\* A rescheduled item has a task waiting instead of one about to send it.
LEMMA ScheduleStep == ASSUME BulkInv, NEW k \in Items, Schedule(k) PROVE BulkInv'
  <1>1. BulkTypeOK'
    BY DEF BulkInv, BulkTypeOK, Schedule, Places
  <1>2. LoopInv'
    BY DEF BulkInv, LoopInv, Schedule
  <1>3. TriesInv'
    BY DEF BulkInv, TriesInv, Schedule
  <1>4. ReadInv'
    BY DEF BulkInv, ReadInv, ReadPending, Working, Schedule
  <1>5. GoneInv'
    BY DEF BulkInv, GoneInv, Schedule
  <1>6. OneRunner'
    BY DEF BulkInv, OneRunner, Working, Schedule
  <1>7. RunOncePerReset'
    BY DEF BulkInv, RunOncePerReset, Schedule
  <1>8. RunLeft'
    BY DEF BulkInv, RunLeft, Claiming, Schedule
  <1>9. NothingForgotten'
    BY DEF BulkInv, NothingForgotten, OnItsWay, Working, Schedule, BulkTypeOK
  <1>10. DispatchInv'
    BY DEF BulkInv, DispatchInv, Schedule, Free
  <1>11. ClosedJobIsClosed'
    BY DEF BulkInv, ClosedJobIsClosed, Schedule
  <1>12. UnretriedInv'
    BY DEF BulkInv, UnretriedInv, Schedule
  <1> QED BY <1>1, <1>2, <1>3, <1>4, <1>5, <1>6, <1>7, <1>8, <1>9, <1>10, <1>11, <1>12
        DEF BulkInv

\* A dying worker takes its tasks along; a dispatch is tried again or over.
LEMMA WorkerDiesStep == ASSUME BulkInv, WorkerDies PROVE BulkInv'
  <1>1. BulkTypeOK'
    <2>1. \A d \in Dispatches : Again(d) \in {"queued", "over"}
      BY DEF Again
    <2>2. ASSUME NEW d \in Dispatches
          PROVE  [disp[d] EXCEPT !.at = Again(d), !.todo = {}] \in DispatchRows
      BY <2>1 DEF BulkInv, BulkTypeOK, DispatchRows
    <2>3. disp \in [Dispatches -> DispatchRows] /\ hurt \in Nat
      BY DEF BulkInv, BulkTypeOK
    <2>4. disp' \in [Dispatches -> DispatchRows]
      BY <2>2, <2>3 DEF WorkerDies
    <2>5. execs' \in [Items -> [Places -> Nat]]
      <3>1. [p \in Places |-> 0] \in [Places -> Nat]
        OBVIOUS
      <3> QED BY <3>1 DEF WorkerDies
    <2>6. loop' = Free /\ hurt' = hurt + 1 /\ UNCHANGED <<job, item, msgs, req, runs, resets>>
      BY DEF WorkerDies
    <2> QED BY <2>3, <2>4, <2>5, <2>6, FreeType DEF BulkInv, BulkTypeOK
  <1>2. LoopInv'
    BY DEF BulkInv, LoopInv, WorkerDies, Free
  <1>3. TriesInv'
    <2> SUFFICES ASSUME NEW d \in Dispatches, disp'[d].at \in {"unused", "asked", "queued"}
                 PROVE  disp'[d].tries < 2
      BY DEF TriesInv
    <2>1. CASE disp[d].at = "sending" \/ loop.who = d
      BY <2>1 DEF WorkerDies, Again, BulkInv, BulkTypeOK, DispatchRows
    <2>2. CASE ~(disp[d].at = "sending" \/ loop.who = d)
      BY <2>2 DEF WorkerDies, BulkInv, TriesInv
    <2> QED BY <2>1, <2>2
  <1>4. ReadInv'
    BY DEF BulkInv, ReadInv, ReadPending, WorkerDies, Free
  <1>5. GoneInv'
    <2>1. hurt' = hurt + 1 /\ hurt \in Nat /\ loop'.op = "free"
      BY DEF WorkerDies, Free, BulkInv, BulkTypeOK
    <2> QED BY <2>1 DEF GoneInv
  <1>6. OneRunner'
    <2>1. \A i \in Items : execs'[i]["claimed"] = 0 /\ execs'[i]["acting"] = 0
      BY DEF WorkerDies, Places
    <2> QED BY <2>1 DEF OneRunner, Working
  <1>7. RunOncePerReset'
    BY DEF BulkInv, RunOncePerReset, WorkerDies
  <1>8. RunLeft'
    <2>1. \A i \in Items : execs'[i]["claimed"] = 0 /\ execs'[i]["acting"] = 0
      BY DEF WorkerDies, Places
    <2>2. item' = item /\ runs' = runs /\ resets' = resets /\ loop'.op = "free"
      BY DEF WorkerDies, Free
    <2> QED BY <2>1, <2>2 DEF BulkInv, RunLeft, Claiming
  <1>9. NothingForgotten'
    <2>1. hurt' = hurt + 1 /\ hurt \in Nat
      BY DEF WorkerDies, BulkInv, BulkTypeOK
    <2> QED BY <2>1 DEF NothingForgotten
  <1>10. DispatchInv'
    BY DEF BulkInv, DispatchInv, WorkerDies, Free
  <1>11. ClosedJobIsClosed'
    BY DEF BulkInv, ClosedJobIsClosed, WorkerDies
  <1>12. UnretriedInv'
    BY DEF BulkInv, UnretriedInv, WorkerDies, Free
  <1> QED BY <1>1, <1>2, <1>3, <1>4, <1>5, <1>6, <1>7, <1>8, <1>9, <1>10, <1>11, <1>12
        DEF BulkInv

\* A dying API loses requests and what it has not enqueued.
LEMMA ApiDiesStep == ASSUME BulkInv, ApiDies PROVE BulkInv'
  <1>1. BulkTypeOK'
    <2>1. disp \in [Dispatches -> DispatchRows] /\ hurt \in Nat
      BY DEF BulkInv, BulkTypeOK
    <2>2. \A d \in Dispatches : [disp[d] EXCEPT !.at = "over"] \in DispatchRows
      BY <2>1 DEF DispatchRows
    <2>3. disp' \in [Dispatches -> DispatchRows]
      BY <2>1, <2>2 DEF ApiDies
    <2>4. req' \in Reqs /\ hurt' \in Nat
      BY <2>1 DEF ApiDies, NoReq, Reqs, JobStatuses
    <2> QED BY <2>3, <2>4 DEF ApiDies, BulkInv, BulkTypeOK
  <1>2. LoopInv'
    BY DEF BulkInv, LoopInv, ApiDies
  <1>3. TriesInv'
    BY DEF BulkInv, TriesInv, ApiDies
  <1>4. ReadInv'
    BY DEF BulkInv, ReadInv, ReadPending, Working, ApiDies
  <1>5. GoneInv'
    BY DEF BulkInv, GoneInv, ApiDies, BulkTypeOK
  <1>6. OneRunner'
    BY DEF BulkInv, OneRunner, Working, ApiDies
  <1>7. RunOncePerReset'
    BY DEF BulkInv, RunOncePerReset, ApiDies
  <1>8. RunLeft'
    BY DEF BulkInv, RunLeft, Claiming, ApiDies
  <1>9. NothingForgotten'
    BY DEF BulkInv, NothingForgotten, ApiDies, BulkTypeOK
  <1>10. DispatchInv'
    BY DEF BulkInv, DispatchInv, ApiDies, BulkTypeOK
  <1>11. ClosedJobIsClosed'
    BY DEF BulkInv, ClosedJobIsClosed, ApiDies
  <1>12. UnretriedInv'
    BY DEF BulkInv, UnretriedInv, ApiDies
  <1> QED BY <1>1, <1>2, <1>3, <1>4, <1>5, <1>6, <1>7, <1>8, <1>9, <1>10, <1>11, <1>12
        DEF BulkInv

\* The invariant holds of a fresh job: every item pending, its dispatch asked for.
LEMMA BulkInitInv == BulkInit => BulkInv
  <1> SUFFICES ASSUME BulkInit PROVE BulkInv
    OBVIOUS
  <1>1. BulkTypeOK
    BY BulkAssumption, FreeType
    DEF BulkInit, BulkTypeOK, Table, DispatchRows, Places, NoReq, Reqs, JobStatuses, ItemStatuses
  <1>2. /\ loop.op = "free" /\ loop = Free
        /\ hurt = 0
        /\ \A d \in Dispatches : disp[d].at \in {"asked", "unused"} /\ disp[d].tries = 0
        /\ disp[First].at = "asked" /\ First \in Dispatches
    BY BulkAssumption DEF BulkInit, Free
  <1>3. \A i \in Items : /\ item[i] = "pending" /\ runs[i] = 0 /\ resets[i] = 0
                         /\ execs[i]["claimed"] = 0 /\ execs[i]["acting"] = 0
    BY DEF BulkInit, Places
  <1>4. LoopInv /\ TriesInv /\ ReadInv /\ GoneInv /\ DispatchInv
    BY <1>2, <1>3 DEF LoopInv, TriesInv, ReadInv, ReadPending, GoneInv, DispatchInv
  <1>5. OneRunner /\ RunOncePerReset /\ RunLeft
    BY <1>3 DEF OneRunner, Working, RunOncePerReset, RunLeft
  <1>6. NothingForgotten
    BY <1>2, <1>3 DEF NothingForgotten, OnItsWay
  <1>7. ClosedJobIsClosed /\ UnretriedInv
    BY <1>2 DEF BulkInit, ClosedJobIsClosed, UnretriedInv
  <1> QED BY <1>1, <1>4, <1>5, <1>6, <1>7 DEF BulkInv

\* Every step keeps the invariant, a stuttering step included.
LEMMA BulkNextStep == BulkInv /\ [BulkNext]_bulkVars => BulkInv'
  <1> SUFFICES ASSUME BulkInv, [BulkNext]_bulkVars PROVE BulkInv'
    OBVIOUS
  <1>1. CASE Api
    BY <1>1, EnqueueStep, RetryStep, RequestStep, CancelStep DEF Api
  <1>2. ASSUME NEW d \in Dispatches, WorkerDispatch(d) PROVE BulkInv'
    BY <1>2, DispatchReadStep, DispatchCommitStep, DispatchUnknownStep, DispatchOverStep,
       SendStep DEF WorkerDispatch
  <1>3. ASSUME NEW i \in Items, WorkerItem(i) PROVE BulkInv'
    BY <1>3, TakeStep, ClaimStep, AllowStep, FinishStep, FinishCommitStep, ScheduleStep
    DEF WorkerItem
  <1>4. ASSUME NEW i \in Items, DeleteAccount(i) PROVE BulkInv'
    BY <1>4, DeleteAccountStep
  <1>5. CASE WorkerDies \/ ApiDies
    BY <1>5, WorkerDiesStep, ApiDiesStep
  <1>6. CASE UNCHANGED bulkVars
    BY <1>6 DEF bulkVars, BulkInv, BulkTypeOK, LoopInv, TriesInv, ReadInv, ReadPending, GoneInv,
       OneRunner, RunOncePerReset, RunLeft, NothingForgotten, OnItsWay, DispatchInv,
       ClosedJobIsClosed, UnretriedInv, Working, Claiming
  <1> QED BY <1>1, <1>2, <1>3, <1>4, <1>5, <1>6 DEF BulkNext

\* For every set of accounts and of dispatches: at most one task is past the claim of an
\* item, its action runs once per reset, no item is forgotten unless something dies or is
\* deleted, and a job never retried that reads done or failed has nothing left to run.
THEOREM BulkSafety ==
    BulkSpec => [](BulkTypeOK /\ OneRunner /\ RunOncePerReset /\ NothingForgotten
               /\ ClosedJobIsClosed)
  <1>1. BulkInv => BulkTypeOK /\ OneRunner /\ RunOncePerReset /\ NothingForgotten
                /\ ClosedJobIsClosed
    BY DEF BulkInv
  <1> QED BY BulkInitInv, BulkNextStep, <1>1, PTL DEF BulkSpec
=============================================================================

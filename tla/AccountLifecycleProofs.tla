----------------------- MODULE AccountLifecycleProofs -----------------------
(***************************************************************************)
(* Proofs about AccountLifecycle, for every set of accounts and campaigns: *)
(* first for any number of sessions that interleave, then what holds when  *)
(* one session follows the other.                                          *)
(***************************************************************************)
EXTENDS AccountLifecycle, TLAPS

\* What the transition table says of each of its rules.
LEMMA RuleFacts ==
    ASSUME NEW r \in Transitions
    PROVE  /\ r.to \in Statuses
           /\ r.from \subseteq Statuses
           /\ r.to \notin r.from
           /\ r.effect = "enter_cooldown" => r.from = {"pool", "assigned"}
  BY DEF Transitions, WarmingRules, ContainerRules, CooldownRules, RetireRules, BanRules,
     Statuses

\* The effects of a rule make a row of a row.
LEMMA ApplyType ==
    ASSUME NEW r \in Transitions, NEW row \in Rows, row.status \in r.from,
           NEW c \in Campaigns \cup {NULL}
    PROVE  /\ ApplyEffects(r, row, c) \in Rows
           /\ ApplyEffects(r, row, c).status = r.to
           /\ r.to # row.status
  BY RuleFacts DEF ApplyEffects, Rows, Untils

\* Writing the changed columns over a row gives a row.
LEMMA MergeType ==
    ASSUME NEW r, NEW old \in Rows, NEW new \in Rows, NEW cur \in Rows
    PROVE  /\ Merge(r, old, new, cur) \in Rows
           /\ new.status # old.status => Merge(r, old, new, cur).status = new.status
  BY DEF Merge, Rows

\* The state the invariants below speak of after Idle or Opened.
LEMMA IdleType == Idle \in Txs
  BY DEF Idle, Txs, Ops

\* A call that opens reads what it will handle.
LEMMA OpenedType ==
    ASSUME acct \in [Accounts -> Rows], NEW op \in Ops, NEW c \in Campaigns \cup {NULL},
           NEW todo \in SUBSET Accounts
    PROVE  /\ Opened(op, c, todo) \in Txs
           /\ todo \subseteq DOMAIN Opened(op, c, todo).snap
  BY DEF Opened, Txs

\* A session that has dealt with one account is still well formed.
LEMMA RestType ==
    ASSUME NEW t \in Txs, t.todo \subseteq DOMAIN t.snap, NEW a \in Accounts
    PROVE  /\ Rest(t, a) \in Txs
           /\ Rest(t, a).op \notin {"idle", "delete"} => Rest(t, a).todo \subseteq DOMAIN Rest(t, a).snap
  BY IdleType DEF Rest, Txs, Idle

\* A session's snapshot of an account it has to handle is a row.
LEMMA SnapType ==
    ASSUME TypeOK, NEW s \in Sessions, tx[s].op \notin {"idle", "delete"},
           NEW a \in tx[s].todo
    PROVE  tx[s].snap[a] \in Rows
  BY DEF TypeOK, Txs

\* The UPDATE of one account: a row again, with the status its history row names.
LEMMA WriteStep ==
    ASSUME TypeOK, HistoryTellsStatus, NEW s \in Sessions, NEW a \in Accounts,
           NEW rule \in Transitions, NEW old \in Rows, old.status \in rule.from,
           NEW c \in Campaigns \cup {NULL}, Write(s, a, rule, old, c)
    PROVE  /\ acct' \in [Accounts -> Rows]
           /\ lastTo' \in [Accounts -> Statuses \cup {NULL}]
           /\ HistoryTellsStatus'
  <1> DEFINE new == ApplyEffects(rule, old, c)
  <1>1. new \in Rows /\ new.status = rule.to /\ rule.to # old.status
    BY ApplyType
  <1>2. acct[a] \in Rows
    BY DEF TypeOK
  <1>3. /\ Merge(rule, old, new, acct[a]) \in Rows
        /\ Merge(rule, old, new, acct[a]).status = rule.to
    BY <1>1, <1>2, MergeType
  <1>4. /\ acct' = [acct EXCEPT ![a] = Merge(rule, old, new, acct[a])]
        /\ lastTo' = [lastTo EXCEPT ![a] = rule.to]
    BY DEF Write
  <1>5. acct \in [Accounts -> Rows] /\ lastTo \in [Accounts -> Statuses \cup {NULL}]
    BY DEF TypeOK
  <1>6. rule.to \in Statuses
    BY RuleFacts
  <1> HIDE DEF new
  <1> QED BY <1>3, <1>4, <1>5, <1>6 DEF HistoryTellsStatus

\* Moving containers among campaigns keeps rows and statuses.
LEMMA ReassignedType ==
    ASSUME acct \in [Accounts -> Rows],
           NEW moved \in SUBSET [acct: Accounts, to: Campaigns \cup {NULL}]
    PROVE  /\ Reassigned(acct, moved) \in [Accounts -> Rows]
           /\ \A a \in Accounts : Reassigned(acct, moved)[a].status = acct[a].status
  <1> SUFFICES ASSUME NEW a \in Accounts
               PROVE  /\ Reassigned(acct, moved)[a] \in Rows
                      /\ Reassigned(acct, moved)[a].status = acct[a].status
    BY DEF Reassigned
  <1>1. CASE \E m \in moved : m.acct = a /\ m.to # NULL
    <2> DEFINE m == CHOOSE m \in moved : m.acct = a /\ m.to # NULL
    <2>1. m \in moved /\ m.to # NULL
      BY <1>1
    <2>2. m.to \in Campaigns
      BY <2>1
    <2>3. Reassigned(acct, moved)[a] = [acct[a] EXCEPT !.container = m.to]
      BY <1>1 DEF Reassigned
    <2> HIDE DEF m
    <2> QED BY <2>2, <2>3 DEF Rows
  <1>2. CASE ~ \E m \in moved : m.acct = a /\ m.to # NULL
    BY <1>2 DEF Reassigned
  <1> QED BY <1>1, <1>2
-----------------------------------------------------------------------------
TypeHistory == TypeOK /\ HistoryTellsStatus

\* A step that writes no account row or history row and puts one well-formed
\* transaction in a session's place keeps both invariants.
LEMMA SessionStep ==
    ASSUME TypeHistory, NEW s \in Sessions, NEW t \in Txs,
           t.op \notin {"idle", "delete"} => t.todo \subseteq DOMAIN t.snap,
           tx' = [tx EXCEPT ![s] = t]
    PROVE  /\ tx' \in [Sessions -> Txs]
           /\ \A r \in Sessions : tx'[r].op \notin {"idle", "delete"} =>
                 tx'[r].todo \subseteq DOMAIN tx'[r].snap
  BY DEF TypeHistory, TypeOK

\* An empty database: no rows, no history, no session.
LEMMA InitTypeHistory == Init => TypeHistory
  <1> SUFFICES ASSUME Init PROVE TypeHistory
    OBVIOUS
  <1>1. FreshRow("absent") \in Rows
    BY DEF FreshRow, Rows, NoRow, Untils
  <1>2. Idle.op = "idle"
    BY DEF Idle
  <1> QED BY <1>1, <1>2, IdleType DEF Init, TypeHistory, TypeOK, HistoryTellsStatus

\* Accounts appearing and disappearing, and the clock.
LEMMA TableStep ==
    ASSUME TypeHistory, NEW a \in Accounts,
           \/ \E status \in {"created", "pool"} : CreateAccount(a, status)
           \/ DeleteAccount(a)
           \/ CooldownElapses(a)
    PROVE  TypeHistory'
  <1> USE DEF TypeHistory
  <1>1. CASE \E status \in {"created", "pool"} : CreateAccount(a, status)
    <2> PICK status \in {"created", "pool"} : CreateAccount(a, status)
      BY <1>1
    <2>1. FreshRow(status) \in Rows /\ FreshRow(status).status = status
      BY DEF FreshRow, Rows, NoRow, Untils, Statuses
    <2>2. lastTo[a] = NULL
      BY DEF CreateAccount, HistoryTellsStatus, TypeOK, Statuses
    <2>3. HistoryTellsStatus'
      BY <2>1, <2>2 DEF CreateAccount, HistoryTellsStatus, TypeOK
    <2>4. TypeOK'
      BY <2>1 DEF CreateAccount, TypeOK
    <2> QED BY <2>3, <2>4
  <1>2. CASE DeleteAccount(a)
    <2>1. FreshRow("deleted") \in Rows
      BY DEF FreshRow, Rows, NoRow, Untils
    <2>2. HistoryTellsStatus'
      BY <1>2 DEF DeleteAccount, Erase, HistoryTellsStatus, TypeOK
    <2>3. TypeOK'
      BY <1>2, <2>1 DEF DeleteAccount, Erase, TypeOK
    <2> QED BY <2>2, <2>3
  <1>3. CASE CooldownElapses(a)
    <2>1. [acct[a] EXCEPT !.until = "elapsed"] \in Rows
      BY DEF TypeOK, Rows, Untils
    <2>2. acct' = [acct EXCEPT ![a] = [acct[a] EXCEPT !.until = "elapsed"]]
      BY <1>3 DEF CooldownElapses
    <2>3. acct \in [Accounts -> Rows]
      BY DEF TypeOK
    <2>4. \A b \in Accounts : acct'[b].status = acct[b].status
      BY <2>2, <2>3 DEF Rows
    <2>5. UNCHANGED <<links, campaigns, lastTo, attached, tx>>
      BY <1>3 DEF CooldownElapses
    <2>6. HistoryTellsStatus'
      BY <2>4, <2>5 DEF HistoryTellsStatus
    <2>7. TypeOK'
      BY <2>1, <2>2, <2>5 DEF TypeOK
    <2> QED BY <2>6, <2>7
  <1> QED BY <1>1, <1>2, <1>3

\* Opening a session only reads.
LEMMA OpenStep ==
    ASSUME TypeHistory, NEW s \in Sessions, Open(s)
    PROVE  TypeHistory'
  <1> USE DEF TypeHistory
  <1>1. acct \in [Accounts -> Rows]
    BY DEF TypeOK
  <1>2. \A op \in SingleEvents \cup {"attach", "detach", "sweep", "cooldown.expired"} : op \in Ops
    BY DEF Ops
  <1>3. ASSUME NEW t \in Txs, t.op \notin {"idle", "delete"} => t.todo \subseteq DOMAIN t.snap,
               tx' = [tx EXCEPT ![s] = t],
               UNCHANGED <<acct, links, campaigns, lastTo, attached>>
        PROVE  TypeHistory'
    <2>1. TypeOK'
      BY <1>3, SessionStep DEF TypeOK
    <2>2. HistoryTellsStatus'
      BY <1>3 DEF HistoryTellsStatus
    <2> QED BY <2>1, <2>2
  <1>4. ASSUME NEW op \in SingleEvents \cup {"attach", "detach", "sweep", "cooldown.expired"},
               NEW c \in Campaigns \cup {NULL}, NEW todo \in SUBSET Accounts,
               tx' = [tx EXCEPT ![s] = Opened(op, c, todo)],
               UNCHANGED <<acct, links, campaigns, lastTo, attached>>
        PROVE  TypeHistory'
    <2>1. Opened(op, c, todo) \in Txs /\ todo \subseteq DOMAIN Opened(op, c, todo).snap
      BY <1>1, <1>2, <1>4, OpenedType
    <2>2. Opened(op, c, todo).todo = todo
      BY DEF Opened
    <2> QED BY <2>1, <2>2, <1>3, <1>4
  <1>5. CASE \E a \in Accounts, event \in SingleEvents : RequestTransition(s, event, a)
    <2> PICK a \in Accounts, event \in SingleEvents : RequestTransition(s, event, a)
      BY <1>5
    <2>1. {a} \in SUBSET Accounts
      OBVIOUS
    <2> QED BY <2>1, <1>4 DEF RequestTransition
  <1>6. CASE \E c \in Campaigns, a \in Accounts : RequestAttach(s, c, a) \/ RequestDetach(s, c, a)
    <2> PICK c \in Campaigns, a \in Accounts : RequestAttach(s, c, a) \/ RequestDetach(s, c, a)
      BY <1>6
    <2> {a} \in SUBSET Accounts
      OBVIOUS
    <2>1. CASE RequestAttach(s, c, a)
      BY <2>1, <1>4 DEF RequestAttach
    <2>2. CASE RequestDetach(s, c, a)
      BY <2>2, <1>4 DEF RequestDetach
    <2> QED BY <2>1, <2>2
  <1>7. CASE \E c \in Campaigns : RequestDelete(s, c)
    <2> PICK c \in Campaigns : RequestDelete(s, c)
      BY <1>7
    <2> DEFINE t == [Opened("delete", c, Linked(c)) EXCEPT !.snap = Idle.snap]
    <2>1. t \in Txs /\ t.op = "delete"
      BY IdleType DEF Opened, Txs, Linked, Ops
    <2>2. tx' = [tx EXCEPT ![s] = t] /\ UNCHANGED <<acct, links, campaigns, lastTo, attached>>
      BY DEF RequestDelete, t
    <2> HIDE DEF t
    <2> QED BY <2>1, <2>2, <1>3
  <1>8. CASE StartSweep(s)
    <2> PICK stale \in SUBSET {a \in Accounts : acct[a].status = "created"} :
               tx' = [tx EXCEPT ![s] = Opened("sweep", NULL, stale)]
      BY <1>8 DEF StartSweep
    <2>1. UNCHANGED <<acct, links, campaigns, lastTo, attached>>
      BY <1>8 DEF StartSweep
    <2>2. stale \in SUBSET Accounts
      OBVIOUS
    <2> QED BY <2>1, <2>2, <1>4
  <1>9. CASE StartCooldownReturn(s)
    <2> DEFINE expired == {a \in Accounts : acct[a].status = "cooldown" /\ acct[a].until = "elapsed"}
    <2>1. /\ tx' = [tx EXCEPT ![s] = Opened("cooldown.expired", NULL, expired)]
          /\ UNCHANGED <<acct, links, campaigns, lastTo, attached>>
      BY <1>9 DEF StartCooldownReturn
    <2>2. expired \in SUBSET Accounts
      OBVIOUS
    <2> HIDE DEF expired
    <2> QED BY <2>1, <2>2, <1>4
  <1> QED BY <1>5, <1>6, <1>7, <1>8, <1>9 DEF Open

\* What an open session does next.  The commits write through WriteStep; the
\* iterations of a campaign deletion through ReassignedType.
LEMMA CommitStep ==
    ASSUME TypeHistory, NEW s \in Sessions, NEW a \in Accounts,
           \/ CommitTransition(s, a)
           \/ AbortTransition(s, a)
           \/ SweepOne(s, a)
           \/ \E c \in Campaigns : \/ CommitAttach(s, c, a) \/ FlushAttach(s, c, a)
                                   \/ RefuseAttach(s, c, a) \/ CommitDetach(s, c, a)
    PROVE  TypeHistory'
  <1> USE DEF TypeHistory
  <1>1. tx[s] \in Txs
    BY DEF TypeOK
  <1>2. Idle.op = "idle"
    BY DEF Idle
  <1>3. Rest(tx[s], a) \in Txs /\ (tx[s].op \notin {"idle", "delete"} =>
            (Rest(tx[s], a).op \notin {"idle", "delete"} =>
                Rest(tx[s], a).todo \subseteq DOMAIN Rest(tx[s], a).snap))
    <2>1. CASE tx[s].todo = {a}
      BY <2>1, <1>2, IdleType DEF Rest
    <2>2. CASE tx[s].todo # {a}
      <3>1. Rest(tx[s], a) = [tx[s] EXCEPT !.todo = tx[s].todo \ {a}]
        BY <2>2 DEF Rest
      <3>2. Rest(tx[s], a) \in Txs
        BY <3>1, <1>1 DEF Txs
      <3>3. Rest(tx[s], a).snap = tx[s].snap /\ Rest(tx[s], a).todo = tx[s].todo \ {a}
        BY <3>1, <1>1 DEF Txs
      <3> QED BY <3>2, <3>3 DEF TypeOK
    <2> QED BY <2>1, <2>2
  <1>4. ASSUME UNCHANGED <<acct, links, campaigns, lastTo>>, tx' = [tx EXCEPT ![s] = Idle],
               attached' \subseteq Campaigns \X Accounts
        PROVE  TypeHistory'
    <2>1. HistoryTellsStatus'
      BY <1>4 DEF HistoryTellsStatus
    <2>2. TypeOK'
      BY <1>4, <1>2, IdleType, SessionStep DEF TypeOK
    <2> QED BY <2>1, <2>2
  <1>5. CASE CommitTransition(s, a)
    <2>1. tx[s].op \notin {"idle", "delete"} /\ a \in tx[s].todo
      BY <1>5 DEF CommitTransition, SingleEvents
    <2>2. PICK rule \in Transitions :
             /\ Resolve(tx[s].op, tx[s].snap[a]) = {rule}
             /\ Write(s, a, rule, tx[s].snap[a], NULL)
      BY <1>5 DEF CommitTransition
    <2>3. tx[s].snap[a] \in Rows /\ tx[s].snap[a].status \in rule.from
      BY <2>1, <2>2, SnapType DEF Resolve
    <2>4. /\ acct' \in [Accounts -> Rows]
          /\ lastTo' \in [Accounts -> Statuses \cup {NULL}]
          /\ HistoryTellsStatus'
      BY <2>2, <2>3, WriteStep
    <2>5. tx' = [tx EXCEPT ![s] = Rest(tx[s], a)] /\ UNCHANGED <<links, campaigns, attached>>
      BY <1>5 DEF CommitTransition
    <2> QED BY <2>1, <2>4, <2>5, <1>3, SessionStep DEF TypeOK
  <1>6. CASE AbortTransition(s, a)
    BY <1>6, <1>4 DEF AbortTransition, TypeOK
  <1>7. CASE SweepOne(s, a)
    <2>1. tx[s].op \notin {"idle", "delete"} /\ tx' = [tx EXCEPT ![s] = Rest(tx[s], a)]
      BY <1>7 DEF SweepOne
    <2>2. CASE Alive(a) /\ Erase(a)
      <3>1. FreshRow("deleted") \in Rows
        BY DEF FreshRow, Rows, NoRow, Untils
      <3>2. HistoryTellsStatus'
        BY <2>2 DEF Erase, HistoryTellsStatus, TypeOK
      <3> QED BY <2>1, <2>2, <3>1, <3>2, <1>3, SessionStep DEF Erase, TypeOK
    <2>3. CASE UNCHANGED <<acct, links, campaigns, lastTo, attached>>
      <3>1. HistoryTellsStatus'
        BY <2>3 DEF HistoryTellsStatus
      <3> QED BY <2>1, <2>3, <3>1, <1>3, SessionStep DEF TypeOK
    <2> QED BY <1>7, <2>2, <2>3 DEF SweepOne
  <1>8. ASSUME NEW c \in Campaigns, CommitAttach(s, c, a) \/ FlushAttach(s, c, a)
                                    \/ RefuseAttach(s, c, a) \/ CommitDetach(s, c, a)
        PROVE  TypeHistory'
    <2>1. CASE CommitAttach(s, c, a)
      <3>1. tx[s].op \notin {"idle", "delete"} /\ a \in tx[s].todo
        BY <2>1 DEF CommitAttach
      <3>2. PICK rule \in Transitions :
               /\ Resolve("container.attach", tx[s].snap[a]) = {rule}
               /\ Write(s, a, rule, tx[s].snap[a], c)
        BY <2>1 DEF CommitAttach
      <3>3. tx[s].snap[a] \in Rows /\ tx[s].snap[a].status \in rule.from
        BY <3>1, <3>2, SnapType DEF Resolve
      <3>4. /\ acct' \in [Accounts -> Rows]
            /\ lastTo' \in [Accounts -> Statuses \cup {NULL}]
            /\ HistoryTellsStatus'
        BY <3>2, <3>3, WriteStep
      <3> QED BY <2>1, <3>4, <1>2, IdleType, SessionStep DEF CommitAttach, TypeOK
    <2>2. CASE FlushAttach(s, c, a)
      BY <2>2, <1>4 DEF FlushAttach, TypeOK
    <2>3. CASE RefuseAttach(s, c, a)
      BY <2>3, <1>4 DEF RefuseAttach, TypeOK
    <2>4. CASE CommitDetach(s, c, a)
      <3>1. tx[s].op \notin {"idle", "delete"} /\ a \in tx[s].todo
        BY <2>4 DEF CommitDetach
      <3>2. PICK rule \in Transitions :
               /\ Resolve("container.detach", tx[s].snap[a]) = {rule}
               /\ Write(s, a, rule, tx[s].snap[a], NULL)
        BY <2>4 DEF CommitDetach
      <3>3. tx[s].snap[a] \in Rows /\ tx[s].snap[a].status \in rule.from
        BY <3>1, <3>2, SnapType DEF Resolve
      <3>4. /\ acct' \in [Accounts -> Rows]
            /\ lastTo' \in [Accounts -> Statuses \cup {NULL}]
            /\ HistoryTellsStatus'
        BY <3>2, <3>3, WriteStep
      <3> QED BY <2>4, <3>4, <1>2, IdleType, SessionStep DEF CommitDetach, TypeOK
    <2> QED BY <1>8, <2>1, <2>2, <2>3, <2>4
  <1> QED BY <1>5, <1>6, <1>7, <1>8

\* The iterations of a campaign deletion, its end, and one account of a sweep.
LEMMA DeleteStep ==
    ASSUME TypeHistory, NEW s \in Sessions,
           \/ \E a \in Accounts : \/ DeleteDetach(s, a) \/ DeleteFlush(s, a)
                                  \/ DeleteSkip(s, a) \/ DeleteFails(s, a)
           \/ FinishDelete(s)
    PROVE  TypeHistory'
  <1> USE DEF TypeHistory
  <1>1. tx[s] \in Txs /\ acct \in [Accounts -> Rows]
    BY DEF TypeOK
  <1>2. Idle.op = "idle"
    BY DEF Idle
  <1>3. ASSUME NEW todo \in SUBSET Accounts,
               NEW moved \in SUBSET [acct: Accounts, to: Campaigns \cup {NULL}],
               tx[s].op = "delete",
               tx' = [tx EXCEPT ![s] = [tx[s] EXCEPT !.todo = todo, !.moved = moved]]
        PROVE  /\ tx' \in [Sessions -> Txs]
               /\ \A r \in Sessions : tx'[r].op \notin {"idle", "delete"} =>
                     tx'[r].todo \subseteq DOMAIN tx'[r].snap
    <2> DEFINE t == [tx[s] EXCEPT !.todo = todo, !.moved = moved]
    <2>1. t \in Txs /\ t.op = "delete"
      BY <1>1, <1>3 DEF Txs
    <2> HIDE DEF t
    <2>2. tx' = [tx EXCEPT ![s] = t]
      BY <1>3 DEF t
    <2> QED BY <2>1, <2>2, SessionStep
  <1>4. tx[s].todo \in SUBSET Accounts
        /\ tx[s].moved \in SUBSET [acct: Accounts, to: Campaigns \cup {NULL}]
        /\ \A a : tx[s].todo \ {a} \in SUBSET Accounts
        /\ {} \in SUBSET [acct: Accounts, to: Campaigns \cup {NULL}]
    BY <1>1 DEF Txs
  <1>5. ASSUME NEW a \in Accounts, DeleteDetach(s, a)
        PROVE  TypeHistory'
    <2> DEFINE base == Reassigned(acct, tx[s].moved)
    <2>1. PICK rule \in Resolve("container.detach", acct[a]) :
             /\ acct' = [base EXCEPT ![a] = ApplyEffects(rule, base[a], NULL)]
             /\ lastTo' = [lastTo EXCEPT ![a] = rule.to]
      BY <1>5 DEF DeleteDetach
    <2>2. base \in [Accounts -> Rows] /\ \A b \in Accounts : base[b].status = acct[b].status
      BY <1>1, <1>4, ReassignedType
    <2> HIDE DEF base
    <2>3. rule \in Transitions /\ base[a] \in Rows /\ base[a].status \in rule.from
      BY <2>1, <2>2 DEF Resolve
    <2>4. ApplyEffects(rule, base[a], NULL) \in Rows
          /\ ApplyEffects(rule, base[a], NULL).status = rule.to /\ rule.to \in Statuses
      BY <2>3, ApplyType, RuleFacts
    <2>5. HistoryTellsStatus'
      BY <2>1, <2>2, <2>4 DEF HistoryTellsStatus, TypeOK
    <2>6. tx' = [tx EXCEPT ![s] = [tx[s] EXCEPT !.todo = tx[s].todo \ {a}, !.moved = {}]]
          /\ tx[s].op = "delete"
      BY <1>5 DEF DeleteDetach
    <2>7. /\ tx' \in [Sessions -> Txs]
          /\ \A r \in Sessions : tx'[r].op \notin {"idle", "delete"} =>
                 tx'[r].todo \subseteq DOMAIN tx'[r].snap
      BY <2>6, <1>3, <1>4
    <2>8. links' \subseteq links /\ attached' \subseteq attached /\ UNCHANGED campaigns
      BY <1>5 DEF DeleteDetach, Unlinked
    <2>9. acct' \in [Accounts -> Rows] /\ lastTo' \in [Accounts -> Statuses \cup {NULL}]
      BY <2>1, <2>2, <2>4 DEF TypeOK
    <2>10. TypeOK'
      BY <2>7, <2>8, <2>9 DEF TypeOK
    <2> QED BY <2>5, <2>10
  <1>6. ASSUME NEW a \in Accounts, DeleteFlush(s, a)
        PROVE  TypeHistory'
    <2> DEFINE kept(d) == IF acct[a].container = tx[s].camp THEN d ELSE NULL
    <2>1. PICK d \in LinksOf(a) \ {tx[s].camp} :
             tx' = [tx EXCEPT ![s] = [tx[s] EXCEPT !.todo = tx[s].todo \ {a},
                        !.moved = tx[s].moved \cup {[acct |-> a, to |-> kept(d)]}]]
      BY <1>6 DEF DeleteFlush
    <2>2. kept(d) \in Campaigns \cup {NULL}
      BY DEF LinksOf
    <2> HIDE DEF kept
    <2>3. tx[s].moved \cup {[acct |-> a, to |-> kept(d)]}
             \in SUBSET [acct: Accounts, to: Campaigns \cup {NULL}]
      BY <2>2, <1>4
    <2>4. tx[s].op = "delete" /\ UNCHANGED <<acct, links, campaigns, lastTo, attached>>
      BY <1>6 DEF DeleteFlush
    <2>5. /\ tx' \in [Sessions -> Txs]
          /\ \A r \in Sessions : tx'[r].op \notin {"idle", "delete"} =>
                 tx'[r].todo \subseteq DOMAIN tx'[r].snap
      BY <2>1, <2>3, <2>4, <1>3, <1>4
    <2>6. HistoryTellsStatus'
      BY <2>4 DEF HistoryTellsStatus
    <2> QED BY <2>4, <2>5, <2>6 DEF TypeOK
  <1>7. ASSUME NEW a \in Accounts, DeleteSkip(s, a)
        PROVE  TypeHistory'
    <2>1. tx' = [tx EXCEPT ![s] = [tx[s] EXCEPT !.todo = tx[s].todo \ {a}, !.moved = {}]]
          /\ tx[s].op = "delete" /\ UNCHANGED <<acct, links, campaigns, lastTo, attached>>
      BY <1>7 DEF DeleteSkip
    <2>2. /\ tx' \in [Sessions -> Txs]
          /\ \A r \in Sessions : tx'[r].op \notin {"idle", "delete"} =>
                 tx'[r].todo \subseteq DOMAIN tx'[r].snap
      BY <2>1, <1>3, <1>4
    <2>3. HistoryTellsStatus'
      BY <2>1 DEF HistoryTellsStatus
    <2> QED BY <2>1, <2>2, <2>3 DEF TypeOK
  <1>8. ASSUME NEW a \in Accounts, DeleteFails(s, a)
        PROVE  TypeHistory'
    <2>1. HistoryTellsStatus'
      BY <1>8 DEF HistoryTellsStatus, DeleteFails
    <2> QED BY <1>8, <2>1, <1>2, IdleType, SessionStep DEF DeleteFails, TypeOK
  <1>9. CASE FinishDelete(s)
    <2>1. acct' \in [Accounts -> Rows] /\ \A b \in Accounts : acct'[b].status = acct[b].status
      BY <1>9, <1>1, <1>4, ReassignedType DEF FinishDelete
    <2>2. HistoryTellsStatus'
      BY <1>9, <2>1 DEF HistoryTellsStatus, FinishDelete
    <2>3. links' \subseteq links /\ attached' \subseteq attached /\ campaigns' \subseteq campaigns
      BY <1>9 DEF FinishDelete
    <2> QED BY <1>9, <2>1, <2>2, <2>3, <1>2, IdleType, SessionStep DEF FinishDelete, TypeOK
  <1> QED BY <1>5, <1>6, <1>7, <1>8, <1>9

\* A process that dies writes nothing.
LEMMA CrashStep ==
    ASSUME TypeHistory, NEW s \in Sessions, Crash(s)
    PROVE  TypeHistory'
  <1>1. tx' = [tx EXCEPT ![s] = Idle] /\ UNCHANGED <<acct, links, campaigns, lastTo, attached>>
    BY DEF Crash
  <1>2. Idle.op = "idle"
    BY DEF Idle
  <1>3. HistoryTellsStatus'
    BY <1>1 DEF TypeHistory, HistoryTellsStatus
  <1>4. /\ tx' \in [Sessions -> Txs]
        /\ \A r \in Sessions : tx'[r].op \notin {"idle", "delete"} =>
               tx'[r].todo \subseteq DOMAIN tx'[r].snap
    BY <1>1, <1>2, IdleType, SessionStep
  <1> QED BY <1>1, <1>3, <1>4 DEF TypeHistory, TypeOK

\* TypeOK and HistoryTellsStatus hold of every behaviour, however many sessions of
\* the API and the worker interleave.
THEOREM TypeHistoryInvariant == Spec => [](TypeOK /\ HistoryTellsStatus)
  <1>1. Init => TypeHistory
    BY InitTypeHistory
  <1>2. TypeHistory /\ [Next]_vars => TypeHistory'
    <2> SUFFICES ASSUME TypeHistory, [Next]_vars PROVE TypeHistory'
      OBVIOUS
    <2>1. CASE UNCHANGED vars
      BY <2>1 DEF vars, TypeHistory, TypeOK, HistoryTellsStatus
    <2>2. CASE \E a \in Accounts : \/ \E status \in {"created", "pool"} : CreateAccount(a, status)
                                   \/ DeleteAccount(a)
                                   \/ CooldownElapses(a)
      BY <2>2, TableStep
    <2>3. CASE \E c \in Campaigns, a \in Accounts : FlushDetach(c, a)
      BY <2>3 DEF FlushDetach, TypeHistory, TypeOK, HistoryTellsStatus
    <2>4. ASSUME NEW s \in Sessions, Open(s) PROVE TypeHistory'
      BY <2>4, OpenStep
    <2>5. ASSUME NEW s \in Sessions, Progress(s) PROVE TypeHistory'
      BY <2>5, CommitStep, DeleteStep DEF Progress
    <2>6. ASSUME NEW s \in Sessions, Crash(s) PROVE TypeHistory'
      BY <2>6, CrashStep
    <2> QED BY <2>1, <2>2, <2>3, <2>4, <2>5, <2>6 DEF Next
  <1> QED BY <1>1, <1>2, PTL DEF Spec, TypeHistory
-----------------------------------------------------------------------------
\* The only rule that leads into a cooldown is the one that dates it.
LEMMA DatedRule ==
    ASSUME NEW rule \in Transitions, NEW old, NEW cur, old.status \in rule.from, NEW c
    PROVE  LET row == Merge(rule, old, ApplyEffects(rule, old, c), cur)
           IN  row.status = "cooldown" => row.until = "running"
  <1>1. rule.to = "cooldown" => rule.effect = "enter_cooldown"
    BY DEF Transitions, WarmingRules, ContainerRules, CooldownRules, RetireRules, BanRules
  <1>2. rule.to # old.status
    BY RuleFacts
  <1> QED BY <1>1, <1>2 DEF Merge, ApplyEffects

\* The UPDATE of one account, over whatever other sessions wrote, keeps cooldowns dated.
LEMMA DatedWrite ==
    ASSUME TypeOK, CooldownHasDate, NEW s \in Sessions, NEW a \in Accounts,
           NEW rule \in Transitions, NEW old \in Rows, old.status \in rule.from,
           NEW c, Write(s, a, rule, old, c)
    PROVE  CooldownHasDate'
  <1> DEFINE row == Merge(rule, old, ApplyEffects(rule, old, c), acct[a])
  <1>1. row.status = "cooldown" => row.until = "running"
    BY DatedRule
  <1>2. acct' = [acct EXCEPT ![a] = row] /\ acct \in [Accounts -> Rows]
    BY DEF Write, TypeOK
  <1> HIDE DEF row
  <1> QED BY <1>1, <1>2 DEF CooldownHasDate

\* Moving containers among campaigns leaves cooldowns as they are.
LEMMA ReassignedKeeps ==
    ASSUME acct \in [Accounts -> Rows], NEW moved, NEW b \in Accounts
    PROVE  /\ Reassigned(acct, moved)[b].status = acct[b].status
           /\ Reassigned(acct, moved)[b].until = acct[b].until
  <1>1. acct[b] \in Rows
    OBVIOUS
  <1>2. \/ Reassigned(acct, moved)[b] = acct[b]
        \/ \E c : Reassigned(acct, moved)[b] = [acct[b] EXCEPT !.container = c]
    BY DEF Reassigned
  <1> QED BY <1>1, <1>2 DEF Rows

\* The commit of a transition writes rows only through Write.
LEMMA DatedCommit ==
    ASSUME TypeOK, CooldownHasDate, NEW s \in Sessions, NEW a \in Accounts,
           \/ CommitTransition(s, a)
           \/ \E c \in Campaigns : CommitAttach(s, c, a) \/ CommitDetach(s, c, a)
    PROVE  CooldownHasDate'
  <1>1. tx[s].op \notin {"idle", "delete"} /\ a \in tx[s].todo
    BY DEF CommitTransition, CommitAttach, CommitDetach, SingleEvents
  <1>2. PICK rule \in Transitions : /\ \E event : Resolve(event, tx[s].snap[a]) = {rule}
                                   /\ \E c : Write(s, a, rule, tx[s].snap[a], c)
    BY DEF CommitTransition, CommitAttach, CommitDetach
  <1>3. tx[s].snap[a] \in Rows /\ tx[s].snap[a].status \in rule.from
    BY <1>1, <1>2, SnapType DEF Resolve
  <1> QED BY <1>2, <1>3, DatedWrite

\* Every step keeps cooldowns dated.
LEMMA DatedStep ==
    ASSUME TypeOK, CooldownHasDate, Next
    PROVE  CooldownHasDate'
  <1>1. acct \in [Accounts -> Rows]
    BY DEF TypeOK
  <1>2. UNCHANGED acct => CooldownHasDate'
    BY DEF CooldownHasDate
  <1>3. ASSUME NEW a \in Accounts, NEW status \in NoRow \cup {"created", "pool"},
               acct' = [acct EXCEPT ![a] = FreshRow(status)]
        PROVE  CooldownHasDate'
    BY <1>1, <1>3 DEF CooldownHasDate, FreshRow, NoRow
  <1>4. ASSUME NEW a \in Accounts,
               \/ \E status \in {"created", "pool"} : CreateAccount(a, status)
               \/ DeleteAccount(a)
               \/ CooldownElapses(a)
        PROVE  CooldownHasDate'
    <2>1. CASE CooldownElapses(a)
      <3>1. acct' = [acct EXCEPT ![a] = [acct[a] EXCEPT !.until = "elapsed"]]
        BY <2>1 DEF CooldownElapses
      <3>2. [acct[a] EXCEPT !.until = "elapsed"].until = "elapsed"
        BY <1>1 DEF Rows
      <3> HIDE <3>1
      <3> QED BY <1>1, <3>1, <3>2 DEF CooldownHasDate
    <2>2. CASE DeleteAccount(a)
      BY <1>3, <2>2 DEF DeleteAccount, Erase, NoRow
    <2>3. CASE \E status \in {"created", "pool"} : CreateAccount(a, status)
      BY <1>3, <2>3 DEF CreateAccount
    <2> QED BY <1>4, <2>1, <2>2, <2>3
  <1>5. ASSUME NEW c \in Campaigns, NEW a \in Accounts, FlushDetach(c, a)
        PROVE  CooldownHasDate'
    BY <1>2, <1>5 DEF FlushDetach
  <1>6. ASSUME NEW s \in Sessions, Open(s) PROVE CooldownHasDate'
    BY <1>2, <1>6 DEF Open, RequestTransition, RequestAttach, RequestDetach, RequestDelete,
       StartSweep, StartCooldownReturn
  <1>7. ASSUME NEW s \in Sessions, Progress(s) PROVE CooldownHasDate'
    <2>1. ASSUME NEW a \in Accounts, DeleteDetach(s, a) PROVE CooldownHasDate'
      <3> DEFINE base == Reassigned(acct, tx[s].moved)
      <3>1. PICK rule \in Resolve("container.detach", acct[a]) :
               acct' = [base EXCEPT ![a] = ApplyEffects(rule, base[a], NULL)]
        BY <2>1 DEF DeleteDetach
      <3>2. \A b \in Accounts : base[b].status = acct[b].status /\ base[b].until = acct[b].until
        BY <1>1, ReassignedKeeps
      <3>3. base = [b \in Accounts |-> base[b]]
        BY DEF Reassigned
      <3> HIDE DEF base
      <3>4. rule.to = "pool"
        BY DEF Resolve, Transitions, WarmingRules, ContainerRules, CooldownRules, RetireRules,
           BanRules
      <3>5. ApplyEffects(rule, base[a], NULL).status # "cooldown"
        BY <3>4 DEF ApplyEffects
      <3> QED BY <3>1, <3>2, <3>3, <3>5 DEF CooldownHasDate
    <2>2. CASE FinishDelete(s)
      BY <1>1, <2>2, ReassignedKeeps DEF FinishDelete, CooldownHasDate
    <2>3. ASSUME NEW a \in Accounts, SweepOne(s, a) PROVE CooldownHasDate'
      BY <1>2, <1>3, <2>3 DEF SweepOne, Erase, NoRow
    <2>4. ASSUME NEW a \in Accounts,
                 \/ AbortTransition(s, a) \/ DeleteFlush(s, a) \/ DeleteSkip(s, a)
                 \/ DeleteFails(s, a)
          PROVE  CooldownHasDate'
      BY <1>2, <2>4 DEF AbortTransition, DeleteFlush, DeleteSkip, DeleteFails
    <2>5. ASSUME NEW c \in Campaigns, NEW a \in Accounts, FlushAttach(s, c, a) \/ RefuseAttach(s, c, a)
          PROVE  CooldownHasDate'
      BY <1>2, <2>5 DEF FlushAttach, RefuseAttach
    <2> QED BY <1>7, <2>1, <2>2, <2>3, <2>4, <2>5, DatedCommit DEF Progress
  <1>8. ASSUME NEW s \in Sessions, Crash(s) PROVE CooldownHasDate'
    BY <1>2, <1>8 DEF Crash
  <1> QED BY <1>4, <1>5, <1>6, <1>7, <1>8 DEF Next

\* However the sessions of the API and the worker interleave, and whichever columns
\* their UPDATEs carry, an account in cooldown has the date the cron looks for.
THEOREM CooldownDateInvariant == Spec => []CooldownHasDate
  <1>1. Init => CooldownHasDate
    BY DEF Init, CooldownHasDate, FreshRow
  <1>2. TypeOK /\ CooldownHasDate /\ [Next]_vars => CooldownHasDate'
    BY DatedStep DEF vars, CooldownHasDate
  <1>3. Spec => []TypeOK
    BY TypeHistoryInvariant, PTL
  <1> QED BY <1>1, <1>2, <1>3, PTL DEF Spec
-----------------------------------------------------------------------------

\* The columns of a row agree: the container is set while the account works for it,
\* a cooldown has an end and a stage to return to.
RowOK(row) ==
    /\ row.container # NULL <=> \/ row.status = "assigned"
                                \/ row.status = "cooldown" /\ row.prev = "assigned"
    /\ row.status = "cooldown" => row.until # "none" /\ row.prev \in {"pool", "assigned"}

\* What a session read is still what the row holds, but for the clock.
SameButClock(read, row) ==
    /\ read.status = row.status /\ read.prev = row.prev /\ read.container = row.container
    /\ read.until = "none" <=> row.until = "none"

RowOps == SingleEvents \cup {"cooldown.expired", "attach", "detach"}

\* The inductive invariant of the single session s: rows agree, the snapshots of an
\* open call are fresh, and a reassignment that waits for a commit concerns an account
\* that still has a container.
SerialInv(s) ==
    /\ \A a \in Accounts : RowOK(acct[a])
    /\ tx[s].op \in RowOps =>
          \A a \in tx[s].todo : /\ acct[a].status # "absent"
                                /\ Alive(a) => SameButClock(tx[s].snap[a], acct[a])
    /\ tx[s].op # "delete" => tx[s].moved = {}
    /\ tx[s].op = "delete" => tx[s].camp \in Campaigns
    /\ \A m \in tx[s].moved : m.to # NULL => acct[m.acct].container # NULL

\* The rules by effect.
LEMMA RuleKinds ==
    ASSUME NEW rule \in Transitions
    PROVE  \/ /\ rule.effect = "none" /\ rule.to \in {"warming", "pool", "retired"}
              /\ rule.from \subseteq {"created", "warming", "banned", "retired"}
           \/ rule.effect = "attach_container" /\ rule.to = "assigned"
           \/ rule.effect = "detach_container" /\ rule.to \in {"pool", "retired", "banned"}
           \/ /\ rule.effect = "enter_cooldown" /\ rule.to = "cooldown"
              /\ rule.from = {"pool", "assigned"}
           \/ /\ rule.effect = "exit_cooldown" /\ rule.from = {"cooldown"}
              /\ \/ rule.to = "pool" /\ rule.when = "pool"
                 \/ rule.to = "assigned" /\ rule.when = "assigned"
  BY DEF Transitions, WarmingRules, ContainerRules, CooldownRules, RetireRules, BanRules

\* A rule applied to a fresh snapshot leaves the columns in agreement.
LEMMA SerialWrite ==
    ASSUME NEW rule \in Transitions, NEW old \in Rows, NEW cur \in Rows,
           SameButClock(old, cur), RowOK(cur), old.status \in rule.from, Guard(rule, old),
           NEW c, rule.effect = "attach_container" => c \in Campaigns
    PROVE  RowOK(Merge(rule, old, ApplyEffects(rule, old, c), cur))
  <1> DEFINE new == ApplyEffects(rule, old, c)
             out == Merge(rule, old, new, cur)
  <1>1. rule.to # old.status
    BY RuleFacts
  <1>2. out.status = rule.to
    BY <1>1 DEF Merge, ApplyEffects
  <1>3. out.prev = IF rule.effect = "enter_cooldown" THEN cur.status
                   ELSE IF rule.effect = "exit_cooldown" THEN NULL ELSE cur.prev
    BY DEF Merge, ApplyEffects, SameButClock
  <1>4. out.container = IF rule.effect = "attach_container" THEN c
                        ELSE IF rule.effect = "detach_container" THEN NULL ELSE cur.container
    BY DEF Merge, ApplyEffects, SameButClock
  <1>5. out.until # "none" \/ rule.effect = "exit_cooldown" \/ cur.until = "none"
    BY DEF Merge, ApplyEffects, SameButClock
  <1>5a. rule.effect = "enter_cooldown" => out.until # "none"
    BY DEF Merge, ApplyEffects
  <1>6. cur.status \in rule.from /\ Guard(rule, cur)
    BY DEF SameButClock, Guard
  <1>7. c \in Campaigns => c # NULL
    BY NullAssumption
  <1> SUFFICES RowOK(out)
    OBVIOUS
  <1> HIDE DEF out
  <1>8. CASE /\ rule.effect = "none" /\ rule.to \in {"warming", "pool", "retired"}
             /\ rule.from \subseteq {"created", "warming", "banned", "retired"}
    BY <1>2, <1>4, <1>6, <1>8 DEF RowOK
  <1>9. CASE rule.effect = "attach_container" /\ rule.to = "assigned"
    BY <1>2, <1>4, <1>7, <1>9 DEF RowOK
  <1>10. CASE rule.effect = "detach_container" /\ rule.to \in {"pool", "retired", "banned"}
    BY <1>2, <1>4, <1>10 DEF RowOK
  <1>11. CASE /\ rule.effect = "enter_cooldown" /\ rule.to = "cooldown"
              /\ rule.from = {"pool", "assigned"}
    BY <1>2, <1>3, <1>4, <1>5a, <1>6, <1>11 DEF RowOK
  <1>12. CASE /\ rule.effect = "exit_cooldown" /\ rule.from = {"cooldown"}
              /\ \/ rule.to = "pool" /\ rule.when = "pool"
                 \/ rule.to = "assigned" /\ rule.when = "assigned"
    BY <1>2, <1>3, <1>4, <1>6, <1>12 DEF RowOK, Guard
  <1> QED BY <1>8, <1>9, <1>10, <1>11, <1>12, RuleKinds
-----------------------------------------------------------------------------
\* A row just made, or just erased, has its columns in agreement.
LEMMA FreshRowOK ==
    ASSUME NEW status \in {"created", "pool", "absent", "deleted"}
    PROVE  RowOK(FreshRow(status)) /\ FreshRow(status).status = status
  BY DEF RowOK, FreshRow

\* The initial states.
LEMMA SerialInit == ASSUME NEW s \in Sessions, Init PROVE SerialInv(s)
  <1>1. tx[s] = Idle /\ \A a \in Accounts : acct[a] = FreshRow("absent")
    BY DEF Init
  <1>2. \A a \in Accounts : RowOK(acct[a])
    BY <1>1, FreshRowOK
  <1>3. Idle.op = "idle" /\ Idle.moved = {}
    BY DEF Idle
  <1>4. "idle" \notin RowOps
    BY DEF RowOps, SingleEvents
  <1> QED BY <1>1, <1>2, <1>3, <1>4 DEF SerialInv

\* Replacing a container by another keeps a row in agreement.
LEMMA ReassignedOK ==
    ASSUME acct \in [Accounts -> Rows], \A a \in Accounts : RowOK(acct[a]),
           NEW moved \in SUBSET [acct: Accounts, to: Campaigns \cup {NULL}],
           \A m \in moved : m.to # NULL => acct[m.acct].container # NULL,
           NEW a \in Accounts
    PROVE  RowOK(Reassigned(acct, moved)[a])
  <1>1. CASE \E m \in moved : m.acct = a /\ m.to # NULL
    <2> DEFINE m == CHOOSE m \in moved : m.acct = a /\ m.to # NULL
    <2>1. m \in moved /\ m.acct = a /\ m.to # NULL
      BY <1>1
    <2>2. Reassigned(acct, moved)[a] = [acct[a] EXCEPT !.container = m.to]
      BY <1>1 DEF Reassigned
    <2> HIDE DEF m
    <2>3. acct[a].container # NULL
      BY <2>1
    <2>4. acct[a] \in Rows /\ RowOK(acct[a])
      OBVIOUS
    <2> DEFINE row == [acct[a] EXCEPT !.container = m.to]
    <2>5. /\ row.container = m.to /\ row.status = acct[a].status
          /\ row.prev = acct[a].prev /\ row.until = acct[a].until
      BY <2>4 DEF Rows
    <2> HIDE DEF row
    <2>6. RowOK(row)
      BY <2>1, <2>3, <2>4, <2>5 DEF RowOK
    <2> QED BY <2>2, <2>6 DEF row
  <1>2. CASE ~ \E m \in moved : m.acct = a /\ m.to # NULL
    BY <1>2 DEF Reassigned
  <1> QED BY <1>1, <1>2

\* Accounts appearing and disappearing, and the clock, with s in the middle of a call.
LEMMA SerialTableStep ==
    ASSUME TypeHistory, NEW s \in Sessions, SerialInv(s), NEW a \in Accounts,
           \/ \E status \in {"created", "pool"} : CreateAccount(a, status)
           \/ DeleteAccount(a)
           \/ CooldownElapses(a)
    PROVE  SerialInv(s)'
  <1>1. acct \in [Accounts -> Rows] /\ tx[s] \in Txs
    BY DEF TypeHistory, TypeOK
  <1>2. RowOK(acct[a])
    BY DEF SerialInv
  <1>3. tx[s].todo \subseteq Accounts /\ \A m \in tx[s].moved : m.acct \in Accounts
    BY <1>1 DEF Txs
  <1>4. CASE \E status \in {"created", "pool"} : CreateAccount(a, status)
    <2> PICK status \in {"created", "pool"} : CreateAccount(a, status)
      BY <1>4
    <2>1. /\ acct[a].status = "absent" /\ UNCHANGED tx
          /\ acct' = [acct EXCEPT ![a] = FreshRow(status)]
      BY DEF CreateAccount
    <2>2. RowOK(FreshRow(status))
      BY FreshRowOK
    <2>3. acct[a].container = NULL
      BY <1>2, <2>1 DEF RowOK
    <2>4. tx[s].op \in RowOps => a \notin tx[s].todo
      BY <2>1 DEF SerialInv
    <2>5. \A m \in tx[s].moved : m.to # NULL => m.acct # a
      BY <2>3 DEF SerialInv
    <2>6. \A b \in Accounts : RowOK(acct[b])'
      BY <1>1, <2>1, <2>2 DEF SerialInv
    <2>7. \A b \in Accounts : b # a => acct'[b] = acct[b]
      BY <1>1, <2>1
    <2>8. \A m \in tx'[s].moved : m.to # NULL => acct'[m.acct].container # NULL
      BY <1>3, <2>1, <2>5, <2>7 DEF SerialInv
    <2> QED BY <1>3, <2>1, <2>4, <2>6, <2>7, <2>8 DEF SerialInv, Alive
  <1>5. CASE DeleteAccount(a)
    <2>1. acct' = [acct EXCEPT ![a] = FreshRow("deleted")] /\ UNCHANGED tx
      BY <1>5 DEF DeleteAccount, Erase
    <2>2. RowOK(FreshRow("deleted")) /\ FreshRow("deleted").status = "deleted"
      BY FreshRowOK
    <2>3. \A m \in tx[s].moved : m.acct # a
      <3> SUFFICES ASSUME NEW m \in tx[s].moved, m.acct = a PROVE FALSE
        OBVIOUS
      <3>1. tx[s].op = "delete" /\ tx[s].camp \in Campaigns
        BY DEF SerialInv
      <3>2. s # NULL
        BY NullAssumption
      <3> QED BY <1>5, <3>1, <3>2 DEF DeleteAccount, LinkLocked
    <2>4. \A b \in Accounts : RowOK(acct[b])'
      BY <1>1, <2>1, <2>2 DEF SerialInv
    <2>5. \A b \in Accounts : b # a => acct'[b] = acct[b]
      BY <1>1, <2>1
    <2>6. acct'[a].status = "deleted"
      BY <1>1, <2>1, <2>2
    <2>7. "deleted" \notin Statuses
      BY DEF Statuses
    <2>8. \A m \in tx'[s].moved : m.to # NULL => acct'[m.acct].container # NULL
      BY <1>3, <2>1, <2>3, <2>5 DEF SerialInv
    <2> QED BY <1>3, <2>1, <2>4, <2>5, <2>6, <2>7, <2>8 DEF SerialInv, Alive
  <1>6. CASE CooldownElapses(a)
    <2> DEFINE row == [acct[a] EXCEPT !.until = "elapsed"]
    <2>1. acct[a].until = "running" /\ acct' = [acct EXCEPT ![a] = row] /\ UNCHANGED tx
      BY <1>6 DEF CooldownElapses
    <2>2. /\ row.status = acct[a].status /\ row.prev = acct[a].prev
          /\ row.container = acct[a].container /\ row.until = "elapsed"
      BY <1>1 DEF Rows
    <2> HIDE DEF row
    <2>3. RowOK(row)
      BY <1>2, <2>2 DEF RowOK
    <2>4. \A b \in Accounts : RowOK(acct[b])'
      BY <1>1, <2>1, <2>3 DEF SerialInv
    <2>5. /\ acct'[a] = row
          /\ \A b \in Accounts : b # a => acct'[b] = acct[b]
      BY <1>1, <2>1
    <2>6. \A b \in Accounts : /\ acct'[b].status = acct[b].status
                              /\ acct'[b].prev = acct[b].prev
                              /\ acct'[b].container = acct[b].container
                              /\ acct'[b].until = "none" <=> acct[b].until = "none"
      BY <2>1, <2>2, <2>5
    <2>7. tx'[s] = tx[s]
      BY <2>1
    <2>8. ASSUME tx[s].op \in RowOps, NEW b \in tx[s].todo
          PROVE  /\ acct'[b].status # "absent"
                 /\ Alive(b)' => SameButClock(tx[s].snap[b], acct'[b])
      BY <1>3, <2>6, <2>8 DEF SerialInv, Alive, SameButClock
    <2>9. \A m \in tx[s].moved : m.to # NULL => acct'[m.acct].container # NULL
      BY <1>3, <2>6 DEF SerialInv
    <2> QED BY <2>4, <2>7, <2>8, <2>9 DEF SerialInv
  <1> QED BY <1>4, <1>5, <1>6

\* Reading takes a fresh snapshot.
LEMMA SerialOpenStep ==
    ASSUME TypeHistory, NEW s \in Sessions, SerialInv(s), Open(s)
    PROVE  SerialInv(s)'
  <1>1. acct \in [Accounts -> Rows] /\ tx \in [Sessions -> Txs]
    BY DEF TypeHistory, TypeOK
  <1>2. "delete" \notin RowOps /\ "sweep" \notin RowOps
    BY DEF RowOps, SingleEvents
  <1>3. ASSUME NEW op, op # "delete", NEW c, NEW todo \in SUBSET Accounts,
               op \in RowOps => \A a \in todo : acct[a].status # "absent",
               tx' = [tx EXCEPT ![s] = Opened(op, c, todo)], UNCHANGED acct
        PROVE  SerialInv(s)'
    <2>1. tx'[s] = Opened(op, c, todo)
      BY <1>1, <1>3
    <2>2. /\ Opened(op, c, todo).op = op /\ Opened(op, c, todo).todo = todo
          /\ Opened(op, c, todo).moved = {}
          /\ \A a \in todo : Opened(op, c, todo).snap[a] = acct[a]
      BY DEF Opened
    <2> QED BY <1>3, <2>1, <2>2 DEF SerialInv, SameButClock, Alive
  <1>4. \A event, a : Resolve(event, acct[a]) # {} => acct[a].status # "absent"
    <2> SUFFICES ASSUME NEW event, NEW a, Resolve(event, acct[a]) # {}
                 PROVE  acct[a].status # "absent"
      OBVIOUS
    <2> PICK rule \in Resolve(event, acct[a]) : TRUE
      OBVIOUS
    <2>1. rule \in Transitions /\ acct[a].status \in rule.from
      BY DEF Resolve
    <2> QED BY <2>1, RuleFacts DEF Statuses
  <1>5. CASE \E a \in Accounts, event \in SingleEvents : RequestTransition(s, event, a)
    <2> PICK a \in Accounts, event \in SingleEvents : RequestTransition(s, event, a)
      BY <1>5
    <2>1. event # "delete" /\ {a} \in SUBSET Accounts
      BY DEF SingleEvents
    <2> QED BY <2>1, <1>3, <1>4 DEF RequestTransition
  <1>6. CASE \E c \in Campaigns, a \in Accounts : RequestAttach(s, c, a) \/ RequestDetach(s, c, a)
    <2> PICK c \in Campaigns, a \in Accounts : RequestAttach(s, c, a) \/ RequestDetach(s, c, a)
      BY <1>6
    <2>1. {a} \in SUBSET Accounts
      OBVIOUS
    <2>2. CASE RequestAttach(s, c, a)
      BY <2>1, <2>2, <1>3 DEF RequestAttach, Alive, Statuses
    <2>3. CASE RequestDetach(s, c, a)
      BY <2>1, <2>3, <1>3, <1>4 DEF RequestDetach
    <2> QED BY <2>2, <2>3
  <1>7. CASE \E c \in Campaigns : RequestDelete(s, c)
    <2> PICK c \in Campaigns : RequestDelete(s, c)
      BY <1>7
    <2> DEFINE t == [Opened("delete", c, Linked(c)) EXCEPT !.snap = Idle.snap]
    <2>1. t.op = "delete" /\ t.camp = c /\ t.moved = {}
      BY DEF Opened
    <2>2. tx' = [tx EXCEPT ![s] = t] /\ UNCHANGED acct
      BY DEF RequestDelete
    <2> HIDE DEF t
    <2>3. tx'[s] = t
      BY <1>1, <2>2
    <2> QED BY <1>2, <2>1, <2>2, <2>3 DEF SerialInv
  <1>8. CASE StartSweep(s)
    <2> PICK stale \in SUBSET {a \in Accounts : acct[a].status = "created"} :
               tx' = [tx EXCEPT ![s] = Opened("sweep", NULL, stale)]
      BY <1>8 DEF StartSweep
    <2>1. UNCHANGED acct /\ stale \in SUBSET Accounts
      BY <1>8 DEF StartSweep
    <2> QED BY <1>2, <1>3, <2>1
  <1>9. CASE StartCooldownReturn(s)
    <2> DEFINE expired == {a \in Accounts : acct[a].status = "cooldown" /\ acct[a].until = "elapsed"}
    <2>1. tx' = [tx EXCEPT ![s] = Opened("cooldown.expired", NULL, expired)] /\ UNCHANGED acct
      BY <1>9 DEF StartCooldownReturn
    <2>2. expired \in SUBSET Accounts /\ \A a \in expired : acct[a].status # "absent"
      OBVIOUS
    <2> HIDE DEF expired
    <2> QED BY <2>1, <2>2, <1>3
  <1> QED BY <1>5, <1>6, <1>7, <1>8, <1>9 DEF Open

\* The commit of a transition from a fresh snapshot.
LEMMA SerialCommit ==
    ASSUME TypeHistory, NEW s \in Sessions, SerialInv(s), NEW a \in tx[s].todo,
           tx[s].op \in RowOps, Alive(a),
           NEW event, NEW rule \in Transitions, Resolve(event, tx[s].snap[a]) = {rule},
           NEW c, rule.effect = "attach_container" => c \in Campaigns,
           Write(s, a, rule, tx[s].snap[a], c)
    PROVE  /\ \A b \in Accounts : RowOK(acct'[b])
           /\ \A b \in Accounts : b # a => acct'[b] = acct[b]
           /\ acct'[a].status = rule.to /\ acct[a].status \in rule.from
  <1>1. acct \in [Accounts -> Rows] /\ tx[s] \in Txs
    BY DEF TypeHistory, TypeOK
  <1>2. a \in Accounts /\ acct[a] \in Rows /\ RowOK(acct[a])
    BY <1>1 DEF Txs, SerialInv
  <1>3. tx[s].op \notin {"idle", "delete"}
    BY DEF RowOps, SingleEvents
  <1>4. tx[s].snap[a] \in Rows
    BY <1>3, SnapType DEF TypeHistory
  <1>5. SameButClock(tx[s].snap[a], acct[a])
    BY DEF SerialInv
  <1>6. tx[s].snap[a].status \in rule.from /\ Guard(rule, tx[s].snap[a])
    BY DEF Resolve
  <1> DEFINE out == Merge(rule, tx[s].snap[a], ApplyEffects(rule, tx[s].snap[a], c), acct[a])
  <1>7. RowOK(out)
    BY <1>2, <1>4, <1>5, <1>6, SerialWrite
  <1>8. out.status = rule.to
    BY <1>6, RuleFacts DEF Merge, ApplyEffects
  <1>9. acct' = [acct EXCEPT ![a] = out]
    BY DEF Write
  <1> HIDE DEF out
  <1> QED BY <1>1, <1>2, <1>5, <1>6, <1>7, <1>8, <1>9 DEF SerialInv, SameButClock

\* The session commits, refuses or aborts its transition, attach or detach.
LEMMA SerialCommitStep ==
    ASSUME TypeHistory, NEW s \in Sessions, SerialInv(s), NEW a \in Accounts,
           \/ CommitTransition(s, a)
           \/ AbortTransition(s, a)
           \/ SweepOne(s, a)
           \/ \E c \in Campaigns : \/ CommitAttach(s, c, a) \/ FlushAttach(s, c, a)
                                   \/ RefuseAttach(s, c, a) \/ CommitDetach(s, c, a)
    PROVE  SerialInv(s)'
  <1>1. acct \in [Accounts -> Rows] /\ tx \in [Sessions -> Txs]
    BY DEF TypeHistory, TypeOK
  <1>2. Idle.op \notin RowOps /\ Idle.op # "delete" /\ Idle.moved = {}
    BY DEF Idle, RowOps, SingleEvents
  <1>3. ASSUME \A b \in Accounts : RowOK(acct'[b]), tx' = [tx EXCEPT ![s] = Idle]
        PROVE  SerialInv(s)'
    <2>1. tx'[s] = Idle
      BY <1>1, <1>3
    <2> QED BY <1>2, <1>3, <2>1 DEF SerialInv
  <1>4. ASSUME tx' = [tx EXCEPT ![s] = Rest(tx[s], a)], tx[s].op # "delete"
        PROVE  \/ tx'[s] = Idle
               \/ /\ tx'[s].op = tx[s].op /\ tx'[s].todo = tx[s].todo \ {a}
                  /\ tx'[s].snap = tx[s].snap /\ tx'[s].moved = {}
    <2>1. tx'[s] = Rest(tx[s], a) /\ tx[s].moved = {}
      BY <1>1, <1>4 DEF SerialInv
    <2>2. CASE tx[s].todo = {a}
      BY <2>1, <2>2 DEF Rest
    <2>3. CASE tx[s].todo # {a}
      <3>1. Rest(tx[s], a) = [tx[s] EXCEPT !.todo = tx[s].todo \ {a}]
        BY <2>3 DEF Rest
      <3>2. tx[s] \in Txs
        BY <1>1
      <3> QED BY <2>1, <3>1, <3>2 DEF Txs
    <2> QED BY <2>2, <2>3
  <1>5. CASE CommitTransition(s, a)
    <2>1. /\ a \in tx[s].todo /\ Alive(a) /\ tx' = [tx EXCEPT ![s] = Rest(tx[s], a)]
          /\ tx[s].op \in SingleEvents \cup {"cooldown.expired"}
      BY <1>5 DEF CommitTransition
    <2>2. tx[s].op \in RowOps /\ tx[s].op # "delete"
      BY <2>1 DEF RowOps, SingleEvents
    <2>3. PICK rule \in Transitions :
             /\ Resolve(tx[s].op, tx[s].snap[a]) = {rule}
             /\ Write(s, a, rule, tx[s].snap[a], NULL)
      BY <1>5 DEF CommitTransition
    <2>4. rule.effect # "attach_container"
      <3>1. rule.event = tx[s].op
        BY <2>3 DEF Resolve
      <3> QED BY <2>1, <3>1 DEF Transitions, WarmingRules, ContainerRules, CooldownRules, RetireRules, BanRules, SingleEvents
    <2>5. /\ \A b \in Accounts : RowOK(acct'[b])
          /\ \A b \in Accounts : b # a => acct'[b] = acct[b]
      BY <2>1, <2>2, <2>3, <2>4, SerialCommit
    <2>6. tx[s].todo \subseteq Accounts
      BY <1>1 DEF Txs
    <2> QED BY <1>2, <1>4, <2>1, <2>2, <2>5, <2>6 DEF SerialInv, Alive
  <1>6. CASE AbortTransition(s, a)
    BY <1>6, <1>3 DEF AbortTransition, SerialInv
  <1>7. CASE SweepOne(s, a)
    <2>1. /\ tx[s].op = "sweep" /\ tx' = [tx EXCEPT ![s] = Rest(tx[s], a)]
          /\ \/ acct' = [acct EXCEPT ![a] = FreshRow("deleted")]
             \/ acct' = acct
      BY <1>7 DEF SweepOne, Erase
    <2>2. RowOK(FreshRow("deleted"))
      BY FreshRowOK
    <2>3. \A b \in Accounts : RowOK(acct'[b])
      BY <1>1, <2>1, <2>2 DEF SerialInv
    <2>4. "sweep" \notin RowOps
      BY DEF RowOps, SingleEvents
    <2> QED BY <1>2, <1>4, <2>1, <2>3, <2>4 DEF SerialInv
  <1>8. ASSUME NEW c \in Campaigns, CommitAttach(s, c, a) \/ FlushAttach(s, c, a)
                                    \/ RefuseAttach(s, c, a) \/ CommitDetach(s, c, a)
        PROVE  SerialInv(s)'
    <2>1. CASE CommitAttach(s, c, a)
      <3>1. a \in tx[s].todo /\ tx[s].op \in RowOps /\ Alive(a) /\ tx' = [tx EXCEPT ![s] = Idle]
        BY <2>1 DEF CommitAttach, RowOps, Insertable
      <3>2. PICK rule \in Transitions :
               /\ Resolve("container.attach", tx[s].snap[a]) = {rule}
               /\ Write(s, a, rule, tx[s].snap[a], c)
        BY <2>1 DEF CommitAttach
      <3>3. \A b \in Accounts : RowOK(acct'[b])
        BY <3>1, <3>2, SerialCommit
      <3> QED BY <3>1, <3>3, <1>3
    <2>2. CASE FlushAttach(s, c, a)
      BY <2>2, <1>3 DEF FlushAttach, SerialInv
    <2>3. CASE RefuseAttach(s, c, a)
      BY <2>3, <1>3 DEF RefuseAttach, SerialInv
    <2>4. CASE CommitDetach(s, c, a)
      <3>1. a \in tx[s].todo /\ tx[s].op \in RowOps /\ tx' = [tx EXCEPT ![s] = Idle]
        BY <2>4 DEF CommitDetach, RowOps
      <3>2. PICK rule \in Transitions :
               /\ Resolve("container.detach", tx[s].snap[a]) = {rule}
               /\ Write(s, a, rule, tx[s].snap[a], NULL)
        BY <2>4 DEF CommitDetach
      <3>3. rule.effect # "attach_container"
        <4>1. rule.event = "container.detach"
          BY <3>2 DEF Resolve
        <4> QED BY <4>1 DEF Transitions, WarmingRules, ContainerRules, CooldownRules, RetireRules, BanRules
      <3>4. CASE Alive(a)
        <4>1. \A b \in Accounts : RowOK(acct'[b])
          BY <3>1, <3>2, <3>3, <3>4, SerialCommit
        <4> QED BY <3>1, <4>1, <1>3
      <3>5. CASE ~Alive(a)
        PROOF BY <2>4, <3>5 DEF CommitDetach
      <3> QED BY <3>4, <3>5
    <2> QED BY <1>8, <2>1, <2>2, <2>3, <2>4
  <1> QED BY <1>5, <1>6, <1>7, <1>8

\* The session deletes a campaign, link by link, or sweeps one account.
LEMMA SerialDeleteStep ==
    ASSUME TypeHistory, NEW s \in Sessions, SerialInv(s),
           \/ \E a \in Accounts : \/ DeleteDetach(s, a) \/ DeleteFlush(s, a)
                                  \/ DeleteSkip(s, a) \/ DeleteFails(s, a)
           \/ FinishDelete(s)
    PROVE  SerialInv(s)'
  <1>1. acct \in [Accounts -> Rows] /\ tx \in [Sessions -> Txs] /\ tx[s] \in Txs
    BY DEF TypeHistory, TypeOK
  <1>2. Idle.op \notin RowOps /\ Idle.op # "delete" /\ Idle.moved = {} /\ "delete" \notin RowOps
    BY DEF Idle, RowOps, SingleEvents
  <1>3. /\ tx[s].moved \in SUBSET [acct: Accounts, to: Campaigns \cup {NULL}]
        /\ \A m \in tx[s].moved : m.to # NULL => acct[m.acct].container # NULL
        /\ \A b \in Accounts : RowOK(acct[b])
    BY <1>1 DEF Txs, SerialInv
  <1>4. \A b \in Accounts : RowOK(Reassigned(acct, tx[s].moved)[b])
    BY <1>1, <1>3, ReassignedOK
  <1>5. ASSUME NEW todo, NEW moved, tx[s].op = "delete",
               tx' = [tx EXCEPT ![s] = [tx[s] EXCEPT !.todo = todo, !.moved = moved]]
        PROVE  tx'[s].op = "delete" /\ tx'[s].camp = tx[s].camp /\ tx'[s].moved = moved
    <2>1. tx'[s] = [tx[s] EXCEPT !.todo = todo, !.moved = moved]
      BY <1>1, <1>5
    <2> QED BY <1>1, <1>5, <2>1 DEF Txs
  <1>6. ASSUME NEW a \in Accounts, DeleteDetach(s, a)
        PROVE  SerialInv(s)'
    <2> DEFINE base == Reassigned(acct, tx[s].moved)
    <2>1. PICK rule \in Resolve("container.detach", acct[a]) :
             acct' = [base EXCEPT ![a] = ApplyEffects(rule, base[a], NULL)]
      BY <1>6 DEF DeleteDetach
    <2>2. rule.effect = "detach_container" /\ rule.to = "pool"
      BY DEF Resolve, Transitions, WarmingRules, ContainerRules, CooldownRules, RetireRules,
         BanRules
    <2>3. RowOK(ApplyEffects(rule, base[a], NULL))
      BY <2>2 DEF ApplyEffects, RowOK
    <2>4. base \in [Accounts -> Rows] /\ \A b \in Accounts : RowOK(base[b])
      BY <1>1, <1>3, <1>4, ReassignedType
    <2> HIDE DEF base
    <2>5. \A b \in Accounts : RowOK(acct'[b])
      BY <2>1, <2>3, <2>4
    <2>6. tx' = [tx EXCEPT ![s] = [tx[s] EXCEPT !.todo = tx[s].todo \ {a}, !.moved = {}]]
          /\ tx[s].op = "delete"
      BY <1>6 DEF DeleteDetach
    <2>7. tx'[s].op = "delete" /\ tx'[s].camp = tx[s].camp /\ tx'[s].moved = {}
      BY <2>6, <1>5
    <2> QED BY <1>2, <2>5, <2>6, <2>7 DEF SerialInv
  <1>7. ASSUME NEW a \in Accounts, DeleteFlush(s, a)
        PROVE  SerialInv(s)'
    <2> DEFINE kept(d) == IF acct[a].container = tx[s].camp THEN d ELSE NULL
    <2>1. PICK d \in LinksOf(a) \ {tx[s].camp} :
             tx' = [tx EXCEPT ![s] = [tx[s] EXCEPT !.todo = tx[s].todo \ {a},
                        !.moved = tx[s].moved \cup {[acct |-> a, to |-> kept(d)]}]]
      BY <1>7 DEF DeleteFlush
    <2>2. tx[s].op = "delete" /\ UNCHANGED acct /\ tx[s].camp \in Campaigns
      BY <1>7 DEF DeleteFlush, SerialInv
    <2>3. kept(d) # NULL => acct[a].container # NULL
      BY <2>2, NullAssumption
    <2> HIDE DEF kept
    <2>4. /\ tx'[s].op = "delete" /\ tx'[s].camp = tx[s].camp
          /\ tx'[s].moved = tx[s].moved \cup {[acct |-> a, to |-> kept(d)]}
      BY <2>1, <2>2, <1>5
    <2>5. \A m \in tx'[s].moved : m.to # NULL => acct[m.acct].container # NULL
      BY <1>3, <2>3, <2>4
    <2> QED BY <1>2, <1>3, <2>2, <2>4, <2>5 DEF SerialInv
  <1>8. ASSUME NEW a \in Accounts, DeleteSkip(s, a)
        PROVE  SerialInv(s)'
    <2>1. tx' = [tx EXCEPT ![s] = [tx[s] EXCEPT !.todo = tx[s].todo \ {a}, !.moved = {}]]
          /\ tx[s].op = "delete" /\ UNCHANGED acct
      BY <1>8 DEF DeleteSkip
    <2>2. tx'[s].op = "delete" /\ tx'[s].camp = tx[s].camp /\ tx'[s].moved = {}
      BY <2>1, <1>5
    <2> QED BY <1>2, <1>3, <2>1, <2>2 DEF SerialInv
  <1>9. ASSUME NEW a \in Accounts, DeleteFails(s, a)
        PROVE  SerialInv(s)'
    <2>1. tx'[s] = Idle /\ UNCHANGED acct
      BY <1>1, <1>9 DEF DeleteFails
    <2> QED BY <1>2, <1>3, <2>1 DEF SerialInv
  <1>10. CASE FinishDelete(s)
    <2>1. tx'[s] = Idle /\ acct' = Reassigned(acct, tx[s].moved)
      BY <1>1, <1>10 DEF FinishDelete
    <2> QED BY <1>2, <1>4, <2>1 DEF SerialInv
  <1> QED BY <1>6, <1>7, <1>8, <1>9, <1>10

\* The session dies: the tables stay as the last commit left them.
LEMMA SerialCrashStep ==
    ASSUME TypeHistory, NEW s \in Sessions, SerialInv(s), Crash(s)
    PROVE  SerialInv(s)'
  <1>1. tx'[s] = Idle /\ UNCHANGED acct
    BY DEF Crash, TypeHistory, TypeOK
  <1>2. Idle.op \notin RowOps /\ Idle.op # "delete" /\ Idle.moved = {}
    BY DEF Idle, RowOps, SingleEvents
  <1> QED BY <1>1, <1>2 DEF SerialInv

\* Every step of the only session, and of the world around it.
LEMMA SerialStep ==
    ASSUME NEW s, Sessions = {s}, TypeHistory, SerialInv(s), [Next]_vars
    PROVE  SerialInv(s)'
  <1>0. s \in Sessions
    OBVIOUS
  <1>1. CASE UNCHANGED vars
    BY <1>1 DEF vars, SerialInv, Alive
  <1>2. CASE \E a \in Accounts : \/ \E status \in {"created", "pool"} : CreateAccount(a, status)
                                 \/ DeleteAccount(a)
                                 \/ CooldownElapses(a)
    BY <1>0, <1>2, SerialTableStep
  <1>3. CASE \E c \in Campaigns, a \in Accounts : FlushDetach(c, a)
    BY <1>3 DEF FlushDetach, SerialInv, Alive
  <1>4. CASE Open(s)
    BY <1>0, <1>4, SerialOpenStep
  <1>5. CASE Progress(s)
    BY <1>0, <1>5, SerialCommitStep, SerialDeleteStep DEF Progress
  <1>6. CASE Crash(s)
    BY <1>0, <1>6, SerialCrashStep
  <1> QED BY <1>1, <1>2, <1>3, <1>4, <1>5, <1>6 DEF Next

\* The single rule that ends a cooldown is the one its previous_status names.
LEMMA WayBack ==
    ASSUME NEW row, RowOK(row), row.status = "cooldown"
    PROVE  \E rule \in Transitions : Resolve("cooldown.expired", row) = {rule}
  <1> DEFINE toPool == [event |-> "cooldown.expired", from |-> {"cooldown"}, to |-> "pool",
                        effect |-> "exit_cooldown", when |-> "pool"]
             toAssigned == [event |-> "cooldown.expired", from |-> {"cooldown"},
                            to |-> "assigned", effect |-> "exit_cooldown",
                            when |-> "assigned"]
  <1>1. /\ toPool \in Transitions /\ toAssigned \in Transitions
        /\ \A r \in Transitions : r.event = "cooldown.expired" => r \in {toPool, toAssigned}
    BY DEF Transitions, WarmingRules, ContainerRules, CooldownRules, RetireRules, BanRules
  <1>2. CASE row.prev = "pool"
    <2>1. Resolve("cooldown.expired", row) = {toPool}
      BY <1>1, <1>2 DEF Resolve, Guard
    <2> QED BY <1>1, <2>1
  <1>3. CASE row.prev = "assigned"
    <2>1. row.container # NULL
      BY <1>3 DEF RowOK
    <2>2. Resolve("cooldown.expired", row) = {toAssigned}
      BY <1>1, <1>3, <2>1 DEF Resolve, Guard
    <2> QED BY <1>1, <2>2
  <1> QED BY <1>2, <1>3 DEF RowOK

\* The inductive invariant gives the two properties of the account table.
LEMMA SerialImplies ==
    ASSUME NEW s, SerialInv(s)
    PROVE  ContainerIffWorking /\ CooldownHasWayBack
  <1>1. \A a \in Accounts : RowOK(acct[a])
    BY DEF SerialInv
  <1>2. ContainerIffWorking
    BY <1>1 DEF ContainerIffWorking, RowOK
  <1>3. CooldownHasWayBack
    <2> SUFFICES ASSUME NEW a \in Accounts, acct[a].status = "cooldown"
                 PROVE  /\ acct[a].until # "none"
                        /\ \E rule \in Transitions :
                              Resolve("cooldown.expired", acct[a]) = {rule}
      BY DEF CooldownHasWayBack
    <2> QED BY <1>1, WayBack DEF RowOK
  <1> QED BY <1>2, <1>3

\* Without overlapping sessions the container column and the stage of an account always
\* agree, and no account in cooldown can stop the cron that returns them.
THEOREM SerialInvariant ==
    ASSUME NEW s, Sessions = {s}
    PROVE  Spec => [](ContainerIffWorking /\ CooldownHasWayBack)
  <1>1. Init => SerialInv(s)
    BY SerialInit
  <1>2. TypeHistory /\ SerialInv(s) /\ [Next]_vars => SerialInv(s)'
    BY SerialStep
  <1>3. SerialInv(s) => ContainerIffWorking /\ CooldownHasWayBack
    BY SerialImplies
  <1>4. Spec => []TypeHistory
    BY TypeHistoryInvariant DEF TypeHistory
  <1> QED BY <1>1, <1>2, <1>3, <1>4, PTL DEF Spec
-----------------------------------------------------------------------------
\* The only rule that leaves `banned` is the acknowledgement.
LEMMA OnlyAcknowledged ==
    ASSUME NEW rule \in Transitions, "banned" \in rule.from
    PROVE  rule.to = "retired"
  BY DEF Transitions, WarmingRules, ContainerRules, CooldownRules, RetireRules, BanRules,
     Statuses

\* With a snapshot that agrees with the row, no step takes an account out of `banned`
\* but the acknowledgement and the deletion.
LEMMA BannedStep ==
    ASSUME NEW s, Sessions = {s}, TypeHistory, SerialInv(s), [Next]_vars,
           NEW a \in Accounts, acct[a].status = "banned"
    PROVE  acct'[a].status \in {"banned", "retired", "deleted"}
  <1>1. s \in Sessions /\ acct \in [Accounts -> Rows] /\ tx[s] \in Txs
    BY DEF TypeHistory, TypeOK
  <1>2. CASE acct' = acct
    BY <1>2
  <1>3. ASSUME NEW b \in Accounts, \/ \E status \in {"created", "pool"} : CreateAccount(b, status)
                                   \/ DeleteAccount(b)
                                   \/ CooldownElapses(b)
                                   \/ SweepOne(s, b)
        PROVE  acct'[a].status \in {"banned", "retired", "deleted"}
    <2>1. CASE \E status \in {"created", "pool"} : CreateAccount(b, status)
      <3>1. a # b
        BY <2>1 DEF CreateAccount
      <3> QED BY <1>1, <2>1, <3>1 DEF CreateAccount
    <2>2. CASE DeleteAccount(b) \/ SweepOne(s, b)
      BY <1>1, <2>2 DEF DeleteAccount, SweepOne, Erase, FreshRow
    <2>3. CASE CooldownElapses(b)
      <3>1. acct' = [acct EXCEPT ![b] = [acct[b] EXCEPT !.until = "elapsed"]]
        BY <2>3 DEF CooldownElapses
      <3>2. acct[b] \in Rows
        BY <1>1
      <3> QED BY <1>1, <3>1, <3>2 DEF Rows
    <2> QED BY <1>3, <2>1, <2>2, <2>3
  <1>4. ASSUME NEW b \in tx[s].todo, tx[s].op \in RowOps, Alive(b),
               NEW event, NEW rule \in Transitions, Resolve(event, tx[s].snap[b]) = {rule},
               NEW c, rule.effect = "attach_container" => c \in Campaigns,
               Write(s, b, rule, tx[s].snap[b], c)
        PROVE  acct'[a].status \in {"banned", "retired", "deleted"}
    <2>1. /\ \A d \in Accounts : d # b => acct'[d] = acct[d]
          /\ acct'[b].status = rule.to /\ acct[b].status \in rule.from
      BY <1>1, <1>4, SerialCommit
    <2> QED BY <2>1, OnlyAcknowledged
  <1>5. ASSUME NEW b \in Accounts, CommitTransition(s, b)
        PROVE  acct'[a].status \in {"banned", "retired", "deleted"}
    <2>1. /\ b \in tx[s].todo /\ Alive(b)
          /\ tx[s].op \in SingleEvents \cup {"cooldown.expired"}
      BY <1>5 DEF CommitTransition
    <2>2. tx[s].op \in RowOps
      BY <2>1 DEF RowOps
    <2>3. PICK rule \in Transitions :
             /\ Resolve(tx[s].op, tx[s].snap[b]) = {rule}
             /\ Write(s, b, rule, tx[s].snap[b], NULL)
      BY <1>5 DEF CommitTransition
    <2>4. rule.effect # "attach_container"
      <3>1. rule.event = tx[s].op
        BY <2>3 DEF Resolve
      <3> QED BY <2>1, <3>1 DEF Transitions, WarmingRules, ContainerRules, CooldownRules, RetireRules, BanRules, SingleEvents
    <2> QED BY <1>4, <2>1, <2>2, <2>3, <2>4
  <1>6. ASSUME NEW b \in Accounts, NEW c \in Campaigns, CommitAttach(s, c, b)
        PROVE  acct'[a].status \in {"banned", "retired", "deleted"}
    <2>1. b \in tx[s].todo /\ tx[s].op \in RowOps /\ Alive(b)
      BY <1>6 DEF CommitAttach, RowOps, Insertable
    <2>2. PICK rule \in Transitions :
             /\ Resolve("container.attach", tx[s].snap[b]) = {rule}
             /\ Write(s, b, rule, tx[s].snap[b], c)
      BY <1>6 DEF CommitAttach
    <2> QED BY <1>4, <2>1, <2>2
  <1>7. ASSUME NEW b \in Accounts, NEW c \in Campaigns, CommitDetach(s, c, b)
        PROVE  acct'[a].status \in {"banned", "retired", "deleted"}
    <2>1. b \in tx[s].todo /\ tx[s].op \in RowOps /\ Alive(b)
      BY <1>7 DEF CommitDetach, RowOps
    <2>2. PICK rule \in Transitions :
             /\ Resolve("container.detach", tx[s].snap[b]) = {rule}
             /\ Write(s, b, rule, tx[s].snap[b], NULL)
      BY <1>7 DEF CommitDetach
    <2>3. rule.effect # "attach_container"
      <3>1. rule.event = "container.detach"
        BY <2>2 DEF Resolve
      <3> QED BY <3>1 DEF Transitions, WarmingRules, ContainerRules, CooldownRules, RetireRules, BanRules
    <2> QED BY <1>4, <2>1, <2>2, <2>3
  <1>8. ASSUME NEW b \in Accounts, DeleteDetach(s, b)
        PROVE  acct'[a].status \in {"banned", "retired", "deleted"}
    <2> DEFINE base == Reassigned(acct, tx[s].moved)
    <2>1. PICK rule \in Resolve("container.detach", acct[b]) :
             acct' = [base EXCEPT ![b] = ApplyEffects(rule, base[b], NULL)]
      BY <1>8 DEF DeleteDetach
    <2>2. acct[b].status = "assigned"
      BY DEF Resolve, Transitions, WarmingRules, ContainerRules, CooldownRules, RetireRules,
         BanRules
    <2>3. base \in [Accounts -> Rows] /\ \A d \in Accounts : base[d].status = acct[d].status
      BY <1>1, ReassignedType DEF Txs
    <2> HIDE DEF base
    <2> QED BY <2>1, <2>2, <2>3
  <1>9. ASSUME FinishDelete(s)
        PROVE  acct'[a].status \in {"banned", "retired", "deleted"}
    BY <1>1, <1>9, ReassignedType DEF FinishDelete, Txs
  <1>10. ASSUME Open(s) \/ Crash(s) PROVE acct' = acct
    BY <1>10 DEF Open, Crash, RequestTransition, RequestAttach, RequestDetach, RequestDelete,
                 StartSweep, StartCooldownReturn
  <1>11. ASSUME Progress(s)
         PROVE  acct'[a].status \in {"banned", "retired", "deleted"}
    BY <1>2, <1>3, <1>5, <1>6, <1>7, <1>8, <1>9, <1>11
       DEF Progress, AbortTransition, FlushAttach, RefuseAttach, DeleteFlush, DeleteSkip,
           DeleteFails
  <1>12. CASE UNCHANGED vars
    BY <1>2, <1>12 DEF vars
  <1>13. ASSUME NEW c \in Campaigns, NEW b \in Accounts, FlushDetach(c, b)
         PROVE  acct' = acct
    BY <1>13 DEF FlushDetach
  <1> QED BY <1>2, <1>3, <1>10, <1>11, <1>12, <1>13 DEF Next

\* Without overlapping sessions a ban is final: only the acknowledgement, or the
\* deletion of the account, ends it.
THEOREM SerialBannedIsFinal ==
    ASSUME NEW s, Sessions = {s}
    PROVE  Spec => BannedIsFinal
  <1>1. Init => SerialInv(s)
    BY SerialInit
  <1>2. TypeHistory /\ SerialInv(s) /\ [Next]_vars => SerialInv(s)'
    BY SerialStep
  <1>3. TypeHistory /\ SerialInv(s) /\ [Next]_vars =>
           [\A a \in Accounts : acct[a].status = "banned" =>
               acct'[a].status \in {"banned", "retired", "deleted"}]_vars
    BY BannedStep
  <1>4. Spec => []TypeHistory
    BY TypeHistoryInvariant DEF TypeHistory
  <1> QED BY <1>1, <1>2, <1>3, <1>4, PTL DEF Spec, BannedIsFinal
-----------------------------------------------------------------------------
\* What a campaign deletion has flushed but not committed: who leads with that campaign
\* goes to another one it is linked to, and who does not stays where it is.
MovesOK(s) ==
    \A m \in tx[s].moved :
        /\ m.acct \in Accounts
        /\ m.to = NULL => acct[m.acct].container # tx[s].camp
        /\ m.to # NULL => /\ acct[m.acct].container = tx[s].camp
                          /\ m.to # tx[s].camp /\ <<m.to, m.acct>> \in links

LinkInv(s) == ContainerIsLinked /\ MovesOK(s)

\* Containers that stay, become NULL or come with their link are linked, where the links
\* that go away are of campaigns that go too or lead nobody.
LEMMA LinksStay ==
    ASSUME TypeHistory, ContainerIsLinked, campaigns' \subseteq campaigns,
           \A a \in Accounts : \/ acct'[a].container = acct[a].container
                               \/ acct'[a].container = NULL
                               \/ <<acct'[a].container, a>> \in links',
           \A a \in Accounts : /\ acct'[a].container \in campaigns'
                               /\ <<acct'[a].container, a>> \in links
                               => <<acct'[a].container, a>> \in links'
    PROVE  ContainerIsLinked'
  <1>1. NULL \notin campaigns'
    BY NullAssumption DEF TypeHistory, TypeOK
  <1> QED BY <1>1 DEF ContainerIsLinked

\* A closed session has moved nothing.
LEMMA ClosedMovesOK == ASSUME NEW s, tx'[s] = Idle PROVE MovesOK(s)'
  BY DEF MovesOK, Idle

\* The container after the commit of a transition from a fresh snapshot.
LEMMA SerialContainer ==
    ASSUME TypeHistory, NEW s \in Sessions, SerialInv(s), NEW a \in tx[s].todo,
           tx[s].op \in RowOps, Alive(a), NEW rule \in Transitions,
           NEW c, Write(s, a, rule, tx[s].snap[a], c)
    PROVE  /\ \A b \in Accounts : b # a => acct'[b] = acct[b]
           /\ acct'[a].container = IF rule.effect = "attach_container" THEN c
                                   ELSE IF rule.effect = "detach_container" THEN NULL
                                   ELSE acct[a].container
  <1>1. acct \in [Accounts -> Rows] /\ a \in Accounts
    BY DEF TypeHistory, TypeOK, Txs
  <1>2. SameButClock(tx[s].snap[a], acct[a])
    BY DEF SerialInv
  <1> DEFINE out == Merge(rule, tx[s].snap[a], ApplyEffects(rule, tx[s].snap[a], c), acct[a])
  <1>3. out.container = IF rule.effect = "attach_container" THEN c
                        ELSE IF rule.effect = "detach_container" THEN NULL
                        ELSE acct[a].container
    BY <1>2 DEF Merge, ApplyEffects, SameButClock
  <1>4. acct' = [acct EXCEPT ![a] = out]
    BY DEF Write
  <1> HIDE DEF out
  <1> QED BY <1>1, <1>3, <1>4

\* A reassigned row has the container its move names.
LEMMA ReassignedLeads ==
    ASSUME acct \in [Accounts -> Rows], NEW moved, NEW a \in Accounts
    PROVE  \/ Reassigned(acct, moved)[a].container = acct[a].container
              /\ \A m \in moved : m.acct = a => m.to = NULL
           \/ \E m \in moved : /\ m.acct = a /\ m.to # NULL
                               /\ Reassigned(acct, moved)[a].container = m.to
  <1>1. CASE \E m \in moved : m.acct = a /\ m.to # NULL
    <2> DEFINE m == CHOOSE m \in moved : m.acct = a /\ m.to # NULL
    <2>1. m \in moved /\ m.acct = a /\ m.to # NULL
      BY <1>1
    <2>2. Reassigned(acct, moved)[a] = [acct[a] EXCEPT !.container = m.to]
      BY <1>1 DEF Reassigned
    <2> HIDE DEF m
    <2>3. acct[a] \in Rows
      OBVIOUS
    <2>4. [acct[a] EXCEPT !.container = m.to].container = m.to
      BY <2>3 DEF Rows
    <2> QED BY <2>1, <2>2, <2>4
  <1>2. CASE ~ \E m \in moved : m.acct = a /\ m.to # NULL
    BY <1>2 DEF Reassigned
  <1> QED BY <1>1, <1>2

\* The rows of the account table come, go and age.
LEMMA LinkTableStep ==
    ASSUME TypeHistory, NEW s \in Sessions, SerialInv(s), LinkInv(s), NEW a \in Accounts,
           \/ \E status \in {"created", "pool"} : CreateAccount(a, status)
           \/ DeleteAccount(a)
           \/ CooldownElapses(a)
    PROVE  LinkInv(s)'
  <1>1. acct \in [Accounts -> Rows] /\ tx[s] \in Txs
    BY DEF TypeHistory, TypeOK
  <1>2. UNCHANGED <<campaigns, tx>>
    BY DEF CreateAccount, DeleteAccount, Erase, CooldownElapses
  <1>3. ASSUME NEW status \in {"created", "pool", "deleted"},
               acct' = [acct EXCEPT ![a] = FreshRow(status)],
               links' = links \/ links' = links \ (Campaigns \X {a}),
               \A m \in tx[s].moved : m.acct # a
        PROVE  LinkInv(s)'
    <2>1. acct'[a].container = NULL /\ \A b \in Accounts : b # a => acct'[b] = acct[b]
      BY <1>1, <1>3 DEF FreshRow
    <2>2. \A b, c : b # a /\ <<c, b>> \in links => <<c, b>> \in links'
      BY <1>3
    <2>3. NULL \notin campaigns'
      BY <1>2, NullAssumption DEF TypeHistory, TypeOK
    <2>4. ContainerIsLinked'
      BY <1>2, <2>1, <2>2, <2>3, LinksStay DEF LinkInv
    <2>5. MovesOK(s)'
      BY <1>2, <1>3, <2>1, <2>2 DEF LinkInv, MovesOK
    <2> QED BY <2>4, <2>5 DEF LinkInv
  <1>4. CASE \E status \in {"created", "pool"} : CreateAccount(a, status)
    <2> PICK status \in {"created", "pool"} : CreateAccount(a, status)
      BY <1>4
    <2>1. acct[a].status = "absent" /\ acct' = [acct EXCEPT ![a] = FreshRow(status)] /\ links' = links
      BY DEF CreateAccount
    <2>2. acct[a].container = NULL
      BY <2>1 DEF SerialInv, RowOK
    <2>3. CASE \A m \in tx[s].moved : m.acct # a
      BY <1>3, <2>1, <2>3
    <2>4. CASE \E m \in tx[s].moved : m.acct = a
      <3>1. acct'[a].container = NULL /\ \A b \in Accounts : b # a => acct'[b] = acct[b]
        BY <1>1, <2>1 DEF FreshRow
      <3>2. \A b \in Accounts : acct'[b].container = acct[b].container
        BY <2>2, <3>1
      <3>3. ContainerIsLinked'
        BY <1>2, <2>1, <3>2 DEF LinkInv, ContainerIsLinked
      <3>4. MovesOK(s)'
        BY <1>2, <2>1, <3>2 DEF LinkInv, MovesOK
      <3> QED BY <3>3, <3>4 DEF LinkInv
    <2> QED BY <2>3, <2>4
  <1>5. CASE DeleteAccount(a)
    <2>1. /\ acct' = [acct EXCEPT ![a] = FreshRow("deleted")]
          /\ links' = links \ (Campaigns \X {a})
      BY <1>5 DEF DeleteAccount, Erase
    <2>2. \A m \in tx[s].moved : m.acct # a
      <3> SUFFICES ASSUME NEW m \in tx[s].moved, m.acct = a PROVE FALSE
        OBVIOUS
      <3>1. tx[s].op = "delete" /\ tx[s].camp \in Campaigns
        BY DEF SerialInv
      <3>2. s # NULL
        BY NullAssumption
      <3> QED BY <1>5, <3>1, <3>2 DEF DeleteAccount, LinkLocked
    <2> QED BY <1>3, <2>1, <2>2
  <1>6. CASE CooldownElapses(a)
    <2>1. acct' = [acct EXCEPT ![a] = [acct[a] EXCEPT !.until = "elapsed"]] /\ links' = links
      BY <1>6 DEF CooldownElapses
    <2>2. [acct[a] EXCEPT !.until = "elapsed"].container = acct[a].container
      BY <1>1 DEF Rows
    <2>3. \A b \in Accounts : acct'[b].container = acct[b].container
      BY <1>1, <2>1, <2>2
    <2>4. ContainerIsLinked'
      BY <1>2, <2>1, <2>3 DEF LinkInv, ContainerIsLinked
    <2>5. MovesOK(s)'
      BY <1>2, <2>1, <2>3 DEF LinkInv, MovesOK
    <2> QED BY <2>4, <2>5 DEF LinkInv
  <1> QED BY <1>4, <1>5, <1>6

\* The session commits, refuses or aborts its transition, attach or detach, or sweeps.
LEMMA LinkCommitStep ==
    ASSUME TypeHistory, NEW s \in Sessions, SerialInv(s), LinkInv(s), NEW a \in Accounts,
           \/ CommitTransition(s, a)
           \/ AbortTransition(s, a)
           \/ SweepOne(s, a)
           \/ \E c \in Campaigns : \/ CommitAttach(s, c, a) \/ FlushAttach(s, c, a)
                                   \/ RefuseAttach(s, c, a) \/ CommitDetach(s, c, a)
    PROVE  LinkInv(s)'
  <1>1. acct \in [Accounts -> Rows] /\ tx \in [Sessions -> Txs] /\ NULL \notin campaigns
    BY NullAssumption DEF TypeHistory, TypeOK
  <1>2. tx[s].op # "delete"
    BY DEF CommitTransition, AbortTransition, SweepOne, CommitAttach, FlushAttach, RefuseAttach,
           CommitDetach, SingleEvents
  <1>3. tx[s].moved = {}
    BY <1>2 DEF SerialInv
  <1>4. MovesOK(s)'
    <2>1. tx' = [tx EXCEPT ![s] = Idle] \/ tx' = [tx EXCEPT ![s] = Rest(tx[s], a)]
      BY DEF CommitTransition, AbortTransition, SweepOne, CommitAttach, FlushAttach,
             RefuseAttach, CommitDetach
    <2>2. tx'[s] = Idle \/ tx'[s] = [tx[s] EXCEPT !.todo = tx[s].todo \ {a}]
      BY <1>1, <2>1 DEF Rest
    <2>3. tx'[s] = [tx[s] EXCEPT !.todo = tx[s].todo \ {a}] => tx'[s].moved = {}
      BY <1>1, <1>3 DEF Txs
    <2> QED BY <2>2, <2>3, ClosedMovesOK DEF MovesOK
  <1>5. ContainerIsLinked'
    <2>1. CASE UNCHANGED <<acct, links, campaigns>>
      BY <2>1 DEF LinkInv, ContainerIsLinked
    <2>2. CASE CommitTransition(s, a)
      <3>1. /\ a \in tx[s].todo /\ Alive(a) /\ UNCHANGED <<links, campaigns>>
            /\ tx[s].op \in SingleEvents \cup {"cooldown.expired"}
        BY <2>2 DEF CommitTransition
      <3>2. tx[s].op \in RowOps
        BY <3>1 DEF RowOps
      <3>3. PICK rule \in Transitions :
               /\ Resolve(tx[s].op, tx[s].snap[a]) = {rule}
               /\ Write(s, a, rule, tx[s].snap[a], NULL)
        BY <2>2 DEF CommitTransition
      <3>4. /\ \A b \in Accounts : b # a => acct'[b] = acct[b]
            /\ acct'[a].container = IF rule.effect = "attach_container" THEN NULL
                                    ELSE IF rule.effect = "detach_container" THEN NULL
                                    ELSE acct[a].container
        BY <3>1, <3>2, <3>3, SerialContainer
      <3>5. acct'[a].container = NULL \/ acct'[a].container = acct[a].container
        BY <3>4
      <3> QED BY <3>1, <3>4, <3>5, LinksStay DEF LinkInv
    <2>3. CASE SweepOne(s, a)
      <3>1. CASE Erase(a)
        <4>1. /\ acct' = [acct EXCEPT ![a] = FreshRow("deleted")] /\ UNCHANGED campaigns
              /\ links' = links \ (Campaigns \X {a})
          BY <3>1 DEF Erase
        <4>2. acct'[a].container = NULL /\ \A b \in Accounts : b # a => acct'[b] = acct[b]
          BY <1>1, <4>1 DEF FreshRow
        <4>3. \A b, c : b # a /\ <<c, b>> \in links => <<c, b>> \in links'
          BY <4>1
        <4> QED BY <1>1, <4>1, <4>2, <4>3, LinksStay DEF LinkInv
      <3> QED BY <2>1, <2>3, <3>1 DEF SweepOne
    <2>4. ASSUME NEW c \in Campaigns, CommitAttach(s, c, a) PROVE ContainerIsLinked'
      <3>1. /\ a \in tx[s].todo /\ tx[s].op \in RowOps /\ Alive(a) /\ UNCHANGED campaigns
            /\ links' = links \cup {<<c, a>>}
        BY <2>4 DEF CommitAttach, RowOps, Insertable
      <3>2. PICK rule \in Transitions :
               /\ Resolve("container.attach", tx[s].snap[a]) = {rule}
               /\ Write(s, a, rule, tx[s].snap[a], c)
        BY <2>4 DEF CommitAttach
      <3>3. /\ \A b \in Accounts : b # a => acct'[b] = acct[b]
            /\ acct'[a].container \in {c, NULL, acct[a].container}
        BY <3>1, <3>2, SerialContainer
      <3> QED BY <3>1, <3>3, LinksStay DEF LinkInv
    <2>5. ASSUME NEW c \in Campaigns, CommitDetach(s, c, a) PROVE ContainerIsLinked'
      <3>1. /\ a \in tx[s].todo /\ tx[s].op \in RowOps /\ Alive(a) /\ UNCHANGED campaigns
            /\ links' = links \ {<<c, a>>}
        BY <2>5 DEF CommitDetach, RowOps
      <3>2. PICK rule \in Transitions :
               /\ Resolve("container.detach", tx[s].snap[a]) = {rule}
               /\ Write(s, a, rule, tx[s].snap[a], NULL)
        BY <2>5 DEF CommitDetach
      <3>3. rule.effect = "detach_container"
        <4>1. rule.event = "container.detach"
          BY <3>2 DEF Resolve
        <4> QED BY <4>1 DEF Transitions, WarmingRules, ContainerRules, CooldownRules,
                            RetireRules, BanRules
      <3>4. acct'[a].container = NULL /\ \A b \in Accounts : b # a => acct'[b] = acct[b]
        BY <3>1, <3>2, <3>3, SerialContainer
      <3>5. \A b, d : b # a /\ <<d, b>> \in links => <<d, b>> \in links'
        BY <3>1
      <3> QED BY <1>1, <3>1, <3>4, <3>5, LinksStay DEF LinkInv
    <2> QED BY <2>1, <2>2, <2>3, <2>4, <2>5 DEF AbortTransition, FlushAttach, RefuseAttach
  <1> QED BY <1>4, <1>5 DEF LinkInv

\* The session deletes a campaign, link by link.
LEMMA LinkDeleteStep ==
    ASSUME TypeHistory, NEW s \in Sessions, SerialInv(s), LinkInv(s),
           \/ \E a \in Accounts : \/ DeleteDetach(s, a) \/ DeleteFlush(s, a)
                                  \/ DeleteSkip(s, a) \/ DeleteFails(s, a)
           \/ FinishDelete(s)
    PROVE  LinkInv(s)'
  <1>1. /\ acct \in [Accounts -> Rows] /\ tx \in [Sessions -> Txs] /\ tx[s] \in Txs
        /\ NULL \notin campaigns
    BY NullAssumption DEF TypeHistory, TypeOK
  <1>2. \A a \in Accounts :
           \/ /\ Reassigned(acct, tx[s].moved)[a].container = acct[a].container
              /\ \A m \in tx[s].moved : m.acct = a => acct[a].container # tx[s].camp
           \/ /\ Reassigned(acct, tx[s].moved)[a].container # tx[s].camp
              /\ <<Reassigned(acct, tx[s].moved)[a].container, a>> \in links
    <2> SUFFICES ASSUME NEW a \in Accounts
                 PROVE  \/ /\ Reassigned(acct, tx[s].moved)[a].container = acct[a].container
                           /\ \A m \in tx[s].moved : m.acct = a => acct[a].container # tx[s].camp
                        \/ /\ Reassigned(acct, tx[s].moved)[a].container # tx[s].camp
                           /\ <<Reassigned(acct, tx[s].moved)[a].container, a>> \in links
      OBVIOUS
    <2> DEFINE new == Reassigned(acct, tx[s].moved)[a].container
    <2>1. \A m \in tx[s].moved : m.acct = a /\ m.to = NULL => acct[a].container # tx[s].camp
      BY DEF LinkInv, MovesOK
    <2>2. \A m \in tx[s].moved : m.acct = a /\ m.to # NULL => m.to # tx[s].camp /\ <<m.to, a>> \in links
      BY DEF LinkInv, MovesOK
    <2>3. \/ new = acct[a].container /\ \A m \in tx[s].moved : m.acct = a => m.to = NULL
          \/ \E m \in tx[s].moved : m.acct = a /\ m.to # NULL /\ new = m.to
      BY <1>1, ReassignedLeads
    <2> HIDE DEF new
    <2> SUFFICES \/ /\ new = acct[a].container
                    /\ \A m \in tx[s].moved : m.acct = a => acct[a].container # tx[s].camp
                 \/ new # tx[s].camp /\ <<new, a>> \in links
      BY DEF new
    <2> QED BY <2>1, <2>2, <2>3
  <1>3. ASSUME NEW todo, NEW moved,
               tx' = [tx EXCEPT ![s] = [tx[s] EXCEPT !.todo = todo, !.moved = moved]]
        PROVE  tx'[s].camp = tx[s].camp /\ tx'[s].moved = moved
    <2>1. tx'[s] = [tx[s] EXCEPT !.todo = todo, !.moved = moved]
      BY <1>1, <1>3
    <2> QED BY <1>1, <2>1 DEF Txs
  <1>4. ASSUME NEW a \in Accounts, DeleteDetach(s, a)
        PROVE  LinkInv(s)'
    <2> DEFINE base == Reassigned(acct, tx[s].moved)
    <2>1. PICK rule \in Resolve("container.detach", acct[a]) :
             acct' = [base EXCEPT ![a] = ApplyEffects(rule, base[a], NULL)]
      BY <1>4 DEF DeleteDetach
    <2>2. rule.effect = "detach_container"
      BY DEF Resolve, Transitions, WarmingRules, ContainerRules, CooldownRules, RetireRules,
         BanRules
    <2>3. ApplyEffects(rule, base[a], NULL).container = NULL
      BY <2>2 DEF ApplyEffects
    <2>4. base = [b \in Accounts |-> base[b]]
      BY DEF Reassigned
    <2>5. /\ UNCHANGED campaigns
          /\ links' = (links \ {<<tx[s].camp, m.acct>> : m \in tx[s].moved}) \ {<<tx[s].camp, a>>}
          /\ tx' = [tx EXCEPT ![s] = [tx[s] EXCEPT !.todo = tx[s].todo \ {a}, !.moved = {}]]
      BY <1>4 DEF DeleteDetach, Unlinked
    <2>6. \A b \in Accounts :
             \/ /\ base[b].container = acct[b].container
                /\ \A m \in tx[s].moved : m.acct = b => acct[b].container # tx[s].camp
             \/ base[b].container # tx[s].camp /\ <<base[b].container, b>> \in links
      BY <1>2
    <2> HIDE DEF base
    <2>7. acct'[a].container = NULL /\ \A b \in Accounts : b # a => acct'[b] = base[b]
      BY <2>1, <2>3, <2>4
    <2>8. \A b \in Accounts : \A d : <<d, b>> \in links /\ <<d, b>> \notin links' =>
             d = tx[s].camp /\ (b = a \/ \E m \in tx[s].moved : m.acct = b)
      BY <2>5
    <2>9. ASSUME NEW b \in Accounts, acct'[b].container \in campaigns
          PROVE  <<acct'[b].container, b>> \in links'
      <3>1. b # a /\ acct'[b] = base[b]
        BY <1>1, <2>7, <2>9
      <3>2. CASE base[b].container # tx[s].camp /\ <<base[b].container, b>> \in links
        BY <2>8, <3>1, <3>2
      <3>3. CASE /\ base[b].container = acct[b].container
                 /\ \A m \in tx[s].moved : m.acct = b => acct[b].container # tx[s].camp
        <4>1. <<acct[b].container, b>> \in links
          BY <2>9, <3>1, <3>3 DEF LinkInv, ContainerIsLinked
        <4> QED BY <2>8, <3>1, <3>3, <4>1
      <3> QED BY <2>6, <3>2, <3>3
    <2>10. tx'[s].moved = {}
      BY <1>3, <2>5
    <2>11. MovesOK(s)'
      BY <2>10 DEF MovesOK
    <2> QED BY <2>5, <2>9, <2>11 DEF LinkInv, ContainerIsLinked
  <1>5. ASSUME NEW a \in Accounts, DeleteFlush(s, a)
        PROVE  LinkInv(s)'
    <2> DEFINE kept(d) == IF acct[a].container = tx[s].camp THEN d ELSE NULL
    <2>1. PICK d \in LinksOf(a) \ {tx[s].camp} :
             tx' = [tx EXCEPT ![s] = [tx[s] EXCEPT !.todo = tx[s].todo \ {a},
                        !.moved = tx[s].moved \cup {[acct |-> a, to |-> kept(d)]}]]
      BY <1>5 DEF DeleteFlush
    <2>2. UNCHANGED <<acct, links, campaigns>> /\ d # NULL /\ <<d, a>> \in links
      BY <1>5, NullAssumption DEF DeleteFlush, LinksOf
    <2> DEFINE new == [acct |-> a, to |-> kept(d)]
    <2>3. /\ new.acct = a
          /\ new.to = NULL => acct[a].container # tx[s].camp
          /\ new.to # NULL => acct[a].container = tx[s].camp /\ new.to = d
      BY <2>2
    <2>4. tx'[s].camp = tx[s].camp /\ tx'[s].moved = tx[s].moved \cup {new}
      BY <2>1, <1>3
    <2> HIDE DEF new
    <2>5. \A m \in tx'[s].moved : m \in tx[s].moved \/ m = new
      BY <2>4
    <2>6. MovesOK(s)'
      BY <2>1, <2>2, <2>3, <2>4, <2>5 DEF LinkInv, MovesOK
    <2> QED BY <2>2, <2>6 DEF LinkInv, ContainerIsLinked
  <1>6. ASSUME NEW a \in Accounts, DeleteSkip(s, a) \/ DeleteFails(s, a)
        PROVE  LinkInv(s)'
    <2>1. UNCHANGED <<acct, links, campaigns>>
      BY <1>6 DEF DeleteSkip, DeleteFails
    <2>2. tx'[s].moved = {}
      <3>1. CASE DeleteSkip(s, a)
        <4>1. tx' = [tx EXCEPT ![s] = [tx[s] EXCEPT !.todo = tx[s].todo \ {a}, !.moved = {}]]
          BY <3>1 DEF DeleteSkip
        <4> QED BY <1>3, <4>1
      <3>2. CASE DeleteFails(s, a)
        BY <1>1, <3>2 DEF DeleteFails, Idle
      <3> QED BY <1>6, <3>1, <3>2
    <2> QED BY <2>1, <2>2 DEF LinkInv, ContainerIsLinked, MovesOK
  <1>7. CASE FinishDelete(s)
    <2> DEFINE base == Reassigned(acct, tx[s].moved)
    <2>1. /\ acct' = base /\ campaigns' = campaigns \ {tx[s].camp} /\ tx'[s] = Idle
          /\ links' = links \ ({tx[s].camp} \X Accounts)
      BY <1>1, <1>7 DEF FinishDelete
    <2>2. \A b \in Accounts :
             \/ base[b].container = acct[b].container
             \/ base[b].container # tx[s].camp /\ <<base[b].container, b>> \in links
      BY <1>2
    <2> HIDE DEF base
    <2>3. \A b \in Accounts : \A d : d # tx[s].camp /\ <<d, b>> \in links => <<d, b>> \in links'
      BY <2>1
    <2>4. ASSUME NEW b \in Accounts, acct'[b].container \in campaigns'
          PROVE  <<acct'[b].container, b>> \in links'
      BY <2>1, <2>2, <2>3, <2>4 DEF LinkInv, ContainerIsLinked
    <2>5. MovesOK(s)'
      BY <2>1, ClosedMovesOK
    <2> QED BY <2>4, <2>5 DEF LinkInv, ContainerIsLinked
  <1> QED BY <1>4, <1>5, <1>6, <1>7

\* Opening a call moves nothing, and neither does a death.
LEMMA LinkQuietStep ==
    ASSUME TypeHistory, NEW s \in Sessions, LinkInv(s), Open(s) \/ Crash(s)
    PROVE  LinkInv(s)'
  <1>1. tx \in [Sessions -> Txs]
    BY DEF TypeHistory, TypeOK
  <1>2. UNCHANGED <<acct, links, campaigns>>
    BY DEF Open, Crash, RequestTransition, RequestAttach, RequestDetach, RequestDelete,
           StartSweep, StartCooldownReturn
  <1>3. \A op, c, todo : Opened(op, c, todo).moved = {}
    BY DEF Opened
  <1>4. \A op, c, todo : [Opened(op, c, todo) EXCEPT !.snap = Idle.snap].moved = {}
    BY DEF Opened
  <1>5. \/ \E op, c, todo : tx' = [tx EXCEPT ![s] = Opened(op, c, todo)]
        \/ \E op, c, todo : tx' = [tx EXCEPT ![s] = [Opened(op, c, todo) EXCEPT !.snap = Idle.snap]]
        \/ tx' = [tx EXCEPT ![s] = Idle]
    <2>1. CASE Crash(s)
      BY <2>1 DEF Crash
    <2>2. CASE \E a \in Accounts, event \in SingleEvents : RequestTransition(s, event, a)
      BY <2>2 DEF RequestTransition
    <2>3. CASE \E c \in Campaigns, a \in Accounts : RequestAttach(s, c, a) \/ RequestDetach(s, c, a)
      BY <2>3 DEF RequestAttach, RequestDetach
    <2>4. CASE \E c \in Campaigns : RequestDelete(s, c)
      <3> PICK c \in Campaigns : RequestDelete(s, c)
        BY <2>4
      <3> QED BY DEF RequestDelete
    <2>5. CASE StartSweep(s)
      <3> PICK stale \in SUBSET {a \in Accounts : acct[a].status = "created"} :
                 tx' = [tx EXCEPT ![s] = Opened("sweep", NULL, stale)]
        BY <2>5 DEF StartSweep
      <3> QED OBVIOUS
    <2>6. CASE StartCooldownReturn(s)
      BY <2>6 DEF StartCooldownReturn
    <2> QED BY <2>1, <2>2, <2>3, <2>4, <2>5, <2>6 DEF Open
  <1>6. tx'[s].moved = {}
    <2>1. CASE \E op, c, todo : tx' = [tx EXCEPT ![s] = Opened(op, c, todo)]
      BY <1>1, <1>3, <2>1
    <2>2. CASE \E op, c, todo : tx' = [tx EXCEPT ![s] = [Opened(op, c, todo) EXCEPT !.snap = Idle.snap]]
      <3> PICK op, c, todo : tx' = [tx EXCEPT ![s] = [Opened(op, c, todo) EXCEPT !.snap = Idle.snap]]
        BY <2>2
      <3> DEFINE t == [Opened(op, c, todo) EXCEPT !.snap = Idle.snap]
      <3>1. t.moved = {} /\ tx' = [tx EXCEPT ![s] = t]
        BY <1>4
      <3> HIDE DEF t
      <3> QED BY <1>1, <3>1
    <2>3. CASE tx' = [tx EXCEPT ![s] = Idle]
      BY <1>1, <2>3 DEF Idle
    <2> QED BY <1>5, <2>1, <2>2, <2>3
  <1> QED BY <1>2, <1>6 DEF LinkInv, ContainerIsLinked, MovesOK

LEMMA LinkStep ==
    ASSUME NEW s, Sessions = {s}, TypeHistory, SerialInv(s), LinkInv(s), [Next]_vars
    PROVE  LinkInv(s)'
  <1>0. s \in Sessions
    OBVIOUS
  <1>1. CASE UNCHANGED vars
    BY <1>1 DEF vars, LinkInv, ContainerIsLinked, MovesOK
  <1>2. CASE \E a \in Accounts : \/ \E status \in {"created", "pool"} : CreateAccount(a, status)
                                 \/ DeleteAccount(a)
                                 \/ CooldownElapses(a)
    BY <1>0, <1>2, LinkTableStep
  <1>3. CASE \E c \in Campaigns, a \in Accounts : FlushDetach(c, a)
    BY <1>3 DEF FlushDetach, LinkInv, ContainerIsLinked, MovesOK
  <1>4. CASE Open(s) \/ Crash(s)
    BY <1>0, <1>4, LinkQuietStep
  <1>5. CASE Progress(s)
    BY <1>0, <1>5, LinkCommitStep, LinkDeleteStep DEF Progress
  <1> QED BY <1>1, <1>2, <1>3, <1>4, <1>5 DEF Next

\* Without overlapping sessions the campaign an account leads with, as long as it exists, is
\* one it is linked to: attaching, detaching, the reassignment of a campaign deletion, its
\* rollbacks and the deletion of accounts keep column and links together
\* (modules/commenting/api/service.py:125-134).
THEOREM SerialLinked ==
    ASSUME NEW s, Sessions = {s}
    PROVE  Spec => []ContainerIsLinked
  <1>1. Init => SerialInv(s)
    BY SerialInit
  <1>2. Init => LinkInv(s)
    BY NullAssumption DEF Init, LinkInv, ContainerIsLinked, MovesOK, Idle, FreshRow
  <1>3. TypeHistory /\ SerialInv(s) /\ [Next]_vars => SerialInv(s)'
    BY SerialStep
  <1>4. TypeHistory /\ SerialInv(s) /\ LinkInv(s) /\ [Next]_vars => LinkInv(s)'
    BY LinkStep
  <1>5. LinkInv(s) => ContainerIsLinked
    BY DEF LinkInv
  <1>6. Spec => []TypeHistory
    BY TypeHistoryInvariant DEF TypeHistory
  <1> QED BY <1>1, <1>2, <1>3, <1>4, <1>5, <1>6, PTL DEF Spec
=============================================================================

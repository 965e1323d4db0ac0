------------------------------ MODULE BulkJobs ------------------------------
(***************************************************************************)
(* One bulk job (worker/tasks/bulk.py, core/repositories/bulk_job.py,      *)
(* api/routers/bulk_jobs.py): the API commits it and enqueues a dispatch;  *)
(* the worker sends one task per pending item, claims the item, asks the   *)
(* governor, runs the action and writes the result; the user cancels or    *)
(* retries the failed items meanwhile.  BulkInit is the moment after the       *)
(* commit of create_bulk_job.                                              *)
(*                                                                         *)
(* The worker is one event loop: a stretch of its code without an await    *)
(* (`loop`) excludes every other step of the worker, but the API process   *)
(* commits in the middle of it, between what was read and what is written. *)
(***************************************************************************)
EXTENDS Naturals, FiniteSets
LOCAL INSTANCE TLC

CONSTANTS
    Items,       \* the job's items, one per account
    Dispatches,  \* bound: dispatch requests, the first one and one per retry-failed
    First,       \* the dispatch requested by create_bulk_job
    MaxHurt,     \* bound on deaths of a process and deletions of an account
    Neither

ASSUME BulkAssumption == /\ First \in Dispatches
                         /\ Neither \notin Items \cup Dispatches
                         /\ Items \cap Dispatches = {}
                         /\ MaxHurt \in Nat

VARIABLES
    job,     \* bulk_jobs.status
    item,    \* bulk_job_items.status, "gone" once the account is deleted
    disp,    \* bulk.dispatch requests: where they are, tries, items still to send
    msgs,    \* bulk.item tasks waiting in the queue, by item
    execs,   \* bulk.item tasks suspended at an await, by item and place
    loop,    \* what the event loop is doing between two awaits
    req,     \* what the API is doing
    runs,    \* how many times action.run was started, by item
    resets,  \* how many times retry-failed reset the item
    hurt     \* how many deaths and deletions there have been

bulkVars == <<job, item, disp, msgs, execs, loop, req, runs, resets, hurt>>
-----------------------------------------------------------------------------
JobStatuses == {"queued", "running", "done", "failed", "cancelled"}
ItemStatuses == {"pending", "running", "done", "failed", "skipped", "cancelled"}
Unended == {"pending", "running"}
Table == [Items -> ItemStatuses \cup {"gone"}]

\* asked: committed by the API, not enqueued; sending: the worker is at an enqueue.
DispatchRows == [at: {"unused", "asked", "queued", "sending", "over"}, tries: 0..2,
                 todo: SUBSET Items]
Places == {"claimed", "acting", "deferred"}

Free == [op |-> "free", who |-> Neither, at |-> Neither, to |-> Neither, job |-> "queued",
         items |-> [i \in Items |-> "pending"]]
Loops == [op: {"free", "dispatch", "claim", "finish"}, who: Items \cup Dispatches \cup {Neither},
          at: Places \cup {Neither}, to: ItemStatuses \cup {Neither}, job: JobStatuses, items: Table]
NoReq == [op |-> "none", job |-> "queued"]
Reqs == [op: {"none", "cancel", "retry"}, job: JobStatuses]

Read(op, who, at, to) ==
    [op |-> op, who |-> who, at |-> at, to |-> to, job |-> job, items |-> item]

BulkInit ==
    /\ job = "queued"
    /\ item = [i \in Items |-> "pending"]
    /\ disp = [d \in Dispatches |-> [at |-> IF d = First THEN "asked" ELSE "unused",
                                     tries |-> 0, todo |-> {}]]
    /\ msgs = [i \in Items |-> 0]
    /\ execs = [i \in Items |-> [p \in Places |-> 0]]
    /\ loop = Free
    /\ req = NoReq
    /\ runs = [i \in Items |-> 0]
    /\ resets = [i \in Items |-> 0]
    /\ hurt = 0

\* The UPDATE writes the status column only if it differs from what was read.
Written(seen, new, cur) == IF new # seen THEN new ELSE cur

\* Mutant: running items do not keep the job open.
ClosedByPending(seen, view) ==
    IF seen = "cancelled" \/ \E i \in Items : view[i] = "pending" THEN seen
    ELSE IF \E i \in Items : view[i] = "failed" THEN "failed" ELSE "done"

\* recompute_counters: the job's status by the items it counts.
Recomputed(seen, view) ==
    IF seen = "cancelled" \/ \E i \in Items : view[i] \in Unended THEN seen
    ELSE IF \E i \in Items : view[i] = "failed" THEN "failed" ELSE "done"
-----------------------------------------------------------------------------
(* The API process. *)

Enqueue(d) ==
    /\ disp[d].at = "asked"
    /\ disp' = [disp EXCEPT ![d].at = "queued"]
    /\ UNCHANGED <<job, item, msgs, execs, loop, req, runs, resets, hurt>>

\* cancel and retry-failed read the job; cancel of a job done or cancelled does nothing,
\* of another one it writes a status that differs from the one read in any case.
\* Bound: a retry is asked for only while a dispatch is left for it.
Request(op) ==
    /\ req = NoReq
    /\ IF op = "cancel" THEN job \notin {"done", "cancelled"}
       ELSE \E d \in Dispatches : disp[d].at = "unused"
    /\ req' = [op |-> op, job |-> IF op = "retry" THEN job ELSE NoReq.job]
    /\ UNCHANGED <<job, item, disp, msgs, execs, loop, runs, resets, hurt>>

\* One UPDATE of the items still pending, then the job.
Cancel ==
    /\ req.op = "cancel"
    /\ item' = [i \in Items |-> IF item[i] = "pending" THEN "cancelled" ELSE item[i]]
    /\ job' = "cancelled"
    /\ req' = NoReq
    /\ UNCHANGED <<disp, msgs, execs, loop, runs, resets, hurt>>

\* Mutant: items that are running are reset as well.
RetryRunning(d) ==
    LET reset == {i \in Items : item[i] \in {"failed", "running"}} IN
    /\ req.op = "retry"
    /\ disp[d].at = "unused"
    /\ item' = [i \in Items |-> IF i \in reset THEN "pending" ELSE item[i]]
    /\ resets' = [i \in Items |-> IF i \in reset THEN resets[i] + 1 ELSE resets[i]]
    /\ job' = IF reset = {} THEN job ELSE Written(req.job, "queued", job)
    /\ disp' = IF reset = {} THEN disp ELSE [disp EXCEPT ![d].at = "asked"]
    /\ req' = NoReq
    /\ UNCHANGED <<msgs, execs, loop, runs, hurt>>

\* reset_failed_to_pending, then a new dispatch - if there was anything to reset.
Retry(d) ==
    LET reset == {i \in Items : item[i] = "failed"} IN
    /\ req.op = "retry"
    /\ disp[d].at = "unused"
    /\ item' = [i \in Items |-> IF i \in reset THEN "pending" ELSE item[i]]
    /\ resets' = [i \in Items |-> IF i \in reset THEN resets[i] + 1 ELSE resets[i]]
    /\ job' = IF reset = {} THEN job ELSE Written(req.job, "queued", job)
    /\ disp' = IF reset = {} THEN disp ELSE [disp EXCEPT ![d].at = "asked"]
    /\ req' = NoReq
    /\ UNCHANGED <<msgs, execs, loop, runs, hurt>>

\* The account is deleted, its items go by ON DELETE CASCADE.
DeleteAccount(i) ==
    /\ item[i] # "gone"
    /\ item' = [item EXCEPT ![i] = "gone"]
    /\ hurt < MaxHurt /\ hurt' = hurt + 1
    /\ UNCHANGED <<job, disp, msgs, execs, loop, req, runs, resets>>
-----------------------------------------------------------------------------
(* The worker. *)

\* Where arq leaves a bulk.dispatch that did not return: max_tries=2.
Again(d) == IF disp[d].tries < 2 THEN "queued" ELSE "over"

\* bulk.dispatch reads the job and its pending items ...
DispatchRead(d) ==
    /\ loop = Free
    /\ disp[d].at = "queued"
    /\ disp' = [disp EXCEPT ![d].tries = @ + 1]
    /\ loop' = Read("dispatch", d, Neither, Neither)
    /\ UNCHANGED <<job, item, msgs, execs, req, runs, resets, hurt>>

\* Mutant: the dispatch sends nothing to a job that is no longer queued.
SendIfQueued(d) ==
    /\ loop.op = "dispatch" /\ loop.who = d
    /\ job' = IF loop.job = "queued" THEN "running" ELSE job
    /\ disp' = [disp EXCEPT ![d].at = "sending", ![d].todo =
                   {i \in Items : loop.items[i] = "pending" /\ loop.job = "queued"}]
    /\ loop' = Free
    /\ UNCHANGED <<item, msgs, execs, req, runs, resets, hurt>>

\* ... marks the job running, if it read it queued, and commits,
DispatchCommit(d) ==
    /\ loop.op = "dispatch" /\ loop.who = d
    /\ job' = IF loop.job = "queued" THEN "running" ELSE job
    /\ disp' = [disp EXCEPT ![d].at = "sending",
                            ![d].todo = {i \in Items : loop.items[i] = "pending"}]
    /\ loop' = Free
    /\ UNCHANGED <<item, msgs, execs, req, runs, resets, hurt>>

\* or, being of a build that does not know the action, fails every pending item;
\* where one of those rows has been deleted since, the transaction ends in an error.
DispatchUnknown(d) ==
    LET stale == {i \in Items : loop.items[i] = "pending"}
        failed(view) == [i \in Items |-> IF i \in stale THEN "failed" ELSE view[i]]
    IN  /\ loop.op = "dispatch" /\ loop.who = d
        /\ IF \E i \in stale : item[i] = "gone"
           THEN /\ disp' = [disp EXCEPT ![d].at = Again(d)]
                /\ UNCHANGED <<job, item>>
           ELSE /\ disp' = [disp EXCEPT ![d].at = "over"]
                /\ item' = failed(item)
                /\ \E view \in {loop.items, item} :
                      job' = Written(loop.job, Recomputed(loop.job, failed(view)), job)
        /\ loop' = Free
        /\ UNCHANGED <<msgs, execs, req, runs, resets, hurt>>

\* One await per item sent.
Send(d, i) ==
    /\ loop = Free
    /\ disp[d].at = "sending" /\ i \in disp[d].todo
    /\ msgs' = [msgs EXCEPT ![i] = @ + 1]
    /\ disp' = [disp EXCEPT ![d].todo = @ \ {i}]
    /\ UNCHANGED <<job, item, execs, loop, req, runs, resets, hurt>>

DispatchOver(d) ==
    /\ loop = Free
    /\ disp[d].at = "sending" /\ disp[d].todo = {}
    /\ disp' = [disp EXCEPT ![d].at = "over"]
    /\ UNCHANGED <<job, item, msgs, execs, loop, req, runs, resets, hurt>>

\* Mutant: a task takes its item whatever its status.
TakeAny(i) ==
    /\ loop = Free
    /\ msgs[i] > 0
    /\ msgs' = [msgs EXCEPT ![i] = @ - 1]
    /\ \E to \in {"running", "failed", "skipped"} :
          loop' = IF item[i] # "gone" THEN Read("claim", i, Neither, to) ELSE loop
    /\ UNCHANGED <<job, item, disp, execs, req, runs, resets, hurt>>

\* bulk.item starts: an item that is not pending is left alone.  The item is claimed,
\* or failed (action not known to this build), or skipped (account banned or retired).
Take(i) ==
    /\ loop = Free
    /\ msgs[i] > 0
    /\ msgs' = [msgs EXCEPT ![i] = @ - 1]
    /\ \E to \in {"running", "failed", "skipped"} :
          loop' = IF item[i] = "pending" THEN Read("claim", i, Neither, to) ELSE loop
    /\ UNCHANGED <<job, item, disp, execs, req, runs, resets, hurt>>

\* apply_item_result and recompute_counters as one commit.  The items are read after
\* the job, so an API commit in between may be seen in them and not in it.  The UPDATE
\* of a row deleted meanwhile is an error, and nothing is written.
Store(i, to) ==
    \E view \in {loop.items, item} :
        LET set(table) == IF table[i] = "gone" THEN table ELSE [table EXCEPT ![i] = to] IN
        IF loop.items[i] # "gone" /\ item[i] = "gone" THEN UNCHANGED <<item, job>>
        ELSE /\ item' = set(item)
             /\ job' = Written(loop.job, Recomputed(loop.job, set(view)), job)

\* RUNNING is a commit of its own, without a recount.
Claim(i) ==
    /\ loop.op = "claim" /\ loop.who = i
    /\ IF loop.to # "running" THEN Store(i, loop.to)
       ELSE /\ item' = IF item[i] = "gone" THEN item ELSE [item EXCEPT ![i] = "running"]
            /\ UNCHANGED job
    /\ execs' = IF loop.to = "running" /\ item[i] # "gone"
                THEN [execs EXCEPT ![i]["claimed"] = @ + 1] ELSE execs
    /\ loop' = Free
    /\ UNCHANGED <<disp, msgs, req, runs, resets, hurt>>

\* The governor (or an action without a limit) and the client pool let it go on.
Allow(i) ==
    /\ loop = Free
    /\ execs[i]["claimed"] > 0
    /\ execs' = [execs EXCEPT ![i]["claimed"] = @ - 1, ![i]["acting"] = @ + 1]
    /\ runs' = [runs EXCEPT ![i] = @ + 1]
    /\ UNCHANGED <<job, item, disp, msgs, loop, req, resets, hurt>>

\* A task ends: failed before the action (payload, client), turned away by the governor
\* (pending again), or with the result, the error or the timeout of the action.
Results(at) == IF at = "claimed" THEN {"failed", "pending"} ELSE {"done", "failed", "skipped"}

Finish(i, at) ==
    /\ loop = Free
    /\ execs[i][at] > 0
    /\ \E to \in Results(at) : loop' = Read("finish", i, at, to)
    /\ UNCHANGED <<job, item, disp, msgs, execs, req, runs, resets, hurt>>

\* Mutant: whatever was taken is given back as a claim.
FreesClaim(i) ==
    /\ loop.op = "finish" /\ loop.who = i
    /\ Store(i, loop.to)
    /\ execs' = IF loop.to = "pending"
                THEN [execs EXCEPT ![i]["claimed"] = @ - 1, ![i]["deferred"] = @ + 1]
                ELSE [execs EXCEPT ![i]["claimed"] = @ - 1]
    /\ loop' = Free
    /\ UNCHANGED <<disp, msgs, req, runs, resets, hurt>>

\* Turned away, the task still has to schedule its successor.
FinishCommit(i) ==
    /\ loop.op = "finish" /\ loop.who = i
    /\ Store(i, loop.to)
    /\ execs' = IF loop.to = "pending"
                THEN [execs EXCEPT ![i][loop.at] = @ - 1, ![i]["deferred"] = @ + 1]
                ELSE [execs EXCEPT ![i][loop.at] = @ - 1]
    /\ loop' = Free
    /\ UNCHANGED <<disp, msgs, req, runs, resets, hurt>>

Schedule(i) ==
    /\ loop = Free
    /\ execs[i]["deferred"] > 0
    /\ execs' = [execs EXCEPT ![i]["deferred"] = @ - 1]
    /\ msgs' = [msgs EXCEPT ![i] = @ + 1]
    /\ UNCHANGED <<job, item, disp, loop, req, runs, resets, hurt>>

\* The worker dies.  Waiting tasks stay in Redis; a dispatch under way is tried again,
\* an item task is not (max_tries=1).
WorkerDies ==
    /\ loop' = Free
    /\ execs' = [i \in Items |-> [p \in Places |-> 0]]
    /\ disp' = [d \in Dispatches |->
                  IF disp[d].at = "sending" \/ loop.who = d
                  THEN [disp[d] EXCEPT !.at = Again(d), !.todo = {}] ELSE disp[d]]
    /\ hurt < MaxHurt /\ hurt' = hurt + 1
    /\ UNCHANGED <<job, item, msgs, req, runs, resets>>

\* The API dies, or Redis refuses the dispatch: it is never enqueued.
ApiDies ==
    /\ disp' = [d \in Dispatches |->
                  IF disp[d].at = "asked" THEN [disp[d] EXCEPT !.at = "over"] ELSE disp[d]]
    /\ req' = NoReq
    /\ hurt < MaxHurt /\ hurt' = hurt + 1
    /\ UNCHANGED <<job, item, msgs, execs, loop, runs, resets>>
-----------------------------------------------------------------------------
Api == \/ \E d \in Dispatches : Enqueue(d) \/ Retry(d)
       \/ \E op \in {"cancel", "retry"} : Request(op)
       \/ Cancel

WorkerDispatch(d) == \/ DispatchRead(d) \/ DispatchCommit(d) \/ DispatchUnknown(d)
                     \/ DispatchOver(d)
                     \/ \E i \in Items : Send(d, i)

WorkerItem(i) == \/ Take(i) \/ Claim(i) \/ Allow(i) \/ FinishCommit(i) \/ Schedule(i)
                 \/ \E at \in {"claimed", "acting"} : Finish(i, at)

BulkNext == \/ Api
            \/ \E d \in Dispatches : WorkerDispatch(d)
            \/ \E i \in Items : WorkerItem(i) \/ DeleteAccount(i)
            \/ WorkerDies \/ ApiDies

BulkSpec == BulkInit /\ [][BulkNext]_bulkVars

\* Requests and tasks are picked up and go on; the governor does not turn an item away
\* for ever, and every action ends (asyncio.wait_for with 180 s).
BulkFairness ==
    /\ \A d \in Dispatches : WF_bulkVars(Enqueue(d)) /\ SF_bulkVars(WorkerDispatch(d))
    /\ \A i \in Items : /\ SF_bulkVars(WorkerItem(i))
                         /\ SF_bulkVars(Allow(i))
                         /\ SF_bulkVars(Finish(i, "acting"))

BulkFairSpec == BulkSpec /\ BulkFairness
-----------------------------------------------------------------------------
(* Properties *)

\* Tables, requests and tasks are well formed, and no dispatch is tried more than twice.
BulkTypeOK ==
    /\ job \in JobStatuses
    /\ item \in Table
    /\ disp \in [Dispatches -> DispatchRows]
    /\ msgs \in [Items -> Nat]
    /\ execs \in [Items -> [Places -> Nat]]
    /\ loop \in Loops
    /\ req \in Reqs
    /\ runs \in [Items -> Nat]
    /\ resets \in [Items -> Nat]
    /\ hurt \in Nat

Working(i) == execs[i]["claimed"] + execs[i]["acting"]

\* However many tasks there are for an item (two dispatches, a dispatch sent twice, a
\* rescheduled task), at most one is past the claim, and then the item reads running -
\* also where the claim overwrote a cancellation.
OneRunner ==
    \A i \in Items : /\ Working(i) <= 1
                     /\ Working(i) = 1 => item[i] \in {"running", "gone"}

\* The action runs on an account once, and once more per retry-failed: no redelivery,
\* crash, cancellation or race of an API commit with the worker runs it again.
RunOncePerReset == \A i \in Items : runs[i] <= 1 + resets[i]

\* A task of the item waits, or will be sent.
OnItsWay(i) ==
    \/ msgs[i] > 0 \/ execs[i]["deferred"] > 0
    \/ \E d \in Dispatches : \/ disp[d].at \in {"asked", "queued"}
                             \/ disp[d].at = "sending" /\ i \in disp[d].todo
    \/ loop.op = "claim" /\ loop.who = i

\* Without a crash or a deleted account no item is forgotten, cancellations and retries
\* at any moment included: what is pending has a task coming, what is running has one at
\* work (the item the comment worker/tasks/bulk.py:33-36 is about).
NothingForgotten ==
    hurt = 0 =>
        \A i \in Items : /\ item[i] = "pending" => OnItsWay(i)
                         /\ item[i] = "running" => Working(i) = 1

\* As long as nothing has been retried, a job that reads done or failed has no item left
\* to run (core/repositories/bulk_job.py, recompute_counters).
ClosedJobIsClosed ==
    (\A i \in Items : resets[i] = 0) /\ job \in {"done", "failed"} =>
        \A i \in Items : item[i] \notin Unended

\* A running item comes to its end, whatever becomes of the task that runs it: were it
\* to hang for ever, the job would never be over (worker/tasks/bulk.py:33-36).
RunningItemEnds == \A i \in Items : item[i] = "running" ~> item[i] # "running"

\* Nothing tells the items from one another (for TLC).
Symmetry == Permutations(Items)
=============================================================================

------------------------------ MODULE Parsing ------------------------------
(***************************************************************************)
(* modules/parsing: a job that collects users of a chat into a list.  The  *)
(* API commits the job and enqueues parser_run; the user pauses, resumes   *)
(* and stops it through the row of the job, which the task looks at now    *)
(* and then.  Requests and task each work in sessions of their own: what a *)
(* request read may be old when it commits.  Lists can be thinned out,     *)
(* deleted and combined meanwhile.                                         *)
(***************************************************************************)
EXTENDS Integers, FiniteSets

CONSTANTS
    Jobs,        \* jobs; the list of a job goes by its name
    Derived,     \* lists made from other lists
    People,      \* users a parser may find
    Requests_,   \* requests the API may handle at the same time
    MaxCommands, \* bound on commands and deletions
    MaxMisfits   \* bound on lost tasks

ParsingAssumption == /\ IsFiniteSet(People) /\ Jobs \cap Derived = {}
                     /\ {MaxCommands, MaxMisfits} \subseteq Nat

VARIABLES
    status_,  \* jobs.status; none: no such job yet
    control,  \* jobs.control
    at,       \* where parser_run of the job is
    found,    \* what it has collected
    list_,    \* lists: whether there is one, its targets, after_filters_count
    request,  \* what each request has read and will do
    commands, misfits,
    lost,     \* jobs whose task never came, died or was cut off by the job timeout
    late,     \* jobs whose status a request wrote after the task had written the last one
    blurred   \* lists that had two deletions at the same time

parVars == <<status_, control, at, found, list_, request, commands, misfits, lost, late,
             blurred>>
job == <<status_, control, at, found>>
notes == <<commands, misfits, lost, late, blurred>>

Active == {"pending", "running", "paused"}
Working == {"committed", "queued", "begun", "reading", "looking", "filtering", "stored"}
Lists == Jobs \cup Derived
NoList == [there |-> FALSE, targets |-> {}, kept |-> 0]
FreshList(targets) == [there |-> TRUE, targets |-> targets, kept |-> Cardinality(targets)]
NoRequest == [op |-> "none", on |-> "", saw |-> "", gone |-> {}, left |-> 0]

ParInit ==
    /\ status_ = [j \in Jobs |-> "none"] /\ control = [j \in Jobs |-> "run"]
    /\ at = [j \in Jobs |-> "none"] /\ found = [j \in Jobs |-> {}]
    /\ list_ = [l \in Lists |-> NoList]
    /\ request = [r \in Requests_ |-> NoRequest]
    /\ commands = 0 /\ misfits = 0
    /\ lost = {} /\ late = {} /\ blurred = {}
-----------------------------------------------------------------------------
(* The API *)

\* _start_job commits the row, then enqueues.
StartJob(j) ==
    /\ status_[j] = "none"
    /\ status_' = [status_ EXCEPT ![j] = "pending"]
    /\ at' = [at EXCEPT ![j] = "committed"]
    /\ UNCHANGED <<control, found, list_, request, notes>>

EnqueueJob(j) ==
    /\ at[j] = "committed" /\ at' = [at EXCEPT ![j] = "queued"]
    /\ UNCHANGED <<status_, control, found, list_, request, notes>>

Counted == commands < MaxCommands /\ commands' = commands + 1
Answers(r) == request' = [request EXCEPT ![r] = NoRequest]

\* control_job reads the job, which stays in its session.
Command(r, j) ==
    /\ request[r] = NoRequest /\ status_[j] # "none" /\ Counted
    /\ \E op \in {"pause", "run", "stop"} :
          request' = [request EXCEPT ![r] = [NoRequest EXCEPT !.op = op, !.on = j,
                                                              !.saw = status_[j]]]
    /\ UNCHANGED <<job, list_, misfits, lost, late, blurred>>

\* set_control writes the command, and the status only where what it read calls for it.
StatusAfter(op, saw) ==
    IF op = "pause" /\ saw = "running" THEN "paused"
    ELSE IF op = "run" /\ saw = "paused" THEN "running" ELSE saw

CommitCommand(r) ==
    LET j == request[r].on
        new == StatusAfter(request[r].op, request[r].saw) IN
    /\ request[r].op \in {"pause", "run", "stop"}
    /\ control' = [control EXCEPT ![j] = request[r].op]
    /\ IF new = request[r].saw THEN UNCHANGED <<status_, late>>
       ELSE /\ status_' = [status_ EXCEPT ![j] = new]
            /\ late' = IF at[j] = "over" THEN late \cup {j} ELSE late
    /\ Answers(r)
    /\ UNCHANGED <<at, found, list_, commands, misfits, lost, blurred>>

\* delete_targets: the rows go and the rest is counted; the count is written and committed
\* afterwards.  A row another deletion has in hand keeps this one waiting.
Thin(r, l) ==
    /\ request[r] = NoRequest /\ list_[l].there /\ Counted
    /\ \E gone \in (SUBSET list_[l].targets) \ {{}} :
          /\ \A q \in Requests_ : request[q].on = l => request[q].gone \cap gone = {}
          /\ request' = [request EXCEPT ![r] =
                [NoRequest EXCEPT !.op = "thin", !.on = l, !.gone = gone,
                                  !.left = Cardinality(list_[l].targets \ gone)]]
    /\ blurred' = IF \E q \in Requests_ : request[q].op = "thin" /\ request[q].on = l
                  THEN blurred \cup {l} ELSE blurred
    /\ UNCHANGED <<job, list_, misfits, lost, late>>

\* Mutant: the count is not touched.
ThinUncounted(r) ==
    LET l == request[r].on IN
    /\ request[r].op = "thin"
    /\ list_' = [list_ EXCEPT ![l].targets = @ \ request[r].gone]
    /\ Answers(r)
    /\ UNCHANGED <<job, notes>>

CommitThin(r) ==
    LET l == request[r].on IN
    /\ request[r].op = "thin"
    /\ list_' = [list_ EXCEPT ![l] = [there |-> TRUE, targets |-> @.targets \ request[r].gone,
                                      kept |-> request[r].left]]
    /\ Answers(r)
    /\ UNCHANGED <<job, notes>>

\* delete_list; its rows go with it, so it waits for deletions of rows.
DropList(l) ==
    /\ list_[l].there /\ Counted
    /\ \A q \in Requests_ : request[q].op = "thin" => request[q].on # l
    /\ list_' = [list_ EXCEPT ![l] = NoList]
    /\ UNCHANGED <<job, request, misfits, lost, late, blurred>>

\* run_list_op with two sources: everybody who is in two lists, in one of them, or in the first
\* and not in the other; or some of them.  The same list twice counts as one.
Selected(op, l, m) ==
    LET a == list_[l].targets
        b == list_[m].targets
    IN CASE op = "intersect" -> {IF l = m THEN {} ELSE a \cap b}
         [] op = "union"     -> {a \cup b}
         [] op = "subtract"  -> {a \ b}
         [] op = "sample"    -> {s \in SUBSET (a \cup b) : s = {} => a \cup b = {}}

Combine(d, l, m) ==
    /\ ~list_[d].there /\ list_[l].there /\ list_[m].there /\ Counted
    /\ \E op \in {"intersect", "union", "subtract", "sample"} :
          \E chosen \in Selected(op, l, m) :
              list_' = [list_ EXCEPT ![d] = FreshList(chosen)]
    /\ UNCHANGED <<job, request, misfits, lost, late, blurred>>
-----------------------------------------------------------------------------
(* parser_run *)

Goes(j, place) == at' = [at EXCEPT ![j] = place]
Finishes(j, status) ==
    /\ Goes(j, "over")
    /\ status_' = [status_ EXCEPT ![j] = status]

\* Stopped before it began; else it is running, whatever the row said.
BeginRun(j) ==
    /\ at[j] = "queued"
    /\ IF control[j] = "stop" THEN Finishes(j, "stopped")
       ELSE status_' = [status_ EXCEPT ![j] = "running"] /\ Goes(j, "begun")
    /\ UNCHANGED <<control, found, list_, request, notes>>

\* The governor says no: done, with nothing.  Or the list is created.
OpenList(j) ==
    /\ at[j] = "begun"
    /\ \/ Finishes(j, "done") /\ UNCHANGED list_
       \/ /\ list_' = [list_ EXCEPT ![j] = FreshList({})] /\ Goes(j, "reading")
          /\ UNCHANGED status_
    /\ UNCHANGED <<control, found, request, notes>>

\* A chunk has been read: on to the heartbeat; or it was the last one.
ReadChunk(j) ==
    /\ at[j] = "reading"
    /\ \E more \in SUBSET (People \ found[j]) : found' = [found EXCEPT ![j] = @ \cup more]
    /\ Goes(j, "looking") \/ Goes(j, "filtering")
    /\ UNCHANGED <<status_, control, list_, request, notes>>

\* Mutant: a stop ends the task without a word.
LookSilently(j) ==
    /\ at[j] = "looking"
    /\ \/ control[j] = "stop" /\ Goes(j, "over")
       \/ control[j] = "run" /\ Goes(j, "reading")
    /\ UNCHANGED <<status_, control, found, list_, request, notes>>

\* heartbeat: stop ends the task, what it has collected is gone; pause keeps it here.
Heartbeat(j) ==
    /\ at[j] = "looking"
    /\ \/ control[j] = "stop" /\ Finishes(j, "stopped")
       \/ control[j] = "run" /\ Goes(j, "reading") /\ UNCHANGED status_
    /\ UNCHANGED <<control, found, list_, request, notes>>

\* Filters and blacklist leave some; they are inserted and counted in one transaction.  A list
\* that was deleted makes that fail.
StoreTargets(j) ==
    /\ at[j] = "filtering"
    /\ \E kept \in SUBSET found[j] :
          \/ list_[j].there /\ list_' = [list_ EXCEPT ![j] = FreshList(kept)]
          \/ kept = {} /\ ~list_[j].there /\ UNCHANGED list_
    /\ Goes(j, "stored")
    /\ UNCHANGED <<status_, control, found, request, notes>>

Done(j) ==
    /\ at[j] = "stored" /\ Finishes(j, "done")
    /\ UNCHANGED <<control, found, list_, request, notes>>

\* No client, no such chat, Telegram, the database.
Fails(j) ==
    /\ at[j] \in {"begun", "reading", "looking", "filtering"} /\ Finishes(j, "failed")
    /\ UNCHANGED <<control, found, list_, request, notes>>

\* Redis refuses the task, the worker dies (max_tries is 1), or arq's job timeout cancels the
\* task, which no handler of parser_run sees: a pause lasts no longer than that.
JobLost(j) ==
    /\ at[j] \in Working \ {"queued"} /\ Goes(j, "over")
    /\ misfits < MaxMisfits /\ misfits' = misfits + 1
    /\ lost' = lost \cup {j}
    /\ UNCHANGED <<status_, control, found, list_, request, commands, late, blurred>>
-----------------------------------------------------------------------------
Runs(j) ==
    \/ StartJob(j) \/ EnqueueJob(j) \/ BeginRun(j) \/ OpenList(j) \/ ReadChunk(j)
    \/ Heartbeat(j) \/ StoreTargets(j) \/ Done(j) \/ Fails(j) \/ JobLost(j)

ParNext ==
    \/ \E j \in Jobs : Runs(j)
    \/ \E r \in Requests_ : \/ CommitCommand(r) \/ CommitThin(r)
                            \/ \E j \in Jobs : Command(r, j)
                            \/ \E l \in Lists : Thin(r, l)
    \/ \E l \in Lists : DropList(l)
    \/ \E d \in Derived, l, m \in Lists : Combine(d, l, m)

ParSpec == ParInit /\ [][ParNext]_parVars
-----------------------------------------------------------------------------
(* Properties *)

\* Jobs, lists and requests are well formed.
ParTypeOK ==
    /\ status_ \in [Jobs -> Active \cup {"none", "done", "failed", "stopped"}]
    /\ control \in [Jobs -> {"run", "pause", "stop"}]
    /\ at \in [Jobs -> Working \cup {"none", "over"}]
    /\ found \in [Jobs -> SUBSET People]
    /\ list_ \in [Lists -> [there: BOOLEAN, targets: SUBSET People, kept: Nat]]
    /\ \A r \in Requests_ : /\ request[r].op \in {"none", "pause", "run", "stop", "thin"}
                            /\ request[r].gone \subseteq People /\ request[r].left \in Nat
    /\ commands \in Nat /\ misfits \in Nat
    /\ lost \cup late \subseteq Jobs /\ blurred \subseteq Lists

\* A job shown as active has a task that goes on with it: no command, in whatever order
\* commands and heartbeats meet, leaves it pending, running or paused for ever.  Two things
\* do: a task that was lost, and a pause read while the job ran and committed after its end
\* (modules/parsing/repositories/job.py:85-97, worker/dispatch.py:113-164).
ActiveJobHasTask ==
    \A j \in Jobs : status_[j] \in Active => at[j] \in Working \/ j \in lost \/ j \in late

\* after_filters_count never says less than a list has, and says just that unless two
\* deletions overlapped (modules/parsing/api/router.py:165-174: each counts what the other has
\* not committed yet).
CountIsRows ==
    \A l \in Lists : /\ list_[l].kept >= Cardinality(list_[l].targets)
                     /\ l \notin blurred => list_[l].kept = Cardinality(list_[l].targets)
=============================================================================

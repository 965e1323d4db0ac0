------------------------------ MODULE Backfill ------------------------------
(***************************************************************************)
(* modules/commenting/worker/backfill.py: the campaign is to comment posts *)
(* that are there already.  One task per channel goes back through its     *)
(* history in batches and schedules an on_channel_post for each post it    *)
(* wants, while new posts appear, comments are made, other channels of the *)
(* campaign are gone through and the campaign is edited, which starts all  *)
(* of it again (modules/commenting/api/router.py).                         *)
(*                                                                         *)
(* A page is a monitored channel; at most one run goes through it at a     *)
(* time.  A higher number is a younger post.                               *)
(***************************************************************************)
EXTENDS Naturals, Sequences, FiniteSets, Functions

CONSTANTS
    Pages,     \* monitored channels of the campaign
    Writer,    \* the account each of them belongs to
    Known,     \* posts a channel has at the beginning
    Newest,    \* bound: posts a channel can come to have
    TooOld,    \* posts up to this number are older than existing_scope_max_age_days
    MaxPosts,  \* existing_scope_max_posts
    BatchSize,
    Quota,     \* max_comments of the campaign
    Delays,    \* posting_delay_min_sec .. posting_delay_max_sec
    MaxRounds, \* bound: backfills asked for
    MaxClock   \* bound: time

\* What the module assumes of its constants.
BackfillAssumption ==
    /\ {Known, Newest, TooOld, MaxRounds, MaxClock} \subseteq Nat
    /\ {MaxPosts, BatchSize, Quota} \subseteq Nat \ {0}
    /\ Delays \subseteq Nat

VARIABLES
    clock,
    young,     \* the last post of each channel
    commented, \* posts with a POSTED row of the channel's account
    asked,     \* channels whose backfill_channel is in the queue
    walk,      \* what the channel's backfill is doing
    plan,      \* on_channel_post tasks: [page, post, at]
    rounds

backVars == <<clock, young, commented, asked, walk, plan, rounds>>
-----------------------------------------------------------------------------
Done(p) == Cardinality(commented[p])
PostedCount == LET f[S \in SUBSET Pages] ==
                       IF S = {} THEN 0
                       ELSE LET p == CHOOSE q \in S : TRUE IN Done(p) + f[S \ {p}]
               IN  f[Pages]

\* at: the step; room: what is left of the quota; batch: what is still to be looked at;
\* short: it is the last one; already: its posts that count as commented; made: the tasks of
\* this run, in order, which are remembered when it is over.
AtRest == [at |-> "idle", room |-> 0, seen |-> 0, offset |-> 0, short |-> FALSE, batch |-> <<>>,
           already |-> {}, next |-> 0, begun |-> 0, made |-> <<>>]

Over(w) == [AtRest EXCEPT !.room = w.room, !.begun = w.begun, !.made = w.made]

BackInit ==
    /\ clock = 0 /\ rounds = 0
    /\ young = [p \in Pages |-> Known]
    /\ commented = [p \in Pages |-> {}]
    /\ asked = {} /\ plan = {}
    /\ walk = [p \in Pages |-> AtRest]
-----------------------------------------------------------------------------
\* PATCH of the campaign, launch, or a channel that became working.
Ask(p) ==
    /\ rounds < MaxRounds /\ p \notin asked
    /\ asked' = asked \cup {p}
    /\ rounds' = rounds + 1
    /\ UNCHANGED <<clock, young, commented, walk, plan>>

Smaller(m, n) == IF m < n THEN m ELSE n
Rest(m, n) == IF m > n THEN m - n ELSE 0

\* backfill_channel: the campaign is read once; nothing is to be done if its quota is full.
Begin(p) ==
    LET room == Rest(Quota, PostedCount)
    IN  /\ p \in asked /\ walk[p].at = "idle"
        /\ asked' = asked \ {p}
        /\ walk' = IF room = 0 THEN walk
                   ELSE [walk EXCEPT ![p] = [AtRest EXCEPT !.at = "read", !.room = room,
                                                           !.next = clock, !.begun = clock]]
        /\ UNCHANGED <<clock, young, commented, plan, rounds>>

\* The channel no longer works, or the campaign is off or for new posts only.
Ignore(p) ==
    /\ p \in asked /\ walk[p].at = "idle"
    /\ asked' = asked \ {p}
    /\ UNCHANGED <<clock, young, commented, walk, plan, rounds>>

\* The n youngest posts below the offset, all of them if it is 0; youngest first.
Below(p, offset, n) ==
    LET top == IF offset = 0 THEN young[p] ELSE offset - 1
    IN  [i \in 1..Smaller(n, top) |-> top + 1 - i]

\* Mutant: the next batch begins after as many posts as were seen.
SkipSeen(p, w, n) ==
    LET top == Rest(young[p], w.seen)
    IN  [i \in 1..Smaller(n, top) |-> top + 1 - i]

\* iter_messages(limit, offset_id)
NextBatch(p, w, n) == Below(p, w.offset, n)

\* _already_commented: posts of the batch with a POSTED row of this account, whose channel is
\* not looked at.
AlreadyCommented(p, ids) ==
    {m \in ids : \E q \in Pages : Writer[q] = Writer[p] /\ m \in commented[q]}

\* Mutant: every batch is a whole one.
WholeBatch(w) == BatchSize

BatchLimit(w) == Smaller(BatchSize, MaxPosts - w.seen)

\* A batch is read, and with it which of its posts the account has commented.
Read(p) ==
    LET w == walk[p]
        size == BatchLimit(w)
        batch == NextBatch(p, w, size)
    IN  /\ w.at = "read"
        /\ walk' = IF batch = <<>> THEN [walk EXCEPT ![p] = Over(w)]
                   ELSE [walk EXCEPT ![p] = [w EXCEPT !.at = "look", !.batch = batch,
                                                      !.short = Len(batch) < size,
                                                      !.offset = batch[Len(batch)],
                                                      !.seen = @ + Len(batch),
                                                      !.already = AlreadyCommented(p, Range(batch))]]
        /\ UNCHANGED <<clock, young, commented, asked, plan, rounds>>

\* After the last post of the batch: a short batch or MaxPosts ends the run.
After(w) ==
    IF w.batch # <<>> THEN w
    ELSE IF w.short \/ w.seen >= MaxPosts THEN Over(w) ELSE [w EXCEPT !.at = "read"]

\* The post is too old, and with it all that follow.
Stop(p) ==
    /\ walk[p].at = "look" /\ Head(walk[p].batch) <= TooOld
    /\ walk' = [walk EXCEPT ![p] = Over(@)]
    /\ UNCHANGED <<clock, young, commented, asked, plan, rounds>>

PassOver(p) ==
    LET w == [walk[p] EXCEPT !.batch = Tail(@)]
    IN  /\ walk[p].at = "look" /\ Head(walk[p].batch) > TooOld
        /\ walk' = [walk EXCEPT ![p] = After(w)]
        /\ UNCHANGED <<clock, young, commented, asked, plan, rounds>>

\* The account is taken to have commented it.
LeaveOut(p) == walk[p].at = "look" /\ Head(walk[p].batch) \in walk[p].already /\ PassOver(p)

\* The filter of the campaign does not let it pass.
FilterOut(p) == walk[p].at = "look" /\ Head(walk[p].batch) \notin walk[p].already /\ PassOver(p)

\* Mutant: the quota is looked at before the task is counted.
FullAfterOneMore(w) == Len(w.made) > w.room

\* scheduled >= remaining
Full(w) == Len(w.made) >= w.room

\* Mutant: every task gets the time at which the run began.
AtOnce(w, d) == w.begun + d

\* Each task comes a posting delay after the one before.
Later(w, d) == w.next + d

\* The post is wanted: TaskQueue.schedule at a time of its own.
Schedule(p, d) ==
    LET post == Head(walk[p].batch)
        at == Later(walk[p], d)
        w == [walk[p] EXCEPT !.batch = Tail(@), !.next = at,
                             !.made = Append(@, [post |-> post, at |-> at])]
    IN  /\ walk[p].at = "look" /\ post > TooOld /\ post \notin walk[p].already
        /\ plan' = plan \cup {[page |-> p, post |-> post, at |-> at]}
        /\ walk' = [walk EXCEPT ![p] = IF Full(w) THEN Over(w) ELSE After(w)]
        /\ UNCHANGED <<clock, young, commented, asked, rounds>>

\* Telegram or Redis fails, or the worker dies: max_tries=1, the run is over.
Break(p) ==
    /\ walk[p].at # "idle"
    /\ walk' = [walk EXCEPT ![p] = Over(@)]
    /\ UNCHANGED <<clock, young, commented, asked, plan, rounds>>
-----------------------------------------------------------------------------
(* What goes on meanwhile *)

\* on_channel_post of a task whose time has come: commented or not, it is gone.
Comment(t) ==
    /\ t \in plan /\ t.at <= clock
    /\ plan' = plan \ {t}
    /\ commented' \in {commented} \cup
          (IF PostedCount < Quota THEN {[commented EXCEPT ![t.page] = @ \cup {t.post}]} ELSE {})
    /\ UNCHANGED <<clock, young, asked, walk, rounds>>

Appear(p) ==
    /\ young[p] < Newest
    /\ young' = [young EXCEPT ![p] = @ + 1]
    /\ UNCHANGED <<clock, commented, asked, walk, plan, rounds>>

Pass ==
    /\ clock < MaxClock
    /\ clock' = clock + 1
    /\ UNCHANGED <<young, commented, asked, walk, plan, rounds>>
-----------------------------------------------------------------------------
BackNext ==
    \/ \E p \in Pages : \/ Ask(p) \/ Begin(p) \/ Ignore(p) \/ Read(p) \/ Stop(p)
                        \/ LeaveOut(p) \/ FilterOut(p) \/ Break(p) \/ Appear(p)
                        \/ \E d \in Delays : Schedule(p, d)
    \/ \E t \in plan : Comment(t)
    \/ Pass

BackSpec == BackInit /\ [][BackNext]_backVars
-----------------------------------------------------------------------------
(* Properties *)

PostTasks == [page: Pages, post: 1..Newest, at: Nat]
Steps == {"idle", "read", "look"}

\* A run has seen no more posts than it may and looks at posts there are.
BackTypeOK ==
    /\ clock \in 0..MaxClock /\ rounds \in 0..MaxRounds
    /\ young \in [Pages -> Known..Newest] /\ asked \subseteq Pages /\ plan \subseteq PostTasks
    /\ \A p \in Pages :
          /\ commented[p] \subseteq 1..young[p]
          /\ walk[p].at \in Steps /\ walk[p].room \in 0..Quota
          /\ walk[p].seen \in 0..MaxPosts
          /\ walk[p].batch \in Seq(1..young[p])
          /\ walk[p].at = "look" => walk[p].batch # <<>>

Made(p) == walk[p].made

\* However many posts appear while a run waits between two batches, it plans each post
\* once, from the youngest to the oldest, never an old one
\* (modules/commenting/worker/backfill.py:160-161, 191-199).
PlannedOnce ==
    \A p \in Pages : \A i, j \in DOMAIN Made(p) :
        /\ i < j => Made(p)[i].post > Made(p)[j].post
        /\ Made(p)[i].post > TooOld

\* The tasks of a run are a posting delay apart, whatever it waited for between two of
\* them, and the first one comes that long after the run began (backfill.py:151-154, 211-214).
SpreadInRun ==
    \A p \in Pages : \A i \in DOMAIN Made(p) :
        \E d \in Delays : Made(p)[i].at = d + (IF i = 1 THEN walk[p].begun ELSE Made(p)[i - 1].at)

\* A run plans no more than the campaign had left when it began, nor than it may look at.
WithinQuota ==
    \A p \in Pages : Len(Made(p)) <= Smaller(walk[p].room, MaxPosts)

\* The posts are planned once, apart from one another, and within the quota.
BackfillKept == PlannedOnce /\ SpreadInRun /\ WithinQuota
=============================================================================

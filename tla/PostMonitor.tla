---------------------------- MODULE PostMonitor ----------------------------
(***************************************************************************)
(* poll_channel_monitors of modules/shilling/worker/orchestrator.py: a     *)
(* cron task, every five minutes, that looks for new posts in a channel    *)
(* and enqueues a process_target for each.  A poll reads the cursor of the *)
(* target, asks Telegram for the newest posts, enqueues and then moves the *)
(* cursor; it starts late when the worker's slots are taken, so two polls  *)
(* may overlap, and arq cancels it after its timeout.  One target.         *)
(***************************************************************************)
EXTENDS Integers, FiniteSetsExt

CONSTANTS
    Polls,     \* polls that may run at the same time
    Batch,     \* _MONITOR_MAX_NEW_POSTS
    MaxPosts,  \* bound on posts of the channel
    MaxCuts    \* bound on polls that are cut off

MonitorAssumption == Batch \in Nat \ {0} /\ {MaxPosts, MaxCuts} \subseteq Nat

VARIABLES
    newest,   \* posts are numbered as they appear; 0: none yet
    active,   \* campaign.enabled and running
    cursor,   \* last_seen_post_id; -1: NULL
    poll,     \* where each poll is, the cursor it read, what it has yet to enqueue
    replies,  \* how often process_target was enqueued for a post
    archive,  \* posts up to here were there when monitoring began
    crowded,  \* posts that newer ones pushed out of the window before a poll saw them
    overlap,  \* two polls ran at the same time
    cuts      \* polls that were cut off

monVars == <<newest, active, cursor, poll, replies, archive, crowded, overlap, cuts>>
bookkeeping == <<archive, crowded, overlap, cuts>>

PostIds == 1..MaxPosts
Resting == [at |-> "idle", seen |-> -1, todo |-> {}, last |-> 0]

MonInit ==
    /\ newest = 0 /\ active = TRUE /\ cursor = -1
    /\ poll = [p \in Polls |-> Resting]
    /\ replies = [n \in PostIds |-> 0]
    /\ archive = 0 /\ crowded = {} /\ overlap = FALSE /\ cuts = 0
-----------------------------------------------------------------------------
Appears ==
    /\ newest < MaxPosts /\ newest' = newest + 1
    /\ UNCHANGED <<active, cursor, poll, replies, bookkeeping>>

Toggle ==
    /\ active' = ~active
    /\ UNCHANGED <<newest, cursor, poll, replies, bookkeeping>>

Rests(p) == poll' = [poll EXCEPT ![p] = Resting]

\* Campaigns and cursors are read in one session, before the first await.
PollStarts(p) ==
    /\ poll[p].at = "idle" /\ active
    /\ poll' = [poll EXCEPT ![p] = [at |-> "fetch", seen |-> cursor, todo |-> {}, last |-> 0]]
    /\ overlap' = (overlap \/ \E q \in Polls \ {p} : poll[q].at # "idle")
    /\ UNCHANGED <<newest, active, cursor, replies, archive, crowded, cuts>>

\* get_messages returns one post more than are handled in one go.
Shown == {n \in PostIds : n > newest - (Batch + 1) /\ n <= newest}
New(seen) == {n \in Shown : n > seen}
Oldest(posts) == {n \in posts : Cardinality({m \in posts : m < n}) < Batch}

\* fresh is what is new and handled in this poll; without a cursor nothing is, and the
\* cursor goes to the newest post.
FetchWith(p, fresh) ==
    LET seen == poll[p].seen IN
    /\ poll[p].at = "fetch"
    /\ IF Shown = {} \/ (seen # -1 /\ fresh = {}) THEN Rests(p)
       ELSE poll' = [poll EXCEPT ![p] =
                        [at |-> "enqueue", seen |-> seen,
                         todo |-> IF seen = -1 THEN {} ELSE fresh,
                         last |-> IF seen = -1 THEN newest ELSE Max(fresh)]]
    /\ crowded' = crowded \cup (IF seen = -1 THEN {}
                                ELSE {n \in PostIds \ Shown : n > seen /\ n <= newest})
    /\ UNCHANGED <<newest, active, cursor, replies, archive, overlap, cuts>>

\* Mutant: the newest posts are handled, not the oldest that are new.
FetchNewest(p) ==
    FetchWith(p, {n \in New(poll[p].seen) : n > newest - Batch})

\* Mutant: the post of the cursor counts as new.
FetchInclusive(p) == FetchWith(p, Oldest(New(poll[p].seen - 1)))

Fetch(p) == FetchWith(p, Oldest(New(poll[p].seen)))

\* No client, or the channel is not to be had.
FetchFails(p) ==
    /\ poll[p].at = "fetch" /\ Rests(p)
    /\ UNCHANGED <<newest, active, cursor, replies, bookkeeping>>

EnqueueReply(p) ==
    /\ poll[p].at = "enqueue" /\ poll[p].todo # {}
    /\ LET n == Min(poll[p].todo) IN
          /\ replies' = [replies EXCEPT ![n] = @ + 1]
          /\ poll' = [poll EXCEPT ![p].todo = @ \ {n}]
    /\ UNCHANGED <<newest, active, cursor, bookkeeping>>

\* set_last_seen_post: whatever the cursor is by now.
MoveCursor(p) ==
    /\ poll[p].at = "enqueue" /\ poll[p].todo = {}
    /\ cursor' = poll[p].last
    /\ archive' = IF poll[p].seen = -1 THEN Max({archive, poll[p].last}) ELSE archive
    /\ Rests(p)
    /\ UNCHANGED <<newest, active, replies, crowded, overlap, cuts>>

\* The timeout, a death of the worker, Redis refusing the enqueue: max_tries is 1.
CutOff(p) ==
    /\ poll[p].at # "idle" /\ Rests(p)
    /\ cuts < MaxCuts /\ cuts' = cuts + 1
    /\ UNCHANGED <<newest, active, cursor, replies, archive, crowded, overlap>>

MonNext ==
    \/ Appears \/ Toggle
    \/ \E p \in Polls : \/ PollStarts(p) \/ Fetch(p) \/ FetchFails(p)
                        \/ EnqueueReply(p) \/ MoveCursor(p) \/ CutOff(p)

MonSpec == MonInit /\ [][MonNext]_monVars
-----------------------------------------------------------------------------
(* Properties *)

\* Cursor, polls and counts are well formed.
MonTypeOK ==
    /\ newest \in 0..MaxPosts /\ active \in BOOLEAN
    /\ cursor \in PostIds \cup {-1}
    /\ poll \in [Polls -> [at: {"idle", "fetch", "enqueue"}, seen: PostIds \cup {-1},
                           todo: SUBSET PostIds, last: 0..MaxPosts]]
    /\ replies \in [PostIds -> Nat]
    /\ archive \in Nat /\ crowded \subseteq PostIds
    /\ overlap \in BOOLEAN /\ cuts \in Nat

\* No post gets a second dialog: not from the next poll, nor after a pause of the campaign.
\* Only a poll that overlaps another one or is cut off between its enqueues and the cursor
\* repeats posts (modules/shilling/worker/orchestrator.py:636-647).
PostOnce == cuts = 0 /\ ~overlap => \A n \in PostIds : replies[n] <= 1

\* The cursor passes over nothing: a post at or below it has its dialog, unless it was there
\* before the monitoring began or newer posts had pushed it out of the window - even if polls
\* overlap or are cut off (orchestrator.py:622-635).
NothingPassedOver ==
    \A n \in PostIds : n <= cursor => replies[n] > 0 \/ n <= archive \/ n \in crowded

\* The cursor of a channel neither repeats nor loses a post: what it has passed got
\* its dialog, and got it once (orchestrator.py:611-650).
EachPostOnce == PostOnce /\ NothingPassedOver
=============================================================================
